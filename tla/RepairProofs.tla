----------------------------- MODULE RepairProofs -----------------------------
(***************************************************************************)
(* What diagnose, repair, os-install and verify do to a disk, for any      *)
(* manifests that do not contradict themselves, any disk, options and      *)
(* number of failures and kills: what they remove is something no          *)
(* installed bundle has a use for, diagnose tells the truth, and two       *)
(* repairs that nothing disturbs put every file right.                     *)
(***************************************************************************)
EXTENDS Repair, WellFoundedInduction, TLAPS

USE DEF place, loaded, work, history, budgets, vars

----------------------------------------------------------------------------
(* The list that is worked off.                                            *)

\* A set of numbers that is not empty has a least one.
LEMMA LeastOf ==
  ASSUME NEW T \in SUBSET Nat, NEW t \in T
  PROVE  \E x \in T : \A y \in T : x <= y
<1> DEFINE R == {ss \in Nat \X Nat : ss[1] < ss[2]}
<1>1. IsWellFoundedOn(R, Nat)
  BY NatLessThanWellFounded DEF OpToRel
<1>2. T # {}
  OBVIOUS
<1> HIDE DEF R
<1>3. PICK x \in T : \A y \in T : ~(<<y, x>> \in R)
  BY <1>1, <1>2, WFMin
<1>4. \A y \in T : x <= y
  <2> TAKE y \in T
  <2>1. ~(<<y, x>> \in R)
    BY <1>3
  <2>2. ~(y < x)
    BY <2>1 DEF R
  <2> QED BY <2>2
<1> QED BY <1>4

\* What holds of 0 and goes from every number up to N to the next holds up to N.
LEMMA Induction ==
  ASSUME NEW N \in Nat, NEW S,
         0 \in S,
         \A i \in 1..N : i - 1 \in S => i \in S
  PROVE  \A i \in 0..N : i \in S
<1> DEFINE T == {i \in 0..N : i \notin S}
<1> SUFFICES ASSUME NEW t \in T PROVE FALSE
  OBVIOUS
<1>1. T \in SUBSET Nat
  OBVIOUS
<1>2. PICK x \in T : \A y \in T : x <= y
  BY <1>1, LeastOf
<1>3. x # 0
  OBVIOUS
<1>4. x \in 1..N /\ x - 1 \in 0..N
  BY <1>3
<1>5. x - 1 \in S
  <2> SUFFICES ASSUME x - 1 \notin S PROVE FALSE
    OBVIOUS
  <2>1. x - 1 \in T
    BY <1>4
  <2>2. x <= x - 1
    BY <1>2, <2>1
  <2> QED BY <2>2, <1>4
<1>6. x \in S
  BY <1>4, <1>5
<1> QED BY <1>6

\* The function of Kept up to the m-th path.
IsKept(first, S, m) ==
  first = [i \in 0..m |-> IF i = 0 THEN <<>>
             ELSE IF Order[i] \in S THEN Append(first[i - 1], Order[i]) ELSE first[i - 1]]

\* There is one.
LEMMA KeptExists ==
  ASSUME NEW S, NEW N \in Nat
  PROVE  \E first : IsKept(first, S, N)
<1> DEFINE Keep(i, w) == IF Order[i] \in S THEN Append(w, Order[i]) ELSE w
           T == {m \in 0..N : \E first : IsKept(first, S, m)}
<1>1. 0 \in T
  <2> DEFINE g == [i \in 0..0 |-> <<>>]
  <2>1. IsKept(g, S, 0)
    BY DEF IsKept
  <2> QED BY <2>1
<1>2. ASSUME NEW m \in 1..N, m - 1 \in T
      PROVE  m \in T
  <2>1. PICK g : IsKept(g, S, m - 1)
    BY <1>2
  <2> DEFINE h == [i \in 0..m |-> IF i = m THEN Keep(m, g[m - 1]) ELSE g[i]]
             k == [i \in 0..m |-> IF i = 0 THEN <<>> ELSE Keep(i, h[i - 1])]
  <2>2. \A i \in 0..(m - 1) : g[i] = IF i = 0 THEN <<>> ELSE Keep(i, g[i - 1])
    BY <2>1 DEF IsKept
  <2> HIDE DEF Keep
  <2>3. ASSUME NEW i \in 0..m PROVE h[i] = k[i]
    <3>1. CASE i = m
      <4>1. h[i - 1] = g[m - 1]
        BY <3>1
      <4> QED BY <3>1, <4>1
    <3>2. CASE i # m
      <4>1. i \in 0..(m - 1) /\ h[i] = g[i]
        BY <3>2
      <4>2. CASE i = 0
        BY <4>1, <4>2, <2>2
      <4>3. CASE i # 0
        <5>1. h[i - 1] = g[i - 1]
          BY <4>1, <4>3
        <5>2. k[i] = Keep(i, h[i - 1])
          BY <4>3
        <5> QED BY <4>1, <4>3, <5>1, <5>2, <2>2
      <4> QED BY <4>2, <4>3
    <3> QED BY <3>1, <3>2
  <2>4. h = k
    BY <2>3
  <2>5. IsKept(h, S, m)
    BY <2>4 DEF IsKept, Keep
  <2> QED BY <2>5
<1> HIDE DEF T
<1>3. \A i \in 0..N : i \in T
  BY <1>1, <1>2, Induction
<1> QED BY <1>3 DEF T

\* w has the first m paths that are in S.
Keeps(w, S, m) ==
  /\ w \in Seq(Paths)
  /\ \A j \in DOMAIN w : w[j] \in S
  /\ \A k \in 1..m : Order[k] \in S => \E j \in DOMAIN w : w[j] = Order[k]

\* list_filter_elements keeps what the predicate holds of, and nothing else.
LEMMA KeptList ==
  ASSUME NEW S
  PROVE  /\ Kept(S) \in Seq(Paths) /\ Elements(Kept(S)) = S \intersect Paths
         /\ Len(Kept(S)) \in Nat /\ DOMAIN Kept(S) = 1..Len(Kept(S))
<1> DEFINE N == Len(Order)
           first == CHOOSE g : g = [i \in 0..N |-> IF i = 0 THEN <<>>
                      ELSE IF Order[i] \in S THEN Append(g[i - 1], Order[i]) ELSE g[i - 1]]
<1>1. /\ N \in Nat /\ DOMAIN Order = 1..N
      /\ \A i \in 1..N : i \in DOMAIN Order /\ Order[i] \in Paths
  BY RepairAssumption
<1>2. Kept(S) = first[N]
  BY DEF Kept
<1>3. \E g : IsKept(g, S, N)
  BY <1>1, KeptExists
<1>4. IsKept(first, S, N)
  BY <1>3 DEF IsKept
<1> HIDE DEF first, N
<1>5. \A i \in 0..N : first[i] = IF i = 0 THEN <<>>
             ELSE IF Order[i] \in S THEN Append(first[i - 1], Order[i]) ELSE first[i - 1]
  BY <1>4 DEF IsKept
<1> DEFINE T == {i \in 0..N : Keeps(first[i], S, i)}
<1>6. 0 \in T
  <2>1. first[0] = <<>>
    BY <1>1, <1>5
  <2>2. Keeps(<<>>, S, 0)
    BY DEF Keeps
  <2> QED BY <1>1, <2>1, <2>2
<1>7. ASSUME NEW i \in 1..N, i - 1 \in T PROVE i \in T
  <2> DEFINE v == first[i - 1]
             w == first[i]
  <2>1. Keeps(v, S, i - 1)
    BY <1>7
  <2>2. w = IF Order[i] \in S THEN Append(v, Order[i]) ELSE v
    BY <1>5, <1>1
  <2>3. i \in 0..N /\ i \in DOMAIN Order /\ Order[i] \in Paths
    BY <1>1
  <2> HIDE DEF v, w
  <2>4. \A k \in 1..i : k \in 1..(i - 1) \/ k = i
    BY <2>3
  <2>5. CASE Order[i] \notin S
    <3>1. w = v
      BY <2>2, <2>5
    <3>2. Keeps(v, S, i)
      BY <2>1, <2>3, <2>4, <2>5 DEF Keeps
    <3> QED BY <3>1, <3>2, <2>3 DEF w
  <2>6. CASE Order[i] \in S
    <3>1. w = Append(v, Order[i])
      BY <2>2, <2>6
    <3>2. v \in Seq(Paths)
      BY <2>1 DEF Keeps
    <3>3. /\ w \in Seq(Paths) /\ DOMAIN w = 1..(Len(v) + 1) /\ DOMAIN v = 1..Len(v)
          /\ Len(v) \in Nat
          /\ \A j \in 1..Len(v) : w[j] = v[j]
          /\ w[Len(v) + 1] = Order[i]
      BY <3>1, <3>2, <2>3
    <3>4. \A j \in DOMAIN w : j \in DOMAIN v \/ j = Len(v) + 1
      BY <3>3
    <3>5. \A j \in DOMAIN w : w[j] \in S
      BY <3>3, <3>4, <2>1, <2>6 DEF Keeps
    <3>6. \A k \in 1..i : Order[k] \in S => \E j \in DOMAIN w : w[j] = Order[k]
      <4> TAKE k \in 1..i
      <4> HAVE Order[k] \in S
      <4>1. CASE k \in 1..(i - 1)
        <5>1. PICK j \in DOMAIN v : v[j] = Order[k]
          BY <4>1, <2>1 DEF Keeps
        <5> QED BY <5>1, <3>3
      <4>2. CASE k = i
        BY <4>2, <3>3
      <4> QED BY <4>1, <4>2, <2>4
    <3>7. Keeps(w, S, i)
      BY <3>3, <3>5, <3>6 DEF Keeps
    <3> QED BY <3>7, <2>3 DEF w
  <2> QED BY <2>5, <2>6
<1> HIDE DEF T
<1>8. \A i \in 0..N : i \in T
  BY <1>1, <1>6, <1>7, Induction
<1>9. N \in T
  BY <1>1, <1>8
<1> DEFINE L == Kept(S)
<1>10. Keeps(L, S, N)
  BY <1>9, <1>2 DEF T
<1> HIDE DEF L
<1>11. L \in Seq(Paths)
  BY <1>10 DEF Keeps
<1>12. Len(L) \in Nat /\ DOMAIN L = 1..Len(L) /\ \A j \in DOMAIN L : L[j] \in Paths
  BY <1>11
<1>13. Elements(L) \subseteq S \intersect Paths
  BY <1>10, <1>12 DEF Keeps, Elements
<1>14. ASSUME NEW p \in S \intersect Paths PROVE p \in Elements(L)
  <2>1. PICK k \in DOMAIN Order : p = Order[k]
    BY DEF Paths
  <2>2. \E j \in DOMAIN L : L[j] = Order[k]
    BY <2>1, <1>1, <1>10 DEF Keeps
  <2> QED BY <2>1, <2>2 DEF Elements
<1>15. Elements(L) = S \intersect Paths
  BY <1>13, <1>14
<1> QED BY <1>11, <1>12, <1>15 DEF L


----------------------------------------------------------------------------
(* Bundles and manifests.                                                  *)

\* S and what it includes: listed bundles only, and all that are listed in S.
LEMMA ClosureHolds ==
  ASSUME NEW v, NEW S, NEW o
  PROVE  /\ Closure(v, S, o) \subseteq Listed(v) /\ Closure(v, S, o) \subseteq Bundles
         /\ S \intersect Listed(v) \subseteq Closure(v, S, o)
         /\ Holds(v, Closure(v, S, o), S, o)
<1>1. Closure(v, S, o) \subseteq Listed(v) /\ Listed(v) \subseteq Bundles
  BY DEF Closure, Listed
<1>2. S \intersect Listed(v) \subseteq Closure(v, S, o)
  BY DEF Closure, Holds
<1>3. ASSUME NEW b \in Closure(v, S, o)
      PROVE  Includes(v, b, o) \intersect Listed(v) \subseteq Closure(v, S, o)
  <2> SUFFICES ASSUME NEW c \in Includes(v, b, o) \intersect Listed(v),
                      NEW T \in SUBSET Listed(v), Holds(v, T, S, o)
               PROVE  c \in T
    BY DEF Closure
  <2>1. b \in T
    BY DEF Closure
  <2> QED BY <2>1 DEF Holds
<1> QED BY <1>1, <1>2, <1>3 DEF Holds

\* It is the least such set: what S names decides.
LEMMA ClosureWithin ==
  ASSUME NEW v, NEW S, NEW T, NEW o, S \intersect Listed(v) \subseteq Closure(v, T, o)
  PROVE  Closure(v, S, o) \subseteq Closure(v, T, o)
<1>1. Holds(v, Closure(v, T, o), S, o)
  BY ClosureHolds DEF Holds
<1>2. Closure(v, T, o) \in SUBSET Listed(v)
  BY ClosureHolds
<1> QED BY <1>1, <1>2 DEF Closure

\* What is consolidated comes from one of the manifests.
LEMMA EntryOf ==
  ASSUME NEW v, NEW S, NEW p \in DOMAIN Consolidated(v, S)
  PROVE  \E b \in S : /\ p \in DOMAIN Catalog[v][b].files
                      /\ Consolidated(v, S)[p] = Catalog[v][b].files[p]
<1> DEFINE found == {Catalog[v][b].files[p] : b \in {c \in S : p \in DOMAIN Catalog[v][c].files}}
<1>1. Consolidated(v, S)[p] = Entry(v, S, p) /\ \E b \in S : p \in DOMAIN Catalog[v][b].files
  BY DEF Consolidated
<1>2. found # {}
  BY <1>1
<1>3. Entry(v, S, p) = IF found \subseteq Gone THEN CHOOSE e \in found : TRUE
                       ELSE CHOOSE e \in found \ Gone : TRUE
  BY DEF Entry
<1> HIDE DEF found
<1>4. Entry(v, S, p) \in found
  BY <1>2, <1>3
<1> QED BY <1>1, <1>4 DEF found

\* A file that a bundle has is in the result as it has it; and so is one it has deleted,
\* if no other bundle has it.
LEMMA EntryIs ==
  ASSUME NEW v \in Versions, NEW S \in SUBSET Listed(v), NEW b \in S,
         NEW p \in DOMAIN Catalog[v][b].files
  PROVE  /\ p \in DOMAIN Consolidated(v, S)
         /\ Catalog[v][b].files[p] \notin Gone \/ Consolidated(v, S)[p] \in Gone
              => Consolidated(v, S)[p] = Catalog[v][b].files[p]
<1> DEFINE found == {Catalog[v][c].files[p] : c \in {d \in S : p \in DOMAIN Catalog[v][d].files}}
           e == Catalog[v][b].files[p]
<1>1. p \in DOMAIN Consolidated(v, S) /\ Consolidated(v, S)[p] = Entry(v, S, p)
  BY DEF Consolidated
<1>2. Entry(v, S, p) = IF found \subseteq Gone THEN CHOOSE x \in found : TRUE
                       ELSE CHOOSE x \in found \ Gone : TRUE
  BY DEF Entry
<1>3. e \in found
  OBVIOUS
<1>4. ASSUME NEW x \in found, x \in Gone <=> e \in Gone PROVE x = e
  <2>1. PICK c \in S : p \in DOMAIN Catalog[v][c].files /\ x = Catalog[v][c].files[p]
    OBVIOUS
  <2>2. b \in Bundles /\ c \in Bundles /\ Catalog[v][b].listed /\ Catalog[v][c].listed
    BY DEF Listed
  <2>3. CASE c = b
    BY <2>1, <2>3
  <2>4. CASE c # b
    BY <2>1, <2>2, <2>4, <1>4, ManifestAssumption
  <2> QED BY <2>3, <2>4
<1> HIDE DEF found, e
<1>5. ASSUME e \notin Gone PROVE Entry(v, S, p) = e
  <2>1. Entry(v, S, p) \in found \ Gone
    BY <1>2, <1>3, <1>5
  <2> QED BY <2>1, <1>4, <1>5
<1>6. ASSUME Entry(v, S, p) \in Gone, e \in Gone PROVE Entry(v, S, p) = e
  <2>1. found \subseteq Gone
    BY <1>2, <1>6
  <2>2. Entry(v, S, p) \in found
    BY <1>2, <1>3, <2>1
  <2> QED BY <2>2, <1>4, <1>6
<1> QED BY <1>1, <1>5, <1>6 DEF e

\* More bundles change only that what some deleted may be there.
LEMMA SameEntry ==
  ASSUME NEW v \in Versions, NEW T \in SUBSET Listed(v), NEW S \in SUBSET T,
         NEW p \in DOMAIN Consolidated(v, S)
  PROVE  /\ p \in DOMAIN Consolidated(v, T)
         /\ Consolidated(v, S)[p] \notin Gone \/ Consolidated(v, T)[p] \in Gone
              => Consolidated(v, T)[p] = Consolidated(v, S)[p]
<1>1. PICK b \in S : /\ p \in DOMAIN Catalog[v][b].files
                     /\ Consolidated(v, S)[p] = Catalog[v][b].files[p]
  BY EntryOf
<1>2. b \in T
  OBVIOUS
<1> QED BY <1>1, <1>2, EntryIs

LEMMA ConsolidatedType ==
  ASSUME NEW v \in Versions, NEW S \in SUBSET Listed(v)
  PROVE  /\ DOMAIN Consolidated(v, S) \subseteq Paths
         /\ \A p \in DOMAIN Consolidated(v, S) : Consolidated(v, S)[p] # "absent"
<1>1. ASSUME NEW p \in DOMAIN Consolidated(v, S)
      PROVE  p \in Paths /\ Consolidated(v, S)[p] # "absent"
  <2>1. PICK b \in S : /\ p \in DOMAIN Catalog[v][b].files
                       /\ Consolidated(v, S)[p] = Catalog[v][b].files[p]
    BY EntryOf
  <2>2. b \in Bundles
    BY DEF Listed
  <2> QED BY <2>1, <2>2, ManifestAssumption
<1> QED BY <1>1

\* The file that marks a bundle is there with it, and only with it.
LEMMA MarkerEntry ==
  ASSUME NEW v \in Versions, NEW S \in SUBSET Listed(v), NEW b \in Listed(v), b # Core
  PROVE  /\ b \in S => /\ Marker[b] \in DOMAIN Consolidated(v, S)
                       /\ Consolidated(v, S)[Marker[b]] \notin Gone \union {"dir", "link", "absent"}
         /\ b \notin S => Marker[b] \notin DOMAIN Consolidated(v, S)
<1>1. b \in Bundles /\ Catalog[v][b].listed /\ S \subseteq Bundles
  BY DEF Listed
<1>2. /\ Marker[b] \in DOMAIN Catalog[v][b].files
      /\ Catalog[v][b].files[Marker[b]] \notin Gone \union {"dir", "link", "absent"}
  BY <1>1, ManifestAssumption
<1>3. ASSUME b \in S
      PROVE  /\ Marker[b] \in DOMAIN Consolidated(v, S)
             /\ Consolidated(v, S)[Marker[b]] \notin Gone \union {"dir", "link", "absent"}
  BY <1>2, <1>3, EntryIs
<1>4. ASSUME b \notin S, Marker[b] \in DOMAIN Consolidated(v, S) PROVE FALSE
  <2>1. PICK c \in S : Marker[b] \in DOMAIN Catalog[v][c].files
    BY <1>4, EntryOf
  <2>2. c \in Bundles \ {b} /\ Catalog[v][c].listed
    BY <1>1, <1>4 DEF Listed
  <2> QED BY <1>1, <2>1, <2>2, ManifestAssumption
<1> QED BY <1>3, <1>4

\* filter_file_unsafe_to_delete only takes away.
LEMMA SafeType ==
  ASSUME NEW chosen, NEW all
  PROVE  /\ DOMAIN Safe(chosen, all) \subseteq DOMAIN chosen
         /\ \A p \in DOMAIN Safe(chosen, all) :
              /\ Safe(chosen, all)[p] = chosen[p]
              /\ chosen[p] \in Gone => all[p] \in Gone
         /\ \A p \in DOMAIN chosen : p \notin DOMAIN Safe(chosen, all) => chosen[p] \in Gone
BY DEF Safe

----------------------------------------------------------------------------
(* The inductive invariant.                                                *)

ControlPoints == {"idle", "load", "prepare", "add", "add_stage", "add_rename", "add_judge",
                  "fix", "fix_stage", "fix_rename", "fix_judge", "remove", "extra", "end"}
Staging == {"add_stage", "add_rename", "add_judge", "fix_stage", "fix_rename", "fix_judge"}
Renaming == {"add_rename", "fix_rename"}
Heeded == {"fix", "fix_stage", "fix_rename", "fix_judge", "remove"}

\* What TypeOK does not tell of the variables, and the request behind them.
TypeInv ==
  /\ pc \in ControlPoints
  /\ disk = [p \in Paths |-> disk[p]]
  /\ kills \in Nat /\ kills <= KillBudget
  /\ faults \in Nat /\ faults <= FaultBudget
  /\ pc # "idle" => /\ req \in Requests /\ version \in Versions
                    /\ Repairs /\ LooksForExtras /\ req.bundles # {} => req.legacy
  /\ pc \in {"load", "prepare"} => sound = {}
  /\ pc \notin {"idle", "load", "prepare"} => ~req.download

\* The place in the list that is worked off.
AtInv ==
  /\ pc \in {"add", "fix"} \union Staging => at \in Nat /\ at >= 1
  /\ pc \in Staging => at \in DOMAIN Todo /\ want[Item] \notin Gone /\ Writes
  /\ pc = "remove" => at \in 0..Len(Todo)
  /\ pc = "extra" => at \in 0..Len(Order)

\* Files are removed only if all others could be put right, and the heuristics are heeded.
RemoveInv ==
  /\ pc \in Heeded => Heuristics \subseteq sound
  /\ pc = "remove" => MayRemove

\* A staged file is beside its target for as long as it takes to rename it.
LeftInv ==
  \/ left = {} \/ kills < KillBudget \/ faults < FaultBudget
  \/ pc \in Renaming /\ left = {Item}

\* The files that are worked off are those of all bundles, or of those that were chosen;
\* A stands for the bundles there were when the manifests were read.
WantInv ==
  pc \notin {"idle", "load"} =>
    /\ req.bundles = {} => want = Consolidated(version, All)
    /\ req.bundles # {} =>
         \E A \in SUBSET Listed(version) :
           /\ All \subseteq A
           /\ want = Safe(Consolidated(version, Closure(version, Chosen, WithOptional)),
                          Consolidated(version, A))

PInv == TypeOK /\ TypeInv /\ AtInv /\ RemoveInv /\ LeftInv /\ WantInv

----------------------------------------------------------------------------
(* What a step does to the disk.                                           *)

Starts == RepairMain \/ InstallMain \/ DiagnoseMain \/ VerifyMain
Installing == \/ Install("add_stage", "add_rename", "add_judge")
              \/ Install("fix_stage", "fix_rename", "fix_judge")

IsDisk(d) == d = [p \in Paths |-> d[p]]

With(d, p, e) == [d EXCEPT ![p] = e]

LEMMA DiskExcept ==
  ASSUME NEW d, IsDisk(d), NEW p, NEW e
  PROVE  /\ IsDisk(With(d, p, e))
         /\ \A q \in Paths : With(d, p, e)[q] = IF q = p THEN e ELSE d[q]
<1> DEFINE x == With(d, p, e)
<1>1. DOMAIN d = Paths
  BY DEF IsDisk
<1>2. x = [q \in Paths |-> IF q = p THEN e ELSE d[q]]
  BY <1>1 DEF With
<1> QED BY <1>2 DEF IsDisk

LEMMA Parents ==
  ASSUME NEW p \in Paths
  PROVE  Parent[p] # p /\ Parent[p] \in Paths \union {Root}
BY RepairAssumption

\* verify_fix_path makes at most the directory of the file.
LEMMA OpenedDisk ==
  ASSUME IsDisk(disk), NEW p \in Paths
  PROVE  /\ IsDisk(Opened(p))
         /\ \A q \in Paths : Opened(p)[q] = IF ~LeadsToDir(p) /\ q = Parent[p] THEN "dir" ELSE disk[q]
<1>1. Opened(p) = IF LeadsToDir(p) THEN disk ELSE With(disk, Parent[p], "dir")
  BY DEF Opened, With
<1> QED BY <1>1, DiskExcept

\* What is removed had another type.
LEMMA ClearedDisk ==
  ASSUME NEW d, IsDisk(d), NEW p \in Paths
  PROVE  /\ IsDisk(Cleared(p, d))
         /\ \A q \in Paths : \/ Cleared(p, d)[q] = d[q]
                             \/ q = p /\ Cleared(p, d)[q] = "absent" /\ Type(d[p]) # Type(want[p])
<1>1. Cleared(p, d) = IF Type(d[p]) # Type(want[p]) THEN With(d, p, "absent") ELSE d
  BY DEF Cleared, With
<1> QED BY <1>1, DiskExcept

\* The item that is put in place.
LEMMA StagedItem ==
  ASSUME PInv, pc \in Staging
  PROVE  /\ at \in DOMAIN Todo /\ Item \in Paths /\ Item \in DOMAIN want /\ Matches(Item)
         /\ want[Item] \notin Gone /\ Writes /\ ~req.download
<1>1. at \in DOMAIN Todo /\ want[Item] \notin Gone /\ Writes
  BY DEF PInv, AtInv
<1>2. ~req.download
  BY DEF PInv, TypeInv, Staging
<1>3. Item \in Elements(Todo)
  BY <1>1 DEF Elements, Item
<1>4. Elements(Todo) = {p \in DOMAIN want : Matches(p)} \intersect Paths
  BY KeptList DEF Todo
<1> QED BY <1>1, <1>2, <1>3, <1>4

\* Putting a file in place makes it, or its directory, what it is to be; but for a moment
\* it may be missing.
Placed(p) ==
  /\ p \in DOMAIN want /\ want[p] \notin Gone /\ Writes /\ ~req.download
  /\ disk'[p] = want[p] \/ (disk'[p] = "absent" /\ Type(disk[p]) # Type(want[p]))

LEMMA InstallTouches ==
  ASSUME PInv, Installing
  PROVE  /\ IsDisk(disk')
         /\ \A p \in Paths : disk'[p] # disk[p] => Placed(p)
<1>1. IsDisk(disk)
  BY DEF PInv, TypeInv, IsDisk
<1>2. pc \in Staging
  BY DEF Installing, Install, Stage, StageRefused, StageFails, Rename, Staging
<1>3. /\ Item \in Paths /\ Item \in DOMAIN want /\ want[Item] \notin Gone /\ Writes /\ ~req.download
  BY <1>2, StagedItem
<1> DEFINE o == Opened(Item)
           c == Cleared(Item, o)
<1>4. /\ IsDisk(o)
      /\ \A q \in Paths : o[q] = IF ~LeadsToDir(Item) /\ q = Parent[Item] THEN "dir" ELSE disk[q]
  BY <1>1, <1>3, OpenedDisk
<1> HIDE DEF o
<1>5. /\ IsDisk(c)
      /\ \A q \in Paths : \/ c[q] = o[q]
                          \/ q = Item /\ c[q] = "absent" /\ Type(o[Item]) # Type(want[Item])
  BY <1>3, <1>4, ClearedDisk
<1>6. o[Item] = disk[Item]
  BY <1>3, <1>4, Parents
<1> HIDE DEF c
<1>7. ASSUME CanStage(Item), NEW q \in Paths, o[q] # disk[q]
      PROVE  q \in DOMAIN want /\ want[q] = "dir" /\ o[q] = "dir"
  <2>1. ~LeadsToDir(Item) /\ q = Parent[Item] /\ o[q] = "dir"
    BY <1>4, <1>7
  <2>2. ~InRealDir(Item)
    BY <2>1 DEF LeadsToDir, InRealDir
  <2> QED BY <1>7, <2>1, <2>2 DEF CanStage, Fixable
<1>8. CASE CanStage(Item) /\ disk' \in {disk, o, c}
  <2>1. IsDisk(disk')
    BY <1>1, <1>4, <1>5, <1>8
  <2>2. ASSUME NEW q \in Paths, disk'[q] # disk[q] PROVE Placed(q)
    <3>1. CASE o[q] # disk[q]
      <4>1. q # Item
        BY <1>6, <3>1
      <4>2. q \in DOMAIN want /\ want[q] = "dir" /\ disk'[q] = "dir"
        BY <1>5, <1>7, <1>8, <2>2, <3>1, <4>1
      <4> QED BY <1>3, <4>2 DEF Placed, Gone
    <3>2. CASE o[q] = disk[q]
      <4>1. q = Item /\ disk'[q] = "absent" /\ Type(disk[Item]) # Type(want[Item])
        BY <1>5, <1>6, <1>8, <2>2, <3>2
      <4> QED BY <1>3, <4>1 DEF Placed
    <3> QED BY <3>1, <3>2
  <2> QED BY <2>1, <2>2
<1>9. CASE CanStage(Item) /\ want[Item] = "dir" /\ disk' = [o EXCEPT ![Item] = "dir"]
  <2>1. IsDisk(disk') /\ \A q \in Paths : disk'[q] = IF q = Item THEN "dir" ELSE o[q]
    <3>1. disk' = With(o, Item, "dir")
      BY <1>9 DEF With
    <3> QED BY <1>4, <3>1, DiskExcept
  <2>2. ASSUME NEW q \in Paths, disk'[q] # disk[q] PROVE Placed(q)
    <3>1. CASE q = Item
      BY <1>3, <1>9, <2>1, <3>1 DEF Placed
    <3>2. CASE q # Item
      <4>1. q \in DOMAIN want /\ want[q] = "dir" /\ disk'[q] = "dir"
        BY <1>7, <1>9, <2>1, <2>2, <3>2
      <4> QED BY <1>3, <4>1 DEF Placed, Gone
    <3> QED BY <3>1, <3>2
  <2> QED BY <2>1, <2>2
<1>10. CASE disk' = [disk EXCEPT ![Item] = want[Item]]
  <2>1. IsDisk(disk') /\ \A q \in Paths : disk'[q] = IF q = Item THEN want[Item] ELSE disk[q]
    <3>1. disk' = With(disk, Item, want[Item])
      BY <1>10 DEF With
    <3> QED BY <1>1, <3>1, DiskExcept
  <2> QED BY <1>3, <2>1 DEF Placed
<1>11. CASE disk' = disk
  BY <1>1, <1>11
<1>12. \/ CanStage(Item) /\ disk' \in {disk, o, c}
       \/ CanStage(Item) /\ want[Item] = "dir" /\ disk' = [o EXCEPT ![Item] = "dir"]
       \/ disk' = [disk EXCEPT ![Item] = want[Item]]
       \/ disk' = disk
  <2>1. CASE Stage("add_stage", "add_rename") \/ Stage("fix_stage", "fix_rename")
    BY <2>1 DEF Stage, o, c
  <2>2. CASE StageRefused("add_stage", "add_judge") \/ StageRefused("fix_stage", "fix_judge")
    BY <2>2 DEF StageRefused
  <2>3. CASE StageFails("add_stage", "add_judge") \/ StageFails("fix_stage", "fix_judge")
    BY <2>3 DEF StageFails, o, c
  <2>4. CASE Rename("add_rename", "add_judge") \/ Rename("fix_rename", "fix_judge")
    BY <2>4 DEF Rename
  <2> QED BY <2>1, <2>2, <2>3, <2>4 DEF Installing, Install
<1> QED BY <1>8, <1>9, <1>10, <1>11, <1>12

LEMMA DiskKept ==
  ASSUME [Next]_vars, ~Installing, ~RemoveOrphan, ~ExtraLeftStays, ~ExtraFile
  PROVE  disk' = disk
BY DEF Next, Step, Installing, RepairMain, InstallMain, DiagnoseMain, VerifyMain, Begin,
       LoadRefused, LoadFails, Loaded, Skip, Prepare, PrepareFails, AddPass, AddMissing, AddJudge,
       AddDone, FixPass, FixMismatch, FixJudge, FixDone, RemovePass, RemoveDone, ExtraPass,
       ExtraLeft, ExtraDone, Finish, Kill, Rest

\* The path that is looked at on the way back.
LEMMA RemovedItem ==
  ASSUME PInv, pc = "remove", at >= 1
  PROVE  at \in DOMAIN Todo /\ Item \in DOMAIN want /\ Item \in Paths
<1>1. at \in 1..Len(Todo)
  BY KeptList DEF PInv, AtInv, Todo
<1>2. /\ DOMAIN Todo = 1..Len(Todo)
      /\ Elements(Todo) = {p \in DOMAIN want : Matches(p)} \intersect Paths
  BY KeptList DEF Todo
<1>3. Item \in Elements(Todo)
  BY <1>1, <1>2 DEF Elements, Item
<1> QED BY <1>1, <1>2, <1>3

LEMMA ExtraItem ==
  ASSUME PInv, pc = "extra", at >= 1
  PROVE  at \in DOMAIN Order /\ Order[at] \in Paths
<1>1. at \in 1..Len(Order)
  BY RepairAssumption DEF PInv, AtInv
<1> QED BY <1>1, RepairAssumption DEF Paths

\* What is removed for good.
Removed(p) ==
  /\ Repairs /\ disk'[p] = "absent"
  /\ \/ pc = "remove" /\ p \in DOMAIN want /\ want[p] = "gone" /\ MayRemove
     \/ pc = "extra" /\ LooksForExtras /\ p \in Extras

LEMMA RemoveTouches ==
  ASSUME IsDisk(disk), NEW p \in Paths, Remove(p)
  PROVE  /\ IsDisk(disk')
         /\ \A q \in Paths : disk'[q] # disk[q] => q = p /\ disk'[q] = "absent"
<1>1. disk' = disk \/ disk' = With(disk, p, "absent")
  BY DEF Remove, With
<1>2. CASE disk' = disk
  BY <1>2
<1>3. CASE disk' = With(disk, p, "absent")
  BY <1>3, DiskExcept
<1> QED BY <1>1, <1>2, <1>3

\* A command changes a disk only to put a file in place or to remove one.
LEMMA DiskTouched ==
  ASSUME PInv, [Next]_vars
  PROVE  /\ IsDisk(disk')
         /\ \A p \in Paths : disk'[p] # disk[p] => Placed(p) \/ Removed(p)
<1>1. IsDisk(disk)
  BY DEF PInv, TypeInv, IsDisk
<1>2. CASE Installing
  BY <1>2, InstallTouches
<1>3. CASE RemoveOrphan
  <2>1. pc = "remove" /\ at >= 1 /\ Orphan(Item) /\ ((Repairs /\ Remove(Item)) \/ disk' = disk)
    BY <1>3 DEF RemoveOrphan
  <2>2. Item \in DOMAIN want /\ Item \in Paths
    BY <2>1, RemovedItem
  <2>3. want[Item] = "gone" /\ MayRemove
    <3>1. Heuristics \subseteq sound /\ MayRemove
      BY <2>1 DEF PInv, RemoveInv, Heeded
    <3>2. Item \notin Heuristics /\ want[Item] \in Gone
      BY <2>1, <3>1 DEF Orphan
    <3>3. want[Item] # "ghost"
      BY <2>2, <3>2 DEF Heuristics
    <3> QED BY <3>1, <3>2, <3>3 DEF Gone
  <2>4. CASE disk' = disk
    BY <1>1, <2>4
  <2>5. CASE Repairs /\ Remove(Item)
    <3>1. /\ IsDisk(disk')
          /\ \A q \in Paths : disk'[q] # disk[q] => q = Item /\ disk'[q] = "absent"
      BY <1>1, <2>2, <2>5, RemoveTouches
    <3> QED BY <2>1, <2>2, <2>3, <2>5, <3>1 DEF Removed
  <2> QED BY <2>1, <2>4, <2>5
<1>4. CASE ExtraFile
  <2> DEFINE i == Order[at]
  <2>1. /\ pc = "extra" /\ at >= 1 /\ LooksForExtras /\ ExtraHere(i)
        /\ (Repairs /\ Remove(i)) \/ disk' = disk
    BY <1>4 DEF ExtraFile
  <2>2. i \in Paths
    BY <2>1, ExtraItem
  <2>3. i \in Extras
    BY <2>1 DEF ExtraHere
  <2> HIDE DEF i
  <2>4. CASE disk' = disk
    BY <1>1, <2>4
  <2>5. CASE Repairs /\ Remove(i)
    <3>1. /\ IsDisk(disk')
          /\ \A q \in Paths : disk'[q] # disk[q] => q = i /\ disk'[q] = "absent"
      BY <1>1, <2>2, <2>5, RemoveTouches
    <3> QED BY <2>1, <2>2, <2>3, <2>5, <3>1 DEF Removed
  <2> QED BY <2>1, <2>4, <2>5
<1>5. CASE ExtraLeftStays
  <2> DEFINE i == Order[at]
  <2>1. /\ pc = "extra" /\ at >= 1 /\ LooksForExtras /\ Repairs
        /\ disk' = disk \/ (ExtraHere(i) /\ disk' = With(disk, i, "absent"))
    BY <1>5 DEF ExtraLeftStays, With
  <2>2. i \in Paths
    BY <2>1, ExtraItem
  <2>3. ExtraHere(i) => i \in Extras
    BY DEF ExtraHere
  <2> HIDE DEF i
  <2>4. CASE disk' = disk
    BY <1>1, <2>4
  <2>5. CASE ExtraHere(i) /\ disk' = With(disk, i, "absent")
    BY <1>1, <2>1, <2>2, <2>3, <2>5, DiskExcept DEF Removed
  <2> QED BY <2>1, <2>4, <2>5
<1>6. CASE ~Installing /\ ~RemoveOrphan /\ ~ExtraLeftStays /\ ~ExtraFile
  BY <1>1, <1>6, DiskKept
<1> QED BY <1>2, <1>3, <1>4, <1>5, <1>6

----------------------------------------------------------------------------
(* What a step does to the bundles.                                        *)

\* Outside of the beginning of a command, its request, version and bundles stay.
LEMMA RequestKept ==
  ASSUME [Next]_vars, ~Starts
  PROVE  req' = req /\ version' = version /\ (~Loaded => want' = want)
BY DEF Next, Step, Starts, LoadRefused, LoadFails, Loaded, Skip, Prepare, PrepareFails, AddPass,
       AddMissing, AddJudge, AddDone, FixPass, FixMismatch, FixJudge, FixDone, RemovePass,
       RemoveOrphan, RemoveDone, ExtraPass, ExtraLeft, ExtraLeftStays, ExtraFile, ExtraDone,
       Finish, Kill, Rest,
       Install, Stage, StageRefused, StageFails, Rename

\* The bundles whose files are worked off.
Worked == IF req.bundles = {} THEN All ELSE Closure(version, Chosen, WithOptional)

LEMMA WorkedBundles ==
  /\ Worked \subseteq All /\ All \subseteq Listed(version) /\ All \subseteq Bundles
  /\ Worked \subseteq Listed(version)
  /\ Chosen \subseteq Listed(version) /\ Chosen \subseteq All
  /\ Installed \intersect Listed(version) \subseteq All
  /\ req.bundles = {} => Chosen = {}
  /\ req.bundles # {} => Chosen \subseteq Worked
<1>1. Chosen \subseteq Listed(version) /\ (req.bundles = {} => Chosen = {})
  BY DEF Chosen
<1>2. All \subseteq Listed(version) /\ All \subseteq Bundles
  BY ClosureHolds DEF All
<1>3. (Installed \union Chosen) \intersect Listed(version) \subseteq All
  BY ClosureHolds DEF All
<1>4. Closure(version, Chosen, WithOptional) \subseteq All
  BY <1>1, <1>3, ClosureWithin DEF All
<1>5. req.bundles # {} => Chosen \subseteq Worked
  BY <1>1, ClosureHolds DEF Worked
<1> QED BY <1>1, <1>2, <1>3, <1>4, <1>5 DEF Worked

\* What is wanted of the files is what the bundles that are worked off have them be, but
\* for some that were deleted.
LEMMA WantedEntry ==
  ASSUME PInv, pc \notin {"idle", "load"}
  PROVE  /\ \A p \in DOMAIN want : /\ p \in DOMAIN Consolidated(version, Worked)
                                   /\ want[p] = Consolidated(version, Worked)[p]
         /\ \A p \in DOMAIN Consolidated(version, Worked) :
              p \notin DOMAIN want => /\ req.bundles # {}
                                      /\ Consolidated(version, Worked)[p] \in Gone
<1>1. CASE req.bundles = {}
  BY <1>1 DEF PInv, WantInv, Worked
<1>2. CASE req.bundles # {}
  <2> DEFINE cons == Consolidated(version, Worked)
  <2>1. PICK A \in SUBSET Listed(version) : want = Safe(cons, Consolidated(version, A))
    BY <1>2 DEF PInv, WantInv, Worked
  <2> HIDE DEF cons
  <2>2. /\ DOMAIN want \subseteq DOMAIN cons /\ \A p \in DOMAIN want : want[p] = cons[p]
        /\ \A p \in DOMAIN cons : p \notin DOMAIN want => cons[p] \in Gone
    BY <2>1, SafeType
  <2> QED BY <1>2, <2>2 DEF cons
<1> QED BY <1>1, <1>2

\* No step takes a bundle that is worked off from the disk, and none brings another one.
LEMMA InstalledStep ==
  ASSUME PInv, [Next]_vars, pc \notin {"idle", "load"}, NEW b \in Listed(version)
  PROVE  /\ b \in Worked /\ b \in Installed => b \in Installed'
         /\ b \notin Worked /\ b \in Installed' => b \in Installed
<1> DEFINE m == Marker[b]
           cons == Consolidated(version, Worked)
<1>1. b \in Bundles /\ m \in Paths /\ version \in Versions
  BY RepairAssumption DEF Listed, PInv, TypeInv
<1>2. CASE b = Core
  BY <1>2 DEF Installed
<1>3. CASE b # Core
  <2>1. /\ b \in Installed <=> disk[m] \notin {"absent", "dir", "link"}
        /\ b \in Installed' <=> disk'[m] \notin {"absent", "dir", "link"}
    BY <1>1, <1>3 DEF Installed
  <2>2. /\ b \in Worked => m \in DOMAIN cons /\ cons[m] \notin Gone \union {"dir", "link", "absent"}
        /\ b \notin Worked => m \notin DOMAIN cons
    BY <1>1, <1>3, WorkedBundles, MarkerEntry
  <2>3. /\ m \in DOMAIN want => m \in DOMAIN cons /\ want[m] = cons[m]
        /\ m \in DOMAIN cons /\ m \notin DOMAIN want => cons[m] \in Gone
    BY WantedEntry
  <2>4. disk'[m] = disk[m] \/ Placed(m) \/ Removed(m)
    BY <1>1, DiskTouched
  <2> HIDE DEF m, cons
  <2>5. CASE disk'[m] = disk[m]
    BY <2>1, <2>5
  <2>6. CASE Placed(m)
    <3>1. /\ m \in DOMAIN cons /\ want[m] = cons[m]
          /\ disk'[m] = want[m] \/ (disk'[m] = "absent" /\ Type(disk[m]) # Type(want[m]))
      BY <2>3, <2>6 DEF Placed
    <3>2. b \in Worked /\ want[m] \notin {"dir", "link", "absent"}
      BY <2>2, <3>1
    <3>3. b \in Installed => disk'[m] = want[m]
      BY <2>1, <3>1, <3>2 DEF Type
    <3> QED BY <2>1, <3>2, <3>3
  <2>7. CASE Removed(m)
    <3>1. disk'[m] = "absent" /\ (m \notin DOMAIN want \/ want[m] = "gone")
      BY <2>7 DEF Removed, Extras
    <3>2. b \notin Worked
      BY <2>2, <2>3, <3>1 DEF Gone
    <3> QED BY <2>1, <3>1, <3>2
  <2> QED BY <2>4, <2>5, <2>6, <2>7
<1> QED BY <1>2, <1>3

LEMMA BundlesStep ==
  ASSUME PInv, [Next]_vars, pc \notin {"idle", "load"}
  PROVE  /\ Worked' = Worked /\ All' \subseteq All
         /\ req' = req /\ version' = version
<1>1. req' = req /\ version' = version
  <2>1. ~Starts
    BY DEF Starts, RepairMain, InstallMain, DiagnoseMain, VerifyMain, Begin
  <2> QED BY <2>1, RequestKept
<1>2. /\ All' = Closure(version, Installed' \union Chosen', WithOptional)
      /\ Chosen' = {b \in req.bundles \intersect Listed(version) :
                      b \in Installed' \/ (req.legacy /\ Repairs) \/ Installs}
      /\ Worked' = IF req.bundles = {} THEN All' ELSE Closure(version, Chosen', WithOptional)
  BY <1>1 DEF All, Chosen, Worked, Repairs, Installs, WithOptional
<1>3. \A b \in Listed(version) : /\ b \in Worked /\ b \in Installed => b \in Installed'
                                 /\ b \notin Worked /\ b \in Installed' => b \in Installed
  BY InstalledStep
<1>4. /\ Worked \subseteq All /\ All \subseteq Listed(version)
      /\ Installed \intersect Listed(version) \subseteq All
  BY WorkedBundles
<1>5. Installed' \intersect Listed(version) \subseteq All
  BY <1>3, <1>4
<1>6. Chosen' \subseteq Worked \union Chosen
  BY <1>2, <1>3 DEF Chosen
<1>7. Chosen \subseteq All
  BY WorkedBundles
<1>8. All' \subseteq All
  <2>1. (Installed' \union Chosen') \intersect Listed(version)
          \subseteq Closure(version, Installed \union Chosen, WithOptional)
    BY <1>4, <1>5, <1>6, <1>7 DEF All
  <2> QED BY <1>2, <2>1, ClosureWithin DEF All
<1>9. CASE req.bundles = {}
  <2>1. Worked = All /\ Worked' = All' /\ Chosen = {}
    BY <1>2, <1>9 DEF Worked, Chosen
  <2>2. (Installed \union Chosen) \intersect Listed(version) \subseteq Installed'
    BY <1>3, <1>4, <2>1
  <2>3. Installed' \intersect Listed(version)
          \subseteq Closure(version, Installed' \union Chosen', WithOptional)
    <3>1. (Installed' \union Chosen') \intersect Listed(version)
            \subseteq Closure(version, Installed' \union Chosen', WithOptional)
      BY ClosureHolds
    <3> QED BY <3>1
  <2>4. All \subseteq All'
    <3>1. (Installed \union Chosen) \intersect Listed(version)
            \subseteq Closure(version, Installed' \union Chosen', WithOptional)
      BY <2>2, <2>3
    <3> QED BY <1>2, <3>1, ClosureWithin DEF All
  <2> QED BY <1>1, <1>8, <2>1, <2>4
<1>10. CASE req.bundles # {}
  <2>1. /\ Worked = Closure(version, Chosen, WithOptional)
        /\ Worked' = Closure(version, Chosen', WithOptional)
    BY <1>2, <1>10 DEF Worked
  <2>2. Chosen \subseteq Worked /\ Chosen \subseteq Listed(version)
    BY <1>10, WorkedBundles
  <2>3. Chosen \subseteq Chosen'
    <3> SUFFICES ASSUME NEW b \in Chosen PROVE b \in Chosen'
      OBVIOUS
    <3>1. /\ b \in req.bundles \intersect Listed(version)
          /\ b \in Installed \/ (req.legacy /\ Repairs) \/ Installs
      BY DEF Chosen
    <3>2. b \in Installed => b \in Installed'
      BY <1>3, <2>2, <3>1
    <3> QED BY <1>2, <3>1, <3>2
  <2>4. Chosen' \intersect Listed(version) \subseteq Closure(version, Chosen, WithOptional)
    BY <1>6, <2>1, <2>2
  <2>5. Chosen' \intersect Listed(version) \subseteq Closure(version, Chosen', WithOptional)
    BY ClosureHolds
  <2>6. Chosen \intersect Listed(version) \subseteq Closure(version, Chosen', WithOptional)
    BY <2>2, <2>3, <2>5
  <2>7. Worked' = Worked
    BY <2>1, <2>4, <2>6, ClosureWithin
  <2> QED BY <1>1, <1>8, <2>7
<1> QED BY <1>9, <1>10

----------------------------------------------------------------------------
(* The invariant is kept.                                                  *)

LEMMA WantStep ==
  ASSUME PInv, [Next]_vars
  PROVE  WantInv'
<1>1. CASE pc' \in {"idle", "load"}
  BY <1>1 DEF WantInv
<1>2. CASE pc' \notin {"idle", "load"} /\ pc \notin {"idle", "load"}
  <2>1. Worked' = Worked /\ All' \subseteq All /\ req' = req /\ version' = version
    BY <1>2, BundlesStep
  <2>2. want' = want
    <3>1. ~Starts /\ ~Loaded
      BY <1>2 DEF Starts, RepairMain, InstallMain, DiagnoseMain, VerifyMain, Begin, Loaded
    <3> QED BY <3>1, RequestKept
  <2>3. CASE req.bundles = {}
    <3>1. want = Consolidated(version, All) /\ All' = All
      BY <1>2, <2>1, <2>3 DEF PInv, WantInv, Worked
    <3> QED BY <2>1, <2>2, <2>3, <3>1 DEF WantInv
  <2>4. CASE req.bundles # {}
    <3>1. PICK A \in SUBSET Listed(version) :
            /\ All \subseteq A
            /\ want = Safe(Consolidated(version, Closure(version, Chosen, WithOptional)),
                           Consolidated(version, A))
      BY <1>2, <2>4 DEF PInv, WantInv
    <3>2. WithOptional' = WithOptional
      BY <2>1 DEF WithOptional, Installs
    <3>3. Closure(version, Chosen', WithOptional) = Closure(version, Chosen, WithOptional)
      BY <2>1, <2>4, <3>2 DEF Worked
    <3>4. A \in SUBSET Listed(version') /\ All' \subseteq A
          /\ want' = Safe(Consolidated(version', Closure(version', Chosen', WithOptional')),
                          Consolidated(version', A))
      BY <2>1, <2>2, <3>1, <3>2, <3>3
    <3> QED BY <2>1, <2>4, <3>4 DEF WantInv
  <2> QED BY <2>3, <2>4
<1>3. CASE pc' \notin {"idle", "load"} /\ pc = "load"
  <2>1. Loaded
    BY <1>3 DEF Next, Step, RepairMain, InstallMain, DiagnoseMain, VerifyMain, Begin, GiveUp,
       LoadRefused, LoadFails, Skip, Prepare, PrepareFails, AddPass, AddMissing, AddJudge,
       AddDone, FixPass, FixMismatch, FixJudge, FixDone, RemovePass, RemoveOrphan, RemoveDone,
       ExtraPass, ExtraLeft, ExtraLeftStays, ExtraFile, ExtraDone, Finish, Kill, Rest, Install,
       Stage,
       StageRefused, StageFails, Rename
  <2>2. disk' = disk /\ req' = req /\ version' = version
    BY <2>1 DEF Loaded
  <2>3. Installed' = Installed /\ Chosen' = Chosen /\ WithOptional' = WithOptional
    BY <2>2 DEF Installed, Chosen, Repairs, Installs, WithOptional
  <2>4. All' = All
    BY <2>2, <2>3 DEF All
  <2>5. want' = IF req.bundles = {} THEN Consolidated(version, All)
                ELSE Safe(Consolidated(version, Closure(version, Chosen, WithOptional)),
                          Consolidated(version, All))
    BY <2>1 DEF Loaded
  <2>6. All \in SUBSET Listed(version)
    BY WorkedBundles
  <2>7. CASE req.bundles = {}
    BY <2>2, <2>4, <2>5, <2>7 DEF WantInv
  <2>8. CASE req.bundles # {}
    <3>1. /\ All \in SUBSET Listed(version') /\ All' \subseteq All
          /\ want' = Safe(Consolidated(version', Closure(version', Chosen', WithOptional')),
                          Consolidated(version', All))
      BY <2>2, <2>3, <2>4, <2>5, <2>6, <2>8
    <3> QED BY <2>2, <2>8, <3>1 DEF WantInv
  <2> QED BY <2>7, <2>8
<1>4. CASE pc' \notin {"idle", "load"} /\ pc = "idle"
  <2>1. FALSE
    BY <1>4 DEF Next, Step, RepairMain, InstallMain, DiagnoseMain, VerifyMain, Begin, GiveUp,
       LoadRefused, LoadFails, Loaded, Skip, Prepare, PrepareFails, AddPass, AddMissing, AddJudge,
       AddDone, FixPass, FixMismatch, FixJudge, FixDone, RemovePass, RemoveOrphan, RemoveDone,
       ExtraPass, ExtraLeft, ExtraLeftStays, ExtraFile, ExtraDone, Finish, Kill, Rest, Install,
       Stage,
       StageRefused, StageFails, Rename
  <2> QED BY <2>1
<1> QED BY <1>1, <1>2, <1>3, <1>4

LEMMA TodoKept ==
  ASSUME want' = want, req' = req
  PROVE  /\ Todo' = Todo /\ Writes' = Writes /\ Repairs' = Repairs /\ Heuristics' = Heuristics
         /\ \A p : Matches(p)' = Matches(p)
         /\ at' = at => Item' = Item
<1>1. \A p : Matches(p)' = Matches(p)
  BY DEF Matches
<1>2. Todo' = Todo
  BY <1>1 DEF Todo
<1> QED BY <1>1, <1>2 DEF Writes, Repairs, Installs, Heuristics, Item

LEMMA TodoList ==
  /\ Len(Todo) \in Nat /\ DOMAIN Todo = 1..Len(Todo)
  /\ Elements(Todo) = {p \in DOMAIN want : Matches(p)} \intersect Paths
  /\ \A i \in DOMAIN Todo : Todo[i] \in DOMAIN want
  /\ Len(Order) \in Nat /\ DOMAIN Order = 1..Len(Order)
<1>1. /\ Len(Todo) \in Nat /\ DOMAIN Todo = 1..Len(Todo)
      /\ Elements(Todo) = {p \in DOMAIN want : Matches(p)} \intersect Paths
  BY KeptList DEF Todo
<1>2. \A i \in DOMAIN Todo : Todo[i] \in DOMAIN want
  BY <1>1 DEF Elements
<1> QED BY <1>1, <1>2, RepairAssumption

\* The end of a command, and its beginning.
Quiet == Starts \/ LoadRefused \/ LoadFails \/ Loaded \/ PrepareFails \/ ExtraDone
           \/ Finish \/ Kill \/ Rest

LEMMA QuietStep ==
  ASSUME Quiet
  PROVE  /\ pc' \in {"idle", "load", "prepare", "end"} /\ disk' = disk /\ left' = left
         /\ pc' = "load" => pc = "idle"
         /\ pc' = "prepare" => pc = "load"
         /\ pc' = "end" => pc = "extra"
BY DEF Quiet, Starts, RepairMain, InstallMain, DiagnoseMain, VerifyMain, Begin, GiveUp, LoadRefused,
       LoadFails, Loaded, PrepareFails, ExtraDone, Finish, Kill, Rest

LEMMA AtStep ==
  ASSUME PInv, [Next]_vars
  PROVE  AtInv'
<1>1. AtInv /\ TypeInv
  BY DEF PInv
<1>2. /\ Len(Todo) \in Nat /\ DOMAIN Todo = 1..Len(Todo) /\ Len(Order) \in Nat
  BY TodoList
<1>3. CASE Quiet
  BY <1>3, QuietStep DEF AtInv, Staging
<1>4. CASE Skip \/ Prepare
  <2>1. \/ pc' = "extra" /\ at' = Len(Order)
        \/ pc' = "add" /\ at' = 1
        \/ pc' = "idle"
    BY <1>4 DEF Skip, Prepare, GiveUp
  <2> QED BY <1>2, <2>1 DEF AtInv, Staging
<1>5. CASE Installing
  <2>1. pc \in Staging /\ pc' \in Staging /\ at' = at /\ want' = want /\ req' = req
    BY <1>5 DEF Installing, Install, Stage, StageRefused, StageFails, Rename, Staging
  <2>2. Todo' = Todo /\ Item' = Item /\ Writes' = Writes
    BY <2>1, TodoKept
  <2> QED BY <1>1, <2>1, <2>2 DEF AtInv, Staging
<1>6. CASE AddMissing \/ FixMismatch
  <2>1. /\ pc \in {"add", "fix"} /\ at <= Len(Todo) /\ want[Item] \notin Gone
        /\ want' = want /\ req' = req
        /\ \/ at' = at + 1 /\ pc' \in {"add", "fix"}
           \/ Writes /\ pc' \in Staging /\ at' = at
    BY <1>6 DEF AddMissing, FixMismatch, MoveOn, Staging, Corrupt, Writes
  <2>2. Todo' = Todo /\ Writes' = Writes /\ (at' = at => Item' = Item)
    BY <2>1, TodoKept
  <2>3. at \in Nat /\ at >= 1
    BY <1>1, <2>1 DEF AtInv
  <2>4. CASE at' = at + 1 /\ pc' \in {"add", "fix"}
    BY <2>3, <2>4 DEF AtInv, Staging
  <2>5. CASE Writes /\ pc' \in Staging /\ at' = at
    <3>1. at' \in DOMAIN Todo' /\ want'[Item'] \notin Gone /\ Writes'
      BY <1>2, <2>1, <2>2, <2>3, <2>5
    <3> QED BY <2>3, <2>5, <3>1 DEF AtInv, Staging
  <2> QED BY <2>1, <2>4, <2>5
<1>7. CASE AddPass \/ AddJudge \/ FixPass \/ FixJudge \/ AddDone
  <2>1. /\ pc \in {"add", "fix"} \union Staging
        /\ \/ pc' \in {"add", "fix"} /\ (at' = at + 1 \/ at' = 1)
           \/ pc' = "end"
    BY <1>7 DEF AddPass, AddJudge, FixPass, FixJudge, AddDone, MoveOn, Staging
  <2>2. at \in Nat /\ at >= 1
    BY <1>1, <2>1 DEF AtInv
  <2> QED BY <2>1, <2>2 DEF AtInv, Staging
<1>8. CASE FixDone \/ RemoveDone
  <2>1. /\ want' = want /\ req' = req
        /\ \/ pc' = "remove" /\ at' = Len(Todo)
           \/ pc' = "extra" /\ at' = Len(Order)
    BY <1>8 DEF FixDone, RemoveDone
  <2>2. Todo' = Todo
    BY <2>1, TodoKept
  <2> QED BY <1>2, <2>1, <2>2 DEF AtInv, Staging
<1>9. CASE RemovePass \/ RemoveOrphan
  <2>1. /\ pc = "remove" /\ pc' = "remove" /\ at >= 1 /\ at' = at - 1
        /\ want' = want /\ req' = req
    BY <1>9 DEF RemovePass, RemoveOrphan
  <2>2. Todo' = Todo /\ at \in 0..Len(Todo)
    BY <1>1, <2>1, TodoKept DEF AtInv
  <2> QED BY <1>2, <2>1, <2>2 DEF AtInv, Staging
<1>10. CASE ExtraPass \/ ExtraLeft \/ ExtraLeftStays \/ ExtraFile
  <2>1. pc = "extra" /\ pc' = "extra" /\ at >= 1 /\ (at' = at - 1 \/ at' = at)
    BY <1>10 DEF ExtraPass, ExtraLeft, ExtraLeftStays, ExtraFile
  <2>2. at \in 0..Len(Order)
    BY <1>1, <2>1 DEF AtInv
  <2> QED BY <1>2, <2>1, <2>2 DEF AtInv, Staging
<1>11. CASE UNCHANGED vars
  <2>1. pc' = pc /\ at' = at /\ want' = want /\ req' = req
    BY <1>11
  <2>2. Todo' = Todo /\ Item' = Item /\ Writes' = Writes
    BY <2>1, TodoKept
  <2> QED BY <1>1, <2>1, <2>2 DEF AtInv, Staging
<1> QED BY <1>3, <1>4, <1>5, <1>6, <1>7, <1>8, <1>9, <1>10, <1>11
        DEF Next, Step, Quiet, Starts, Installing

LEMMA RemoveStep ==
  ASSUME PInv, [Next]_vars
  PROVE  RemoveInv'
<1>1. RemoveInv
  BY DEF PInv
<1>2. CASE Quiet
  BY <1>2, QuietStep DEF RemoveInv, Heeded
<1>3. CASE Skip \/ Prepare \/ AddPass \/ AddMissing \/ AddJudge \/ Install("add_stage", "add_rename", "add_judge")
  <2>1. pc' \notin Heeded
    BY <1>3 DEF Skip, Prepare, AddPass, AddMissing, AddJudge, MoveOn, GiveUp, Heeded,
                Install, Stage, StageRefused, StageFails, Rename
  <2> QED BY <2>1 DEF RemoveInv, Heeded
<1>4. CASE AddDone
  <2>1. /\ want' = want /\ req' = req
        /\ pc' = "end" \/ (pc' = "fix" /\ sound' = sound \union Heuristics)
    BY <1>4 DEF AddDone
  <2> QED BY <2>1, TodoKept DEF RemoveInv, Heeded
<1>5. CASE \/ Install("fix_stage", "fix_rename", "fix_judge")
           \/ FixPass \/ FixMismatch \/ FixJudge \/ FixDone
           \/ RemovePass \/ RemoveOrphan \/ RemoveDone
  <2>1. /\ want' = want /\ req' = req /\ pc \in Heeded /\ sound' = sound
    BY <1>5 DEF Install, Stage, StageRefused, StageFails, Rename, FixPass, FixMismatch, FixJudge,
                FixDone, RemovePass, RemoveOrphan, RemoveDone, Heeded
  <2>2. Heuristics' \subseteq sound'
    BY <1>1, <2>1, TodoKept DEF RemoveInv
  <2>3. pc' = "remove" => \/ pc = "fix" /\ MayRemove /\ counts' = counts
                          \/ pc = "remove" /\ counts' \subseteq counts \union {"extraneous", "not_deleted"}
    BY <1>5 DEF Install, Stage, StageRefused, StageFails, Rename, FixPass, FixMismatch, FixJudge,
                FixDone, RemovePass, RemoveOrphan, RemoveDone, MoveOn, Remove
  <2>4. pc' = "remove" => MayRemove'
    BY <1>1, <2>3 DEF RemoveInv, MayRemove
  <2> QED BY <2>2, <2>4 DEF RemoveInv
<1>6. CASE ExtraPass \/ ExtraLeft \/ ExtraLeftStays \/ ExtraFile
  <2>1. pc' = "extra"
    BY <1>6 DEF ExtraPass, ExtraLeft, ExtraLeftStays, ExtraFile
  <2> QED BY <2>1 DEF RemoveInv, Heeded
<1>7. CASE UNCHANGED vars
  <2>1. pc' = pc /\ counts' = counts /\ sound' = sound /\ want' = want /\ req' = req
    BY <1>7
  <2> QED BY <1>1, <2>1, TodoKept DEF RemoveInv, MayRemove
<1> QED BY <1>2, <1>3, <1>4, <1>5, <1>6, <1>7 DEF Next, Step, Quiet, Starts

\* The bounds count down.
LEMMA BudgetStep ==
  ASSUME PInv, [Next]_vars
  PROVE  /\ faults \in Nat /\ faults <= FaultBudget /\ FaultBudget \in Nat
         /\ faults' \in Nat /\ faults' <= faults
         /\ Fault => faults' < FaultBudget
<1>1. faults \in Nat /\ faults <= FaultBudget /\ FaultBudget \in Nat
  BY RepairAssumption DEF PInv, TypeInv
<1>2. faults' = faults \/ (faults > 0 /\ faults' = faults - 1)
  BY DEF Next, Step, RepairMain, InstallMain, DiagnoseMain, VerifyMain, Begin,
     LoadRefused, LoadFails, Loaded, Skip, Prepare, PrepareFails, AddPass, AddMissing, AddJudge,
     AddDone, FixPass, FixMismatch, FixJudge, FixDone, RemovePass, RemoveOrphan, RemoveDone,
     ExtraPass, ExtraLeft, ExtraLeftStays, ExtraFile, ExtraDone, Finish, Kill, Rest, Remove,
     Install, Stage, StageRefused, StageFails, Rename, Fault
<1> QED BY <1>1, <1>2 DEF Fault

LEMMA LeftStep ==
  ASSUME PInv, [Next]_vars
  PROVE  LeftInv' /\ left' \subseteq Paths
<1>1. /\ LeftInv /\ left \subseteq Paths
      /\ kills \in Nat /\ kills <= KillBudget /\ KillBudget \in Nat
      /\ faults < FaultBudget => faults' < FaultBudget
  BY RepairAssumption, BudgetStep DEF PInv, TypeOK, TypeInv
<1>2. CASE Installing
  <2>1. /\ pc \in Staging /\ at' = at /\ want' = want /\ req' = req /\ kills' = kills
        /\ left' \subseteq left \union {Item}
        /\ \/ left' = left /\ pc \notin Renaming
           \/ left' = left \union {Item} /\ pc' \in Renaming /\ pc \notin Renaming
           \/ left' = left \ {Item}
           \/ Fault
    BY <1>2 DEF Installing, Install, Stage, StageRefused, StageFails, Rename, Staging, Renaming
  <2>2. Item' = Item /\ Item \in Paths
    BY <2>1, TodoKept, StagedItem
  <2>3. CASE Fault
    BY <1>1, <2>1, <2>2, <2>3, BudgetStep DEF LeftInv
  <2> QED BY <1>1, <2>1, <2>2, <2>3 DEF LeftInv
<1>3. CASE Kill
  <2>1. kills > 0 /\ kills' = kills - 1 /\ left' = left
    BY <1>3 DEF Kill
  <2>2. kills' < KillBudget
    BY <1>1, <2>1
  <2> QED BY <1>1, <2>1, <2>2 DEF LeftInv
<1>4. CASE ~Installing /\ ~Kill
  <2>1. kills' = kills /\ left' \subseteq left
    BY <1>4 DEF Next, Step, Installing, RepairMain, InstallMain, DiagnoseMain, VerifyMain, Begin,
       LoadRefused, LoadFails, Loaded, Skip, Prepare, PrepareFails, AddPass, AddMissing, AddJudge,
       AddDone, FixPass, FixMismatch, FixJudge, FixDone, RemovePass, RemoveOrphan, RemoveDone,
       ExtraPass, ExtraLeft, ExtraLeftStays, ExtraFile, ExtraDone, Finish, Rest
  <2>2. pc \notin Renaming \/ UNCHANGED vars
    BY <1>4 DEF Next, Step, Installing, RepairMain, InstallMain, DiagnoseMain, VerifyMain, Begin,
       LoadRefused, LoadFails, Loaded, Skip, Prepare, PrepareFails, AddPass, AddMissing, AddJudge,
       AddDone, FixPass, FixMismatch, FixJudge, FixDone, RemovePass, RemoveOrphan, RemoveDone,
       ExtraPass, ExtraLeft, ExtraLeftStays, ExtraFile, ExtraDone, Finish, Rest, Renaming
  <2>3. CASE pc \notin Renaming
    BY <1>1, <2>1, <2>3 DEF LeftInv
  <2>4. CASE UNCHANGED vars
    <3>1. left' = left /\ pc' = pc /\ at' = at /\ want' = want /\ req' = req
      BY <2>4
    <3> QED BY <1>1, <2>1, <3>1, TodoKept DEF LeftInv
  <2> QED BY <2>2, <2>3, <2>4
<1> QED BY <1>2, <1>3, <1>4

\* A command begins with its request, an empty list and a version that there is.
LEMMA BeginStep ==
  ASSUME Starts
  PROVE  \E r \in Requests :
           /\ pc = "idle" /\ req' = r /\ want' = <<>> /\ sound' = {} /\ counts' = {}
           /\ disk' = disk /\ left' = left /\ tracked' = tracked
           /\ kills' = kills /\ faults' = faults
           /\ \/ pc' = "idle" /\ ret' \notin {"ok", "no"}
              \/ /\ pc' = "load" /\ version' \in Versions
                 /\ r.command = "repair" /\ r.bundles # {} /\ (r.picky \/ r.extra) => r.legacy
<1>1. PICK r \in Requests :
        \/ r.command = "repair" /\ ~r.legacy /\ Begin(r, LegalRepair(r))
        \/ r.command = "install" /\ ~r.legacy /\ Begin(r, r.version # 0)
        \/ r.command = "diagnose" /\ ~r.legacy /\ Begin(r, LegalVerify(r))
        \/ r.legacy /\ Begin(r, LegalVerify(r))
  BY DEF Starts, RepairMain, InstallMain, DiagnoseMain, VerifyMain
<1>2. /\ pc = "idle" /\ req' = r /\ want' = <<>> /\ sound' = {} /\ counts' = {}
      /\ version' = VersionFor(r)
      /\ disk' = disk /\ left' = left /\ tracked' = tracked
      /\ kills' = kills /\ faults' = faults
  BY <1>1 DEF Begin
<1>3. \/ pc' = "idle" /\ ret' \notin {"ok", "no"}
      \/ /\ pc' = "load" /\ ~(r.version = 0 /\ CurrentVersion < 0)
         /\ r.command = "repair" /\ r.bundles # {} /\ (r.picky \/ r.extra) => r.legacy
  <2>1. CASE r.command = "repair" /\ ~r.legacy /\ Begin(r, LegalRepair(r))
    <3>1. \/ pc' = "idle" /\ ret' \notin {"ok", "no"}
          \/ pc' = "load" /\ ~(r.version = 0 /\ CurrentVersion < 0) /\ LegalRepair(r)
      BY <2>1 DEF Begin, GiveUp
    <3> QED BY <3>1 DEF LegalRepair
  <2>2. CASE r.command = "install" /\ ~r.legacy /\ Begin(r, r.version # 0)
    BY <2>2 DEF Begin, GiveUp
  <2>3. CASE r.command = "diagnose" /\ ~r.legacy /\ Begin(r, LegalVerify(r))
    BY <2>3 DEF Begin, GiveUp
  <2>4. CASE r.legacy /\ Begin(r, LegalVerify(r))
    BY <2>4 DEF Begin, GiveUp
  <2> QED BY <1>1, <2>1, <2>2, <2>3, <2>4
<1>4. ~(r.version = 0 /\ CurrentVersion < 0) => VersionFor(r) \in Versions
  <2>1. r.version \in {0, Latest} \union Versions
    BY RepairAssumption DEF IsRequest
  <2>2. ~(CurrentVersion < 0) => CurrentVersion \in Versions
    BY RepairAssumption DEF CurrentVersion
  <2>3. (CHOOSE v \in Readable : \A w \in Readable : w <= v) \in Versions
    BY RepairAssumption
  <2> QED BY <2>1, <2>2, <2>3 DEF VersionFor
<1> QED BY <1>2, <1>3, <1>4

LEMMA TypeStep ==
  ASSUME PInv, [Next]_vars
  PROVE  TypeInv' /\ TypeOK'
<1>1. /\ TypeInv /\ TypeOK /\ IsDisk(disk)
      /\ kills \in Nat /\ kills <= KillBudget /\ KillBudget \in Nat
  BY RepairAssumption DEF PInv, TypeInv, IsDisk
<1>2. IsDisk(disk') /\ AtInv' /\ LeftInv' /\ left' \subseteq Paths
  BY DiskTouched, AtStep, LeftStep
<1>3. CASE Starts
  <2>1. PICK r \in Requests :
          /\ pc = "idle" /\ req' = r /\ want' = <<>> /\ sound' = {} /\ counts' = {}
          /\ disk' = disk /\ left' = left /\ tracked' = tracked
          /\ kills' = kills /\ faults' = faults
          /\ \/ pc' = "idle" /\ ret' \notin {"ok", "no"}
             \/ /\ pc' = "load" /\ version' \in Versions
                /\ r.command = "repair" /\ r.bundles # {} /\ (r.picky \/ r.extra) => r.legacy
    BY <1>3, BeginStep
  <2>2. TypeInv'
    BY <1>1, <1>2, <2>1 DEF TypeInv, ControlPoints, IsDisk, Repairs, LooksForExtras
  <2>3. TypeOK'
    <3>1. DOMAIN want' = {}
      BY <2>1
    <3> QED BY <1>1, <1>2, <2>1, <3>1 DEF TypeOK, IsDisk, LeftInv, Renaming
  <2> QED BY <2>2, <2>3
<1>4. CASE ~Starts
  <2>1. req' = req /\ version' = version /\ (~Loaded => want' = want)
    BY <1>4, RequestKept
  <2>2. /\ kills' \in Nat /\ kills' <= KillBudget
        /\ faults' \in Nat /\ faults' <= FaultBudget
    <3>1. kills' = kills \/ (kills > 0 /\ kills' = kills - 1)
      BY <1>4 DEF Next, Step, Starts,
       LoadRefused, LoadFails, Loaded, Skip, Prepare, PrepareFails, AddPass, AddMissing, AddJudge,
       AddDone, FixPass, FixMismatch, FixJudge, FixDone, RemovePass, RemoveOrphan, RemoveDone,
       ExtraPass, ExtraLeft, ExtraLeftStays, ExtraFile, ExtraDone, Finish, Kill, Rest,
       Install, Stage, StageRefused, StageFails, Rename
    <3> QED BY <1>1, <3>1, BudgetStep
  <2>3. /\ pc' \in ControlPoints /\ (pc' # "idle" => pc # "idle")
        /\ pc' # "load" \/ (pc = "load" /\ sound' = sound)
        /\ pc' = "prepare" => pc \in {"load", "prepare"} /\ sound' = sound
        /\ pc \in {"idle", "load", "prepare"} =>
             \/ pc' \in {"idle", "load", "prepare"} \/ Skip
             \/ (Prepare /\ (pc' # "idle" => ~req.download))
    BY <1>1, <1>4 DEF Next, Step, Starts, TypeInv, ControlPoints,
       LoadRefused, LoadFails, Loaded, Skip, Prepare, PrepareFails, AddPass, AddMissing, AddJudge,
       AddDone, FixPass, FixMismatch, FixJudge, FixDone, RemovePass, RemoveOrphan, RemoveDone,
       ExtraPass, ExtraLeft, ExtraLeftStays, ExtraFile, ExtraDone, Finish, Kill, Rest,
       Install, Stage, StageRefused, StageFails, Rename, MoveOn, GiveUp
  <2>4. Skip => ~req.download
    <3> SUFFICES ASSUME Skip PROVE ~req.download
      OBVIOUS
    <3>1. IsRequest(req) /\ (req.file # Root \/ req.extra)
      BY <1>1, RepairAssumption DEF TypeInv, Skip, OnlyExtras
    <3> QED BY <3>1 DEF IsRequest
  <2>5. TypeInv'
    <3>1. pc' # "idle" => /\ req' \in Requests /\ version' \in Versions
                          /\ Repairs' /\ LooksForExtras' /\ req'.bundles # {} => req'.legacy
      BY <1>1, <2>1, <2>3 DEF TypeInv, Repairs, LooksForExtras
    <3>2. pc' \in {"load", "prepare"} => sound' = {}
      BY <1>1, <2>3 DEF TypeInv
    <3>3. pc' \notin {"idle", "load", "prepare"} => ~req'.download
      BY <1>1, <2>1, <2>3, <2>4 DEF TypeInv
    <3> QED BY <1>2, <2>2, <2>3, <3>1, <3>2, <3>3 DEF TypeInv, IsDisk
  <2>6. tracked' \subseteq Bundles /\ counts' \subseteq Counters
    <3>1. tracked' \subseteq tracked \union Chosen
      BY <1>4 DEF Next, Step, Starts,
       LoadRefused, LoadFails, Loaded, Skip, Prepare, PrepareFails, AddPass, AddMissing, AddJudge,
       AddDone, FixPass, FixMismatch, FixJudge, FixDone, RemovePass, RemoveOrphan, RemoveDone,
       ExtraPass, ExtraLeft, ExtraLeftStays, ExtraFile, ExtraDone, Finish, Kill, Rest,
       Install, Stage, StageRefused, StageFails, Rename
    <3>2. counts' \subseteq counts \union Counters
      BY <1>4 DEF Next, Step, Starts, Counters,
       LoadRefused, LoadFails, Loaded, Skip, Prepare, PrepareFails, AddPass, AddMissing, AddJudge,
       AddDone, FixPass, FixMismatch, FixJudge, FixDone, RemovePass, RemoveOrphan, RemoveDone,
       ExtraPass, ExtraLeft, ExtraLeftStays, ExtraFile, ExtraDone, Finish, Kill, Rest, Remove,
       Install, Stage, StageRefused, StageFails, Rename
    <3>3. Chosen \subseteq Bundles
      BY WorkedBundles
    <3> QED BY <1>1, <3>1, <3>2, <3>3 DEF TypeOK
  <2>7. DOMAIN want' \subseteq Paths /\ sound' \subseteq DOMAIN want'
    <3>1. CASE Loaded
      <4>1. version \in Versions /\ sound' = {}
        BY <1>1, <3>1 DEF TypeInv, Loaded
      <4>2. DOMAIN Consolidated(version, All) \subseteq Paths
        BY <4>1, WorkedBundles, ConsolidatedType
      <4>3. DOMAIN Safe(Consolidated(version, Closure(version, Chosen, WithOptional)),
                        Consolidated(version, All)) \subseteq Paths
        <5>1. Closure(version, Chosen, WithOptional) \in SUBSET Listed(version)
          BY ClosureHolds
        <5>2. DOMAIN Consolidated(version, Closure(version, Chosen, WithOptional)) \subseteq Paths
          BY <4>1, <5>1, ConsolidatedType
        <5> QED BY <5>2, SafeType
      <4>4. \/ want' = Consolidated(version, All)
            \/ want' = Safe(Consolidated(version, Closure(version, Chosen, WithOptional)),
                            Consolidated(version, All))
        BY <3>1 DEF Loaded
      <4> QED BY <4>1, <4>2, <4>3, <4>4
    <3>2. CASE Prepare
      <4>1. Intact \subseteq DOMAIN want
        BY TodoList DEF Intact
      <4>2. want' = want /\ sound' \subseteq Intact
        BY <3>2 DEF Prepare
      <4> QED BY <1>1, <4>1, <4>2 DEF TypeOK
    <3>3. CASE AddJudge
      <4>1. Item \in DOMAIN want
        BY <3>3, StagedItem DEF AddJudge, Staging
      <4>2. want' = want /\ sound' \subseteq sound \union {Item}
        BY <3>3 DEF AddJudge
      <4> QED BY <1>1, <4>1, <4>2 DEF TypeOK
    <3>4. CASE ~Loaded /\ ~Prepare /\ ~AddJudge
      <4>1. want' = want /\ sound' \subseteq sound \union Heuristics
        BY <1>4, <2>1, <3>4 DEF Next, Step, Starts,
         LoadRefused, LoadFails, Skip, PrepareFails, AddPass, AddMissing,
         AddDone, FixPass, FixMismatch, FixJudge, FixDone, RemovePass, RemoveOrphan, RemoveDone,
         ExtraPass, ExtraLeft, ExtraLeftStays, ExtraFile, ExtraDone, Finish, Kill, Rest,
         Install, Stage, StageRefused, StageFails, Rename
      <4>2. Heuristics \subseteq DOMAIN want
        BY DEF Heuristics
      <4> QED BY <1>1, <4>1, <4>2 DEF TypeOK
    <3> QED BY <3>1, <3>2, <3>3, <3>4
  <2>8. TypeOK'
    <3>1. DOMAIN disk' = Paths /\ req' \in Requests \union {NoRequest}
      BY <1>1, <1>2, <2>1 DEF IsDisk, TypeOK, NoRequest
    <3>2. pc' \in Staging => at' \in DOMAIN Todo' /\ want'[Item'] \notin Gone /\ Writes'
      BY <1>2 DEF AtInv
    <3>3. left' # {} /\ pc' \notin Renaming => kills' < KillBudget \/ faults' < FaultBudget
      BY <1>2 DEF LeftInv
    <3> QED BY <1>2, <2>6, <2>7, <3>1, <3>2, <3>3 DEF TypeOK, Staging, Renaming
  <2> QED BY <2>5, <2>8
<1> QED BY <1>3, <1>4

LEMMA InitInv ==
  ASSUME Init
  PROVE  PInv
<1>1. disk = [p \in Paths |-> disk[p]] /\ KillBudget \in Nat /\ FaultBudget \in Nat
  BY RepairAssumption DEF Init
<1>2. TypeOK
  <2>1. DOMAIN want = {} /\ DOMAIN disk = Paths
    BY <1>1 DEF Init
  <2> QED BY <2>1 DEF Init, TypeOK
<1>3. TypeInv
  BY <1>1 DEF Init, TypeInv, ControlPoints
<1> QED BY <1>2, <1>3 DEF Init, PInv, AtInv, RemoveInv, LeftInv, WantInv, Staging, Heeded

\* PInv holds in every state.
THEOREM Invariance == Spec => []PInv
<1>1. ASSUME PInv, [Next]_vars PROVE PInv'
  BY <1>1, TypeStep, AtStep, RemoveStep, LeftStep, WantStep DEF PInv
<1> QED BY <1>1, InitInv, PTL DEF Spec

\* The state is well-formed whatever is repaired and wherever it is killed: a file that is
\* put in place is one the manifests have, and only a kill or a failing call leaves a
\* .update. file behind.
THEOREM TypeCorrect == Spec => []TypeOK
<1>1. PInv => TypeOK
  BY DEF PInv
<1> QED BY <1>1, Invariance, PTL

----------------------------------------------------------------------------
(* What is removed.                                                        *)

\* What may go from the disk in a step, in the terms of OnlyStrangersRemoved.
MayGo(p) ==
  LET w == Consolidated(version, All)
      asked == Consolidated(version, Closure(version, Chosen, WithOptional))
  IN /\ Writes /\ ~req.download
     /\ \/ p \in DOMAIN w /\ w[p] \notin Gone /\ Type(w[p]) # Type(disk[p])
        \/ p \in DOMAIN w /\ w[p] = "gone" /\ (MayRemove \/ LooksForExtras)
        \/ /\ LooksForExtras /\ p \in PickyTree
           /\ \/ p \notin DOMAIN w
              \/ /\ req.legacy /\ req.bundles # {}
                 /\ p \notin DOMAIN asked \/ asked[p] \in Gone

LEMMA RemovedMayGo ==
  ASSUME PInv, [Next]_vars, NEW p \in Paths, disk[p] # "absent", disk'[p] = "absent"
  PROVE  MayGo(p)
<1> DEFINE w == Consolidated(version, All)
           cons == Consolidated(version, Worked)
<1>1. Placed(p) \/ Removed(p)
  BY DiskTouched
<1>2. pc \notin {"idle", "load"} /\ version \in Versions
  <2>1. ~Quiet
    <3> SUFFICES ASSUME Quiet PROVE FALSE
      OBVIOUS
    <3> QED BY QuietStep
  <2>2. pc \notin {"idle", "load"}
    BY <2>1 DEF Next, Step, Quiet, Starts,
       Skip, Prepare, AddPass, AddMissing, AddJudge, AddDone, FixPass, FixMismatch, FixJudge,
       FixDone, RemovePass, RemoveOrphan, RemoveDone, ExtraPass, ExtraLeft, ExtraLeftStays,
       ExtraFile,
       Install, Stage, StageRefused, StageFails, Rename
  <2> QED BY <2>2 DEF PInv, TypeInv
<1>3. /\ p \in DOMAIN want => p \in DOMAIN cons /\ want[p] = cons[p]
      /\ p \in DOMAIN cons /\ p \notin DOMAIN want => req.bundles # {} /\ cons[p] \in Gone
  BY <1>2, WantedEntry
<1>4. p \in DOMAIN cons => /\ p \in DOMAIN w
                           /\ cons[p] \notin Gone \/ w[p] \in Gone => w[p] = cons[p]
  BY <1>2, WorkedBundles, SameEntry
<1>5. /\ req.bundles = {} => w = cons
      /\ req.bundles # {} => cons = Consolidated(version, Closure(version, Chosen, WithOptional))
  BY DEF Worked
<1>6. p \in DOMAIN want /\ want[p] \in Gone => w[p] \in Gone
  <2> SUFFICES ASSUME p \in DOMAIN want, want[p] \in Gone PROVE w[p] \in Gone
    OBVIOUS
  <2>1. CASE req.bundles = {}
    BY <1>3, <1>5, <2>1
  <2>2. CASE req.bundles # {}
    <3>1. PICK A \in SUBSET Listed(version) :
            All \subseteq A /\ want = Safe(cons, Consolidated(version, A))
      BY <1>2, <1>5, <2>2 DEF PInv, WantInv
    <3> DEFINE there == Consolidated(version, A)
    <3>2. cons[p] \in Gone => there[p] \in Gone
      BY <3>1, SafeType
    <3>3. p \in DOMAIN w
      BY <1>3, <1>4
    <3>4. w[p] \notin Gone => there[p] = w[p]
      BY <1>2, <3>1, <3>3, SameEntry
    <3>5. cons[p] \in Gone
      BY <1>3
    <3> QED BY <3>2, <3>4, <3>5
  <2> QED BY <2>1, <2>2
<1> HIDE DEF w, cons
<1>7. CASE Placed(p)
  <2>1. /\ p \in DOMAIN want /\ want[p] \notin Gone /\ Writes /\ ~req.download
        /\ disk'[p] = want[p] \/ Type(disk[p]) # Type(want[p])
    BY <1>7 DEF Placed
  <2>2. p \in DOMAIN w /\ w[p] = want[p]
    BY <1>3, <1>4, <2>1
  <2>3. want[p] # "absent"
    <3>1. \A q \in DOMAIN cons : cons[q] # "absent"
      BY <1>2, WorkedBundles, ConsolidatedType DEF cons
    <3> QED BY <1>3, <2>1, <3>1
  <2> QED BY <2>1, <2>2, <2>3 DEF MayGo, w
<1>8. CASE Removed(p)
  <2>1. /\ Writes /\ ~req.download
        /\ \/ p \in DOMAIN want /\ want[p] = "gone" /\ MayRemove
           \/ LooksForExtras /\ p \in PickyTree /\ (p \notin DOMAIN want \/ want[p] = "gone")
    BY <1>2, <1>8 DEF Removed, Extras, PInv, TypeInv, Writes
  <2>2. p \in DOMAIN want /\ want[p] = "gone" => p \in DOMAIN w /\ w[p] = "gone"
    BY <1>3, <1>4, <1>6 DEF Gone
  <2>3. CASE p \in DOMAIN want /\ want[p] = "gone"
    BY <2>1, <2>2, <2>3 DEF MayGo, w
  <2>4. CASE p \notin DOMAIN want
    <3>1. LooksForExtras /\ p \in PickyTree
      BY <2>1, <2>4
    <3>2. CASE req.bundles = {}
      <4>1. p \notin DOMAIN w
        BY <1>3, <1>5, <2>4, <3>2
      <4> QED BY <2>1, <3>1, <4>1 DEF MayGo, w
    <3>3. CASE req.bundles # {}
      <4>1. p \notin DOMAIN cons \/ cons[p] \in Gone
        BY <1>3, <2>4
      <4>2. req.legacy
        BY <1>2, <1>8, <3>1, <3>3 DEF PInv, TypeInv, Removed
      <4> QED BY <1>5, <2>1, <3>1, <3>3, <4>1, <4>2 DEF MayGo
    <3> QED BY <3>2, <3>3
  <2> QED BY <2>1, <2>3, <2>4
<1> QED BY <1>1, <1>7, <1>8

\* Whatever a command removes from a disk is something no installed bundle lists, that one
\* has deleted or that --picky asks for, or of another type than what is to be there; and
\* diagnose and a download change nothing at all.
THEOREM StrangersOnly == Spec => OnlyStrangersRemoved
<1>1. ASSUME PInv, [Next]_vars
      PROVE  [\A p \in Paths : disk[p] # "absent" /\ disk'[p] = "absent" =>
       LET w == Consolidated(version, All)
           asked == Consolidated(version, Closure(version, Chosen, WithOptional))
       IN /\ Writes /\ ~req.download
          /\ \/ p \in DOMAIN w /\ w[p] \notin Gone /\ Type(w[p]) # Type(disk[p])
             \/ p \in DOMAIN w /\ w[p] = "gone" /\ (MayRemove \/ LooksForExtras)
             \/ /\ LooksForExtras /\ p \in PickyTree
                /\ \/ p \notin DOMAIN w
                   \/ /\ req.legacy /\ req.bundles # {}
                      /\ p \notin DOMAIN asked \/ asked[p] \in Gone]_vars
  BY <1>1, RemovedMayGo DEF MayGo
<1> QED BY <1>1, Invariance, PTL DEF Spec, OnlyStrangersRemoved

----------------------------------------------------------------------------
(* What diagnose tells.                                                    *)

\* A diagnose that looks at everything.
Checking ==
  /\ req.command = "diagnose" /\ req.bundles = {} /\ req.file = Root
  /\ ~req.quick /\ ~req.extra

MissingOnes == {p \in DOMAIN want : want[p] \notin Gone /\ Seen(p) = "absent"}
CorruptOnes == {p \in DOMAIN want : Corrupt(p)}
OrphanOnes == {p \in DOMAIN want : Orphan(p)}
StrangeOnes == {p \in Paths : ExtraHere(p) \/ LeftHere(p)}

\* The counters are those of the files that it has gone through.
MissingInv ==
  /\ pc \in {"load", "prepare"} => counts = {}
  /\ pc = "add" =>
       /\ counts \subseteq {"missing"}
       /\ "missing" \in counts <=> \E i \in DOMAIN Todo : i < at /\ Todo[i] \in MissingOnes
  /\ pc \in {"fix", "remove", "extra", "end"} => ("missing" \in counts <=> MissingOnes # {})
MismatchInv ==
  /\ pc = "add" => sound = {}
  /\ pc \in {"fix", "remove", "extra", "end"} => sound = Heuristics
  /\ pc = "fix" =>
       /\ counts \subseteq {"missing", "mismatch"}
       /\ "mismatch" \in counts <=> \E i \in DOMAIN Todo : i < at /\ Todo[i] \in CorruptOnes
  /\ pc \in {"remove", "extra", "end"} => ("mismatch" \in counts <=> CorruptOnes # {})
ExtraneousInv ==
  /\ pc \in {"remove", "extra", "end"} => counts \subseteq {"missing", "mismatch", "extraneous"}
  /\ pc = "remove" =>
       ("extraneous" \in counts <=> \E i \in DOMAIN Todo : i > at /\ Todo[i] \in OrphanOnes)
  /\ pc = "extra" =>
       ("extraneous" \in counts <=>
          \/ OrphanOnes # {}
          \/ req.picky /\ \E i \in DOMAIN Order : i > at /\ Order[i] \in StrangeOnes)
  /\ pc = "end" =>
       ("extraneous" \in counts <=> OrphanOnes # {} \/ (req.picky /\ StrangeOnes # {}))
CheckInv == Checking => MissingInv /\ MismatchInv /\ ExtraneousInv

\* A diagnose changes nothing.
LEMMA CheckFrame ==
  ASSUME PInv, [Next]_vars, ~Starts, pc # "idle", Checking
  PROVE  /\ disk' = disk /\ left' = left /\ req' = req /\ version' = version /\ Checking'
         /\ ~Writes /\ ~Repairs /\ ~Installs /\ ~Installing /\ ~AddJudge /\ ~FixJudge
         /\ ~Skip /\ ~PrepareFails
         /\ req.download = FALSE
<1>1. ~Writes /\ ~Repairs /\ ~Installs
  BY DEF Writes, Repairs, Installs, Checking
<1>2. pc \notin Staging
  BY <1>1 DEF PInv, AtInv
<1>3. ~Installing /\ ~AddJudge /\ ~FixJudge
  BY <1>2 DEF Installing, Install, Stage, StageRefused, StageFails, Rename, AddJudge, FixJudge,
              Staging
<1>4. ~Skip /\ ~PrepareFails
  BY <1>1 DEF Skip, PrepareFails, OnlyExtras, Checking
<1>5. req' = req /\ version' = version
  BY RequestKept
<1>6. disk' = disk
  <2>1. CASE RemoveOrphan
    BY <1>1, <2>1 DEF RemoveOrphan
  <2>2. CASE ExtraFile
    BY <1>1, <2>2 DEF ExtraFile
  <2>3. ~ExtraLeftStays
    BY <1>1 DEF ExtraLeftStays
  <2> QED BY <1>3, <2>1, <2>2, <2>3, DiskKept
<1>7. left' = left
  BY <1>1, <1>3 DEF Next, Step, Starts, Installing,
       LoadRefused, LoadFails, Loaded, Skip, Prepare, PrepareFails, AddPass, AddMissing, AddJudge,
       AddDone, FixPass, FixMismatch, FixJudge, FixDone, RemovePass, RemoveOrphan, RemoveDone,
       ExtraPass, ExtraLeft, ExtraLeftStays, ExtraFile, ExtraDone, Finish, Kill, Rest
<1>8. Checking'
  BY <1>5 DEF Checking
<1>9. req.download = FALSE
  <2>1. req \in Requests
    BY DEF PInv, TypeInv
  <2>2. req.download \in BOOLEAN /\ (req.download => req.command = "install")
    BY <2>1, RepairAssumption DEF IsRequest
  <2> QED BY <2>2 DEF Checking
<1> QED BY <1>1, <1>3, <1>4, <1>5, <1>6, <1>7, <1>8, <1>9

LEMMA SameOnes ==
  ASSUME disk' = disk, left' = left, req' = req, want' = want
  PROVE  /\ MissingOnes' = MissingOnes /\ StrangeOnes' = StrangeOnes
         /\ Todo' = Todo /\ Heuristics' = Heuristics
         /\ sound' = sound => CorruptOnes' = CorruptOnes /\ OrphanOnes' = OrphanOnes
<1>1. Todo' = Todo /\ Heuristics' = Heuristics /\ \A p : Matches(p)' = Matches(p)
  BY TodoKept
<1>2. \A p : Seen(p)' = Seen(p) /\ InRealDir(p)' = InRealDir(p)
  BY DEF Seen, InRealDir
<1>3. MissingOnes' = MissingOnes
  BY <1>2 DEF MissingOnes
<1>4. sound' = sound => CorruptOnes' = CorruptOnes /\ OrphanOnes' = OrphanOnes
  BY <1>2 DEF CorruptOnes, OrphanOnes, Corrupt, Orphan
<1>5. PickyTree' = PickyTree
  BY <1>1 DEF PickyTree
<1>6. Extras' = Extras
  BY <1>5 DEF Extras
<1>7. StrangeOnes' = StrangeOnes
  BY <1>2, <1>5, <1>6 DEF StrangeOnes, ExtraHere, LeftHere
<1> QED BY <1>1, <1>3, <1>4, <1>7

\* The whole list has been gone through.
LEMMA WholeTodo ==
  ASSUME PInv, Checking, NEW S \in SUBSET DOMAIN want
  PROVE  S # {} <=> \E i \in DOMAIN Todo : Todo[i] \in S
<1>1. Elements(Todo) = {p \in DOMAIN want : Matches(p)} \intersect Paths
  BY TodoList
<1>2. DOMAIN want \subseteq Paths /\ \A p : Matches(p)
  BY DEF PInv, TypeOK, Matches, Checking
<1> QED BY <1>1, <1>2 DEF Elements

LEMMA CheckStep ==
  ASSUME PInv, CheckInv, [Next]_vars
  PROVE  CheckInv'
<1>1. CASE Starts
  <2>1. /\ sound' = {} /\ counts' = {} /\ pc' \in {"idle", "load"}
    BY <1>1, BeginStep
  <2> QED BY <2>1 DEF CheckInv, MissingInv, MismatchInv, ExtraneousInv
<1>2. CASE ~Starts /\ pc' = "idle"
  BY <1>2 DEF CheckInv, MissingInv, MismatchInv, ExtraneousInv
<1>3. CASE ~Starts /\ pc' # "idle" /\ ~Checking
  <2>1. req' = req
    BY <1>3, RequestKept
  <2> QED BY <1>3, <2>1 DEF CheckInv, Checking
<1>4. CASE ~Starts /\ pc' # "idle" /\ Checking
  <2>1. pc # "idle"
    BY <1>4 DEF Next, Step, Starts, LoadRefused, LoadFails, Loaded, Skip, Prepare, PrepareFails,
       AddPass, AddMissing, AddJudge, AddDone, FixPass, FixMismatch, FixJudge, FixDone, RemovePass,
       RemoveOrphan, RemoveDone, ExtraPass, ExtraLeft, ExtraLeftStays, ExtraFile, ExtraDone,
       Finish, Kill, Rest,
       Install, Stage, StageRefused, StageFails, Rename
  <2>2. /\ disk' = disk /\ left' = left /\ req' = req /\ Checking'
        /\ ~Writes /\ ~Repairs /\ ~Installs /\ ~Installing /\ ~AddJudge /\ ~FixJudge
        /\ ~Skip /\ ~PrepareFails /\ req.download = FALSE
    BY <1>4, <2>1, CheckFrame
  <2>3. MissingInv /\ MismatchInv /\ ExtraneousInv
    BY <1>4 DEF CheckInv
  <2>4. /\ DOMAIN Todo = 1..Len(Todo) /\ Len(Todo) \in Nat
        /\ DOMAIN Order = 1..Len(Order) /\ Len(Order) \in Nat
    BY TodoList
  <2>5. req.quick = FALSE /\ req.extra = FALSE /\ (LooksForExtras <=> req.picky)
    <3>1. IsRequest(req)
      BY <2>1, RepairAssumption DEF PInv, TypeInv
    <3>2. req.quick \in BOOLEAN /\ req.extra \in BOOLEAN
      BY <3>1 DEF IsRequest
    <3>3. ~req.quick /\ ~req.extra
      BY <1>4 DEF Checking
    <3> QED BY <3>2, <3>3 DEF LooksForExtras
  <2> SUFFICES MissingInv' /\ MismatchInv' /\ ExtraneousInv'
    BY DEF CheckInv
  <2>6. CASE Loaded
    <3>1. pc = "load" /\ pc' = "prepare" /\ counts' = counts
      BY <2>6 DEF Loaded
    <3> QED BY <2>3, <3>1 DEF MissingInv, MismatchInv, ExtraneousInv
  <2>7. CASE ~Loaded
    <3>1. want' = want
      BY <1>4, <2>7, RequestKept
    <3>2. /\ MissingOnes' = MissingOnes /\ StrangeOnes' = StrangeOnes
          /\ Todo' = Todo /\ Heuristics' = Heuristics
          /\ sound' = sound => CorruptOnes' = CorruptOnes /\ OrphanOnes' = OrphanOnes
      BY <2>2, <3>1, SameOnes
    <3>3. /\ MissingOnes \subseteq DOMAIN want /\ CorruptOnes \subseteq DOMAIN want
          /\ OrphanOnes \subseteq DOMAIN want /\ StrangeOnes \subseteq Paths
      BY DEF MissingOnes, CorruptOnes, OrphanOnes, StrangeOnes
    <3>4. CASE Prepare
      <4>1. /\ pc = "prepare" /\ pc' = "add" /\ at' = 1 /\ sound' = {} /\ counts' = counts
        BY <1>4, <2>2, <3>4 DEF Prepare
      <4>2. counts' = {}
        BY <2>3, <4>1 DEF MissingInv
      <4> QED BY <2>4, <3>2, <4>1, <4>2 DEF MissingInv, MismatchInv, ExtraneousInv
    <3>5. CASE AddPass \/ AddMissing
      <4>1. /\ pc = "add" /\ pc' = "add" /\ at <= Len(Todo) /\ at' = at + 1 /\ sound' = sound
        BY <2>2, <3>5 DEF AddPass, AddMissing, MoveOn
      <4>2. at \in DOMAIN Todo /\ Item = Todo[at] /\ Item \in DOMAIN want
        BY <2>4, <4>1, TodoList DEF PInv, AtInv, Item
      <4>3. sound = {} /\ counts \subseteq {"missing"}
            /\ ("missing" \in counts <=> \E i \in DOMAIN Todo : i < at /\ Todo[i] \in MissingOnes)
        BY <2>3, <4>1 DEF MissingInv, MismatchInv
      <4>4. \/ Item \in MissingOnes /\ counts' = counts \union {"missing"}
            \/ Item \notin MissingOnes /\ counts' = counts
        BY <3>5, <4>2, <4>3 DEF AddPass, AddMissing, MissingOnes
      <4>5. \A i \in DOMAIN Todo : i < at + 1 <=> i < at \/ i = at
        BY <2>4, <4>2
      <4>6. /\ counts' \subseteq {"missing"}
            /\ "missing" \in counts' <=> \E i \in DOMAIN Todo : i < at + 1 /\ Todo[i] \in MissingOnes
        <5>1. CASE Item \in MissingOnes
          BY <4>2, <4>3, <4>4, <4>5, <5>1
        <5>2. CASE Item \notin MissingOnes
          BY <4>2, <4>3, <4>4, <4>5, <5>2
        <5> QED BY <5>1, <5>2
      <4> QED BY <3>2, <4>1, <4>3, <4>6 DEF MissingInv, MismatchInv, ExtraneousInv
    <3>6. CASE AddDone
      <4>1. /\ pc = "add" /\ at > Len(Todo) /\ pc' = "fix" /\ at' = 1
            /\ sound' = sound \union Heuristics /\ counts' = counts
        BY <2>2, <2>5, <3>6 DEF AddDone
      <4>2. /\ sound = {} /\ counts \subseteq {"missing"}
            /\ "missing" \in counts <=> \E i \in DOMAIN Todo : i < at /\ Todo[i] \in MissingOnes
        BY <2>3, <4>1 DEF MissingInv, MismatchInv
      <4>3. at \in Nat
        BY <4>1 DEF PInv, AtInv
      <4>4. "missing" \in counts <=> MissingOnes # {}
        <5>1. MissingOnes # {} <=> \E i \in DOMAIN Todo : Todo[i] \in MissingOnes
          BY <1>4, <3>3, WholeTodo
        <5>2. \A i \in DOMAIN Todo : i < at
          BY <2>4, <4>1, <4>3
        <5> QED BY <4>2, <5>1, <5>2
      <4>5. sound' = Heuristics' /\ "mismatch" \notin counts
        BY <3>2, <4>1, <4>2
      <4> QED BY <2>4, <3>2, <4>1, <4>2, <4>4, <4>5 DEF MissingInv, MismatchInv, ExtraneousInv
    <3>7. CASE FixPass \/ FixMismatch
      <4>1. /\ pc = "fix" /\ pc' = "fix" /\ at <= Len(Todo) /\ at' = at + 1 /\ sound' = sound
        BY <2>2, <3>7 DEF FixPass, FixMismatch, MoveOn
      <4>2. at \in DOMAIN Todo /\ Item = Todo[at] /\ Item \in DOMAIN want
        BY <2>4, <4>1, TodoList DEF PInv, AtInv, Item
      <4>3. /\ sound = Heuristics /\ counts \subseteq {"missing", "mismatch"}
            /\ "mismatch" \in counts <=> \E i \in DOMAIN Todo : i < at /\ Todo[i] \in CorruptOnes
            /\ "missing" \in counts <=> MissingOnes # {}
        BY <2>3, <4>1 DEF MissingInv, MismatchInv
      <4>4. \/ Item \in CorruptOnes /\ counts' = counts \union {"mismatch"}
            \/ Item \notin CorruptOnes /\ counts' = counts
        BY <3>7, <4>2 DEF FixPass, FixMismatch, CorruptOnes
      <4>5. \A i \in DOMAIN Todo : i < at + 1 <=> i < at \/ i = at
        BY <2>4, <4>2
      <4>6. /\ counts' \subseteq {"missing", "mismatch"}
            /\ "mismatch" \in counts' <=> \E i \in DOMAIN Todo : i < at + 1 /\ Todo[i] \in CorruptOnes
        <5>1. CASE Item \in CorruptOnes
          BY <4>2, <4>3, <4>4, <4>5, <5>1
        <5>2. CASE Item \notin CorruptOnes
          BY <4>2, <4>3, <4>4, <4>5, <5>2
        <5> QED BY <5>1, <5>2
      <4>7. "missing" \in counts' <=> MissingOnes # {}
        BY <4>3, <4>4
      <4>8. CorruptOnes' = CorruptOnes /\ sound' = Heuristics'
        BY <3>2, <4>1, <4>3
      <4> QED BY <3>2, <4>1, <4>6, <4>7, <4>8 DEF MissingInv, MismatchInv, ExtraneousInv
    <3>8. CASE FixDone
      <4>1. /\ pc = "fix" /\ at > Len(Todo) /\ sound' = sound /\ counts' = counts
            /\ MayRemove => pc' = "remove" /\ at' = Len(Todo)
        BY <3>8 DEF FixDone
      <4>2. /\ sound = Heuristics /\ counts \subseteq {"missing", "mismatch"}
            /\ "mismatch" \in counts <=> \E i \in DOMAIN Todo : i < at /\ Todo[i] \in CorruptOnes
            /\ "missing" \in counts <=> MissingOnes # {}
        BY <2>3, <4>1 DEF MissingInv, MismatchInv
      <4>3. pc' = "remove" /\ at' = Len(Todo)
        BY <4>1, <4>2 DEF MayRemove
      <4>4. at \in Nat
        BY <4>1 DEF PInv, AtInv
      <4>5. "mismatch" \in counts <=> CorruptOnes # {}
        <5>1. CorruptOnes # {} <=> \E i \in DOMAIN Todo : Todo[i] \in CorruptOnes
          BY <1>4, <3>3, WholeTodo
        <5>2. \A i \in DOMAIN Todo : i < at
          BY <2>4, <4>1, <4>4
        <5> QED BY <4>2, <5>1, <5>2
      <4>6. \A i \in DOMAIN Todo : ~(i > Len(Todo))
        BY <2>4
      <4>7. CorruptOnes' = CorruptOnes /\ sound' = Heuristics' /\ "extraneous" \notin counts
        BY <3>2, <4>1, <4>2
      <4> QED BY <3>2, <4>1, <4>2, <4>3, <4>5, <4>6, <4>7 DEF MissingInv, MismatchInv, ExtraneousInv
    <3>9. CASE RemovePass \/ RemoveOrphan
      <4>1. /\ pc = "remove" /\ pc' = "remove" /\ at >= 1 /\ at' = at - 1 /\ sound' = sound
        BY <3>9 DEF RemovePass, RemoveOrphan
      <4>2. at \in DOMAIN Todo /\ Item = Todo[at] /\ Item \in DOMAIN want
        BY <4>1, RemovedItem DEF Item
      <4>3. /\ sound = Heuristics /\ counts \subseteq {"missing", "mismatch", "extraneous"}
            /\ "extraneous" \in counts <=> \E i \in DOMAIN Todo : i > at /\ Todo[i] \in OrphanOnes
            /\ "missing" \in counts <=> MissingOnes # {}
            /\ "mismatch" \in counts <=> CorruptOnes # {}
        BY <2>3, <4>1 DEF MissingInv, MismatchInv, ExtraneousInv
      <4>4. \/ Item \in OrphanOnes /\ counts' = counts \union {"extraneous"}
            \/ Item \notin OrphanOnes /\ counts' = counts
        BY <2>2, <3>9, <4>2 DEF RemovePass, RemoveOrphan, OrphanOnes
      <4>5. \A i \in DOMAIN Todo : i > at - 1 <=> i > at \/ i = at
        BY <2>4, <4>2
      <4>6. "extraneous" \in counts' <=> \E i \in DOMAIN Todo : i > at - 1 /\ Todo[i] \in OrphanOnes
        <5>1. CASE Item \in OrphanOnes
          BY <4>2, <4>3, <4>4, <4>5, <5>1
        <5>2. CASE Item \notin OrphanOnes
          BY <4>2, <4>3, <4>4, <4>5, <5>2
        <5> QED BY <5>1, <5>2
      <4>7. /\ counts' \subseteq {"missing", "mismatch", "extraneous"}
            /\ "missing" \in counts' <=> MissingOnes # {}
            /\ "mismatch" \in counts' <=> CorruptOnes # {}
        BY <4>3, <4>4
      <4>8. CorruptOnes' = CorruptOnes /\ OrphanOnes' = OrphanOnes /\ sound' = Heuristics'
        BY <3>2, <4>1, <4>3
      <4> QED BY <3>2, <4>1, <4>6, <4>7, <4>8 DEF MissingInv, MismatchInv, ExtraneousInv
    <3>10. CASE RemoveDone
      <4>1. /\ pc = "remove" /\ at < 1 /\ pc' = "extra" /\ at' = Len(Order)
            /\ sound' = sound /\ counts' = counts
        BY <3>10 DEF RemoveDone
      <4>2. /\ sound = Heuristics /\ counts \subseteq {"missing", "mismatch", "extraneous"}
            /\ "extraneous" \in counts <=> \E i \in DOMAIN Todo : i > at /\ Todo[i] \in OrphanOnes
            /\ "missing" \in counts <=> MissingOnes # {}
            /\ "mismatch" \in counts <=> CorruptOnes # {}
        BY <2>3, <4>1 DEF MissingInv, MismatchInv, ExtraneousInv
      <4>3. "extraneous" \in counts <=> OrphanOnes # {}
        <5>1. OrphanOnes # {} <=> \E i \in DOMAIN Todo : Todo[i] \in OrphanOnes
          BY <1>4, <3>3, WholeTodo
        <5>2. at \in 0..Len(Todo)
          BY <4>1 DEF PInv, AtInv
        <5>3. \A i \in DOMAIN Todo : i > at
          BY <2>4, <4>1, <5>2
        <5> QED BY <4>2, <5>1, <5>3
      <4>4. \A i \in DOMAIN Order : ~(i > Len(Order))
        BY <2>4
      <4>5. CorruptOnes' = CorruptOnes /\ OrphanOnes' = OrphanOnes /\ sound' = Heuristics'
        BY <3>2, <4>1, <4>2
      <4> QED BY <3>2, <4>1, <4>2, <4>3, <4>4, <4>5 DEF MissingInv, MismatchInv, ExtraneousInv
    <3>11. CASE ExtraPass \/ ExtraLeft \/ ExtraLeftStays \/ ExtraFile
      <4>1. /\ pc = "extra" /\ pc' = "extra" /\ at >= 1 /\ at' = at - 1 /\ sound' = sound
        BY <2>2, <3>11 DEF ExtraPass, ExtraLeft, ExtraLeftStays, ExtraFile
      <4>2. at \in DOMAIN Order /\ Order[at] \in Paths
        BY <4>1, ExtraItem
      <4>3. /\ sound = Heuristics /\ counts \subseteq {"missing", "mismatch", "extraneous"}
            /\ "extraneous" \in counts <=>
                 \/ OrphanOnes # {}
                 \/ req.picky /\ \E i \in DOMAIN Order : i > at /\ Order[i] \in StrangeOnes
            /\ "missing" \in counts <=> MissingOnes # {}
            /\ "mismatch" \in counts <=> CorruptOnes # {}
        BY <2>3, <4>1 DEF MissingInv, MismatchInv, ExtraneousInv
      <4>4. \/ req.picky /\ Order[at] \in StrangeOnes /\ counts' = counts \union {"extraneous"}
            \/ ~(req.picky /\ Order[at] \in StrangeOnes) /\ counts' = counts
        BY <2>2, <2>5, <3>11, <4>2 DEF ExtraPass, ExtraLeft, ExtraLeftStays, ExtraFile,
        StrangeOnes
      <4>5. \A i \in DOMAIN Order : i > at - 1 <=> i > at \/ i = at
        BY <2>4, <4>2
      <4>6. "extraneous" \in counts' <=>
              \/ OrphanOnes # {}
              \/ req.picky /\ \E i \in DOMAIN Order : i > at - 1 /\ Order[i] \in StrangeOnes
        <5>1. CASE req.picky /\ Order[at] \in StrangeOnes
          BY <4>2, <4>3, <4>4, <4>5, <5>1
        <5>2. CASE ~(req.picky /\ Order[at] \in StrangeOnes)
          BY <4>2, <4>3, <4>4, <4>5, <5>2
        <5> QED BY <5>1, <5>2
      <4>7. /\ counts' \subseteq {"missing", "mismatch", "extraneous"}
            /\ "missing" \in counts' <=> MissingOnes # {}
            /\ "mismatch" \in counts' <=> CorruptOnes # {}
        BY <4>3, <4>4
      <4>8. CorruptOnes' = CorruptOnes /\ OrphanOnes' = OrphanOnes /\ sound' = Heuristics'
        BY <3>2, <4>1, <4>3
      <4> QED BY <2>2, <3>2, <4>1, <4>6, <4>7, <4>8 DEF MissingInv, MismatchInv, ExtraneousInv
    <3>12. CASE ExtraDone
      <4>1. /\ pc = "extra" /\ at < 1 /\ pc' = "end" /\ sound' = sound /\ counts' = counts
        BY <3>12 DEF ExtraDone
      <4>2. /\ sound = Heuristics /\ counts \subseteq {"missing", "mismatch", "extraneous"}
            /\ "extraneous" \in counts <=>
                 \/ OrphanOnes # {}
                 \/ req.picky /\ \E i \in DOMAIN Order : i > at /\ Order[i] \in StrangeOnes
            /\ "missing" \in counts <=> MissingOnes # {}
            /\ "mismatch" \in counts <=> CorruptOnes # {}
        BY <2>3, <4>1 DEF MissingInv, MismatchInv, ExtraneousInv
      <4>3. StrangeOnes # {} <=> \E i \in DOMAIN Order : i > at /\ Order[i] \in StrangeOnes
        <5>1. at \in 0..Len(Order)
          BY <4>1 DEF PInv, AtInv
        <5>2. \A i \in DOMAIN Order : i > at
          BY <2>4, <4>1, <5>1
        <5> QED BY <3>3, <5>2 DEF Paths
      <4>4. CorruptOnes' = CorruptOnes /\ OrphanOnes' = OrphanOnes /\ sound' = Heuristics'
        BY <3>2, <4>1, <4>2
      <4> QED BY <2>2, <3>2, <4>1, <4>2, <4>3, <4>4 DEF MissingInv, MismatchInv, ExtraneousInv
    <3>13. CASE UNCHANGED vars
      <4>1. pc' = pc /\ sound' = sound /\ counts' = counts /\ at' = at /\ req' = req
        BY <3>13
      <4>2. MissingInv'
        BY <2>3, <3>2, <4>1 DEF MissingInv
      <4>3. MismatchInv'
        BY <2>3, <3>2, <4>1 DEF MismatchInv
      <4>4. ExtraneousInv'
        BY <2>3, <3>2, <4>1 DEF ExtraneousInv
      <4> QED BY <4>2, <4>3, <4>4
    <3> QED BY <1>4, <2>2, <2>7, <3>4, <3>5, <3>6, <3>7, <3>8, <3>9, <3>10, <3>11, <3>12, <3>13
            DEF Next, Step, Starts, Installing, LoadRefused, LoadFails, GiveUp, Finish, Kill, Rest
  <2> QED BY <2>6, <2>7
<1> QED BY <1>1, <1>2, <1>3, <1>4

\* Nothing is wrong if nothing is missing, corrupt or left over.
LEMMA WrongOnes ==
  ASSUME PInv, Checking, pc = "end", CheckInv
  PROVE  Wrong(version) = {} <=> MissingOnes = {} /\ CorruptOnes = {} /\ OrphanOnes = {}
<1>1. want = Consolidated(version, All) /\ sound = Heuristics /\ version \in Versions
  BY DEF PInv, WantInv, TypeInv, CheckInv, MismatchInv, Checking
<1>2. Installed \union Chosen = Installed /\ WithOptional = FALSE
  BY WorkedBundles DEF Checking, WithOptional, Installs
<1>3. Wrong(version) = {p \in DOMAIN want : ~FileRight(want, p)}
  <2>1. All = Closure(version, Installed, FALSE)
    BY <1>2, Zenon DEF All
  <2> QED BY <1>1, <2>1 DEF Wrong
<1>4. \A p \in DOMAIN want : want[p] # "absent"
  BY <1>1, WorkedBundles, ConsolidatedType
<1>5. \A p \in DOMAIN want :
        /\ want[p] \notin Gone => (p \in sound <=> p \in StateFiles)
        /\ want[p] \in Gone =>
             (p \in sound <=> want[p] = "ghost" \/ p \in StateFiles \union BootFiles)
  <2>1. sound = {p \in DOMAIN want : p \in StateFiles \/ want[p] = "ghost"
                                      \/ (p \in BootFiles /\ want[p] \in Gone)}
    BY <1>1 DEF Heuristics
  <2>2. \A p \in DOMAIN want : want[p] \notin Gone => want[p] # "ghost"
    BY DEF Gone
  <2> QED BY <2>1, <2>2
<1>6. \A p \in DOMAIN want :
        ~FileRight(want, p) <=> p \in MissingOnes \/ p \in CorruptOnes \/ p \in OrphanOnes
  <2> TAKE p \in DOMAIN want
  <2>1. /\ p \in MissingOnes <=> want[p] \notin Gone /\ Seen(p) = "absent"
        /\ p \in CorruptOnes <=> /\ want[p] \notin Gone /\ p \notin sound
                                 /\ Seen(p) # want[p] /\ Seen(p) # "absent"
        /\ p \in OrphanOnes <=> /\ want[p] \in Gone /\ p \notin sound
                                /\ Seen(p) # "absent" /\ InRealDir(p)
    BY DEF MissingOnes, CorruptOnes, OrphanOnes, Corrupt, Orphan
  <2>2. CASE want[p] \notin Gone
    <3>1. want[p] # "ghost"
      BY <2>2 DEF Gone
    <3>2. FileRight(want, p) <=> Seen(p) = want[p] \/ (p \in StateFiles /\ Seen(p) # "absent")
      BY <2>2 DEF FileRight
    <3>3. p \in sound <=> p \in StateFiles
      BY <1>5, <2>2
    <3> QED BY <1>4, <2>1, <2>2, <3>2, <3>3
  <2>3. CASE want[p] \in Gone
    <3>1. FileRight(want, p) <=> \/ want[p] = "ghost" \/ p \in StateFiles \union BootFiles
                                 \/ ~InRealDir(p) \/ Seen(p) = "absent"
      BY <2>3 DEF FileRight
    <3> QED BY <1>5, <2>1, <2>3, <3>1
  <2> QED BY <2>2, <2>3
<1>7. /\ MissingOnes \subseteq DOMAIN want /\ CorruptOnes \subseteq DOMAIN want
      /\ OrphanOnes \subseteq DOMAIN want
  BY DEF MissingOnes, CorruptOnes, OrphanOnes
<1> QED BY <1>3, <1>6, <1>7

\* What --picky adds.
NoStrangers == /\ \A p \in Extras : (disk[p] = "absent" \/ ~InRealDir(p))
               /\ left \intersect PickyTree = {}

LEMMA NoStrangeOnes ==
  ASSUME PInv
  PROVE  NoStrangers <=> StrangeOnes = {}
<1>1. Extras \subseteq Paths /\ PickyTree \subseteq Paths
  BY DEF Extras, PickyTree
<1>2. \A p : (ExtraHere(p) <=> p \in Extras /\ disk[p] # "absent" /\ InRealDir(p))
             /\ (LeftHere(p) <=> p \in left /\ p \in PickyTree)
  BY DEF ExtraHere, LeftHere
<1> QED BY <1>1, <1>2 DEF StrangeOnes, NoStrangers

\* The system is as diagnose takes it to be, and so it is told.
Sane == Wrong(version) = {} /\ (req.picky => NoStrangers)
TruthInv == pc = "idle" /\ Checking /\ ret \in {"ok", "no"} => (ret = "ok" <=> Sane)

LEMMA SaneKept ==
  ASSUME disk' = disk, left' = left, req' = req, version' = version, want' = want
  PROVE  Sane' = Sane
<1>1. Wrong(version)' = Wrong(version)
  BY DEF Wrong, FileRight, Seen, InRealDir, Installed
<1>2. PickyTree' = PickyTree /\ Extras' = Extras /\ \A p : InRealDir(p)' = InRealDir(p)
  BY DEF PickyTree, Extras, Matches, InRealDir
<1>3. NoStrangers' = NoStrangers
  BY <1>2 DEF NoStrangers
<1> QED BY <1>1, <1>3 DEF Sane

LEMMA TruthStep ==
  ASSUME PInv, CheckInv, TruthInv, [Next]_vars
  PROVE  TruthInv'
<1>1. CASE Starts
  <2>1. pc' = "load" \/ ret' \notin {"ok", "no"}
    BY <1>1, BeginStep
  <2> QED BY <2>1 DEF TruthInv
<1>2. CASE ~Starts /\ pc = "idle"
  <2>1. UNCHANGED vars
    BY <1>2 DEF Next, Step, Starts, LoadRefused, LoadFails, Loaded, Skip, Prepare, PrepareFails,
       AddPass, AddMissing, AddJudge, AddDone, FixPass, FixMismatch, FixJudge, FixDone, RemovePass,
       RemoveOrphan, RemoveDone, ExtraPass, ExtraLeft, ExtraLeftStays, ExtraFile, ExtraDone,
       Finish, Kill, Rest,
       Install, Stage, StageRefused, StageFails, Rename
  <2>2. /\ pc' = pc /\ req' = req /\ ret' = ret /\ disk' = disk /\ left' = left
        /\ version' = version /\ want' = want
    BY <2>1
  <2>3. Sane' = Sane
    BY <2>2, SaneKept
  <2> QED BY <2>2, <2>3 DEF TruthInv, Checking
<1>3. CASE ~Starts /\ pc # "idle"
  <2> SUFFICES ASSUME pc' = "idle", Checking', ret' \in {"ok", "no"}
               PROVE  TruthInv'
    BY DEF TruthInv, Checking
  <2>1. req' = req /\ version' = version
    BY <1>3, RequestKept
  <2>2. Checking
    BY <2>1 DEF Checking
  <2>3. /\ disk' = disk /\ left' = left /\ ~Writes /\ ~Repairs /\ ~PrepareFails /\ ~Skip
        /\ ~Installing /\ req.download = FALSE
    BY <1>3, <2>2, CheckFrame
  <2>4. Finish
    <3>1. ~LoadRefused
      BY <2>2 DEF LoadRefused, VersionAllowed, NothingChosen, GiveUp, Repairs, Checking
    <3>2. ~Prepare
      BY <2>3 DEF Prepare
    <3> QED BY <1>3, <2>3, <3>1, <3>2 DEF Next, Step, Starts, Installing, LoadFails, Loaded,
       AddPass, AddMissing, AddJudge, AddDone, FixPass, FixMismatch, FixJudge, FixDone, RemovePass,
       RemoveOrphan, RemoveDone, ExtraPass, ExtraLeft, ExtraLeftStays, ExtraFile, ExtraDone,
       Kill, Rest,
       MoveOn, GiveUp
  <2>5. /\ pc = "end" /\ want' = want
        /\ ret' = IF Failed THEN "verify_failed" ELSE IF ~Writes /\ Found THEN "no" ELSE "ok"
    BY <2>4 DEF Finish
  <2>6. /\ counts \subseteq {"missing", "mismatch", "extraneous"}
        /\ "missing" \in counts <=> MissingOnes # {}
        /\ "mismatch" \in counts <=> CorruptOnes # {}
        /\ "extraneous" \in counts <=> OrphanOnes # {} \/ (req.picky /\ StrangeOnes # {})
    BY <2>2, <2>5 DEF CheckInv, MissingInv, MismatchInv, ExtraneousInv
  <2>7. ~Failed /\ (Found <=> "missing" \in counts \/ "mismatch" \in counts \/ "extraneous" \in counts)
    BY <2>3, <2>6 DEF Failed, Found
  <2>8. ret' = "ok" <=> ~Found
    BY <2>3, <2>5, <2>7
  <2>9. Wrong(version) = {} <=> MissingOnes = {} /\ CorruptOnes = {} /\ OrphanOnes = {}
    BY <2>2, <2>5, WrongOnes
  <2>10. ret' = "ok" <=> Sane
    BY <2>6, <2>7, <2>8, <2>9, NoStrangeOnes DEF Sane
  <2>11. Sane' = Sane
    BY <2>1, <2>3, <2>5, SaneKept
  <2> QED BY <2>10, <2>11 DEF TruthInv
<1> QED BY <1>1, <1>2, <1>3

\* A complete diagnose finds the system sound exactly if it is, and with --picky only if
\* there is nothing either that no manifest lists.
THEOREM DiagnoseTruth == Spec => []DiagnoseTellsTruth
<1>1. Init => CheckInv /\ TruthInv
  BY DEF Init, CheckInv, Checking, TruthInv, NoRequest
<1>2. ASSUME PInv, CheckInv, TruthInv, [Next]_vars
      PROVE  CheckInv' /\ TruthInv'
  BY <1>2, CheckStep, TruthStep
<1>3. TruthInv => DiagnoseTellsTruth
  BY DEF TruthInv, DiagnoseTellsTruth, Checking, Sane, NoStrangers
<1> QED BY <1>1, <1>2, <1>3, Invariance, PTL DEF Spec

----------------------------------------------------------------------------
(* What two repairs leave.                                                 *)

\* A file is as w has it, or a state file that is there.
RightAt(w, p) == disk[p] = w[p] \/ (p \in StateFiles /\ disk[p] # "absent")

\* A path that w has deleted is not there any more, or need not or cannot go.
Tidy(w, p) ==
  \/ w[p] = "ghost" \/ p \in StateFiles \union BootFiles
  \/ ~InRealDir(p) \/ disk[p] = "absent"
  \/ disk[p] = "dir" /\ ~Empty(p)

\* A complete repair in which nothing has failed so far, and how many such repairs to the
\* same version have been done right before it.
Repairing == Complete(req) /\ calm
Round == IF passes.version = version THEN passes.count ELSE 0

\* The files that were right when it started, and those that it can put right: the second
\* repair finds every directory to be one.
Wanted == {p \in DOMAIN want : want[p] \notin Gone}
Deleted == {p \in DOMAIN want : want[p] \in Gone}
Settled == {p \in Wanted : Round >= 2 \/ (Round >= 1 /\ Parent[p] = Root)}
Firm == {p \in Wanted : Round >= 1 \/ Parent[p] = Root}

Adding == {"add", "add_stage", "add_rename", "add_judge"}
Fixing == {"fix", "fix_stage", "fix_rename", "fix_judge"}

\* What is right stays so, and is not put in place again.
SettledInv ==
  /\ \A p \in Settled : RightAt(want, p)
  /\ pc \in Staging => Item \notin Settled /\ Item \notin sound
SoundInv ==
  /\ pc \in Adding => sound \subseteq Wanted /\ \A p \in sound \intersect Firm : disk[p] = want[p]
  /\ pc \in Fixing => \A p \in sound \intersect Firm : RightAt(want, p)
  /\ pc \in Fixing \union {"remove"} => sound \subseteq Wanted \union Heuristics

\* The files before the one in question are there, and then they are right.
AddedInv ==
  /\ pc \in Adding =>
       \A j \in DOMAIN Todo : j < at /\ Todo[j] \in Firm /\ (pc \in Staging => Todo[j] # Item) =>
         disk[Todo[j]] # "absent"
  /\ pc \in Fixing => \A p \in Firm : disk[p] # "absent" \/ (pc = "fix_rename" /\ p = Item)
FixedInv ==
  /\ pc \in Fixing =>
       \A j \in DOMAIN Todo : j < at /\ Todo[j] \in Firm /\ (pc \in Staging => Todo[j] # Item) =>
         RightAt(want, Todo[j])
  /\ pc \in {"remove", "extra", "end"} => \A p \in Firm : RightAt(want, p)
  /\ pc \in {"add_judge", "fix_judge"} /\ Item \in Firm => disk[Item] = want[Item]

\* The second repair can put every file right, and the third one misses none.
CountInv ==
  /\ pc = "prepare" => counts = {}
  /\ Round >= 1 => "not_fixed" \notin counts
  /\ Round >= 2 => "not_replaced" \notin counts

\* Then deleted files go, from the last one to the first; a directory that held an extra
\* file goes with it.
TidyInv ==
  Round >= 1 /\ "not_replaced" \notin counts =>
    /\ pc = "remove" =>
         \A j \in DOMAIN Todo : j > at /\ Todo[j] \in Deleted => Tidy(want, Todo[j])
    /\ pc = "extra" =>
         \A p \in Deleted : \/ Tidy(want, p)
                            \/ /\ LooksForExtras /\ p \in Extras
                               /\ \E i \in 1..at : Order[i] = p
    /\ pc = "end" => \A p \in Deleted : Tidy(want, p)

RoundInv ==
  pc \notin {"idle", "load"} /\ Repairing =>
    SettledInv /\ SoundInv /\ AddedInv /\ FixedInv /\ CountInv /\ TidyInv

\* What n such repairs to one version leave: w is what its manifests say.
AllTidy(w) == \A p \in DOMAIN w : w[p] \in Gone => Tidy(w, p)
Leaves(w, n) ==
  /\ n >= 1 => \A p \in DOMAIN w :
                 w[p] \notin Gone /\ (n >= 2 \/ Parent[p] = Root) => RightAt(w, p)
  /\ n >= 3 => AllTidy(w)

\* And so it stays until the next one has its list of files.
Official(v) == Consolidated(v, Closure(v, Installed, FALSE))
PassesInv ==
  /\ passes.count \in Nat /\ (passes.count >= 1 => passes.version \in Versions)
  /\ pc = "load" => counts = {}
BetweenInv ==
  pc \in {"idle", "load"} \/ ~Writes =>
    /\ Leaves(Official(passes.version), passes.count)
    /\ pc = "idle" /\ Complete(req) /\ passes.count >= 2 /\ "not_replaced" \notin counts =>
         AllTidy(Official(passes.version))

----------------------------------------------------------------------------
(* The list is sorted.                                                     *)

\* w keeps the order of the first m paths.
InOrder(w, m) ==
  \A i, j \in DOMAIN w : i < j =>
    \E k, l \in 1..m : k < l /\ w[i] = Order[k] /\ w[j] = Order[l]
ComesFrom(w, m) == \A i \in DOMAIN w : \E k \in 1..m : w[i] = Order[k]

LEMMA KeptInOrder ==
  ASSUME NEW S
  PROVE  InOrder(Kept(S), Len(Order))
<1> DEFINE N == Len(Order)
           first == CHOOSE g : g = [i \in 0..N |-> IF i = 0 THEN <<>>
                      ELSE IF Order[i] \in S THEN Append(g[i - 1], Order[i]) ELSE g[i - 1]]
<1>1. /\ N \in Nat /\ \A i \in 1..N : Order[i] \in Paths
  BY RepairAssumption
<1>2. Kept(S) = first[N]
  BY DEF Kept
<1>3. \E g : IsKept(g, S, N)
  BY <1>1, KeptExists
<1>4. IsKept(first, S, N)
  BY <1>3 DEF IsKept
<1> HIDE DEF first, N
<1>5. \A i \in 0..N : first[i] = IF i = 0 THEN <<>>
             ELSE IF Order[i] \in S THEN Append(first[i - 1], Order[i]) ELSE first[i - 1]
  BY <1>4 DEF IsKept
<1> DEFINE T == {i \in 0..N : /\ first[i] \in Seq(Paths) /\ InOrder(first[i], i)
                              /\ ComesFrom(first[i], i)}
<1>6. 0 \in T
  <2>1. first[0] = <<>>
    BY <1>1, <1>5
  <2>3. <<>> \in Seq(Paths) /\ DOMAIN <<>> = {}
    OBVIOUS
  <2>2. InOrder(first[0], 0) /\ ComesFrom(first[0], 0)
    <3>1. DOMAIN first[0] = {}
      BY <2>1, <2>3, Zenon
    <3>2. \A w, m : DOMAIN w = {} => InOrder(w, m) /\ ComesFrom(w, m)
      BY DEF InOrder, ComesFrom
    <3> QED BY <3>1, <3>2
  <2>4. first[0] \in Seq(Paths)
    BY <2>1, <2>3, Zenon
  <2>5. 0 \in 0..N
    BY <1>1
  <2> QED BY <2>2, <2>4, <2>5
<1>7. ASSUME NEW m \in 1..N, m - 1 \in T PROVE m \in T
  <2> DEFINE v == first[m - 1]
             w == first[m]
  <2>1. v \in Seq(Paths) /\ InOrder(v, m - 1) /\ ComesFrom(v, m - 1)
    BY <1>7
  <2>2. w = IF Order[m] \in S THEN Append(v, Order[m]) ELSE v
    BY <1>5, <1>1
  <2>3. m \in 0..N /\ m \in Nat /\ Order[m] \in Paths
    BY <1>1
  <2> HIDE DEF v, w
  <2>4. \A k \in 1..(m - 1) : k \in 1..m /\ k < m
    BY <2>3
  <2>5. CASE w = v
    <3>1. InOrder(w, m) /\ ComesFrom(w, m)
      BY <2>1, <2>4, <2>5 DEF InOrder, ComesFrom
    <3> QED BY <2>1, <2>3, <2>5, <3>1 DEF w
  <2>6. CASE w = Append(v, Order[m])
    <3>1. /\ w \in Seq(Paths) /\ DOMAIN w = 1..(Len(v) + 1) /\ DOMAIN v = 1..Len(v)
          /\ Len(v) \in Nat
          /\ \A j \in 1..Len(v) : w[j] = v[j]
          /\ w[Len(v) + 1] = Order[m]
      BY <2>1, <2>3, <2>6
    <3>2. m \in 1..m
      BY <2>3
    <3>3. ComesFrom(w, m)
      <4> SUFFICES ASSUME NEW i \in DOMAIN w PROVE \E k \in 1..m : w[i] = Order[k]
        BY DEF ComesFrom
      <4>1. CASE i \in DOMAIN v
        BY <2>1, <2>4, <3>1, <4>1 DEF ComesFrom
      <4>2. CASE i = Len(v) + 1
        BY <3>1, <3>2, <4>2
      <4> QED BY <3>1, <4>1, <4>2
    <3>4. InOrder(w, m)
      <4> SUFFICES ASSUME NEW i \in DOMAIN w, NEW j \in DOMAIN w, i < j
                   PROVE  \E k, l \in 1..m : k < l /\ w[i] = Order[k] /\ w[j] = Order[l]
        BY DEF InOrder
      <4>1. i \in DOMAIN v
        BY <3>1
      <4>2. CASE j \in DOMAIN v
        <5>1. PICK k \in 1..(m - 1), l \in 1..(m - 1) :
                k < l /\ v[i] = Order[k] /\ v[j] = Order[l]
          BY <2>1, <4>1, <4>2 DEF InOrder
        <5> QED BY <2>4, <3>1, <4>1, <4>2, <5>1
      <4>3. CASE j = Len(v) + 1
        <5>1. PICK k \in 1..(m - 1) : v[i] = Order[k]
          BY <2>1, <4>1 DEF ComesFrom
        <5> QED BY <2>4, <3>1, <3>2, <4>1, <4>3, <5>1
      <4> QED BY <3>1, <4>2, <4>3
    <3> QED BY <2>3, <3>1, <3>3, <3>4 DEF w
  <2> QED BY <2>2, <2>5, <2>6
<1> HIDE DEF T
<1>8. \A i \in 0..N : i \in T
  BY <1>1, <1>6, <1>7, Induction
<1> QED BY <1>1, <1>2, <1>8 DEF T, N

\* A directory comes before what it holds, in the list as well.
LEMMA DirectoryFirst ==
  ASSUME NEW i \in DOMAIN Todo, NEW j \in DOMAIN Todo, Parent[Todo[j]] = Todo[i]
  PROVE  i < j
<1>1. DOMAIN Todo = 1..Len(Todo) /\ Len(Todo) \in Nat
      /\ Len(Order) \in Nat /\ DOMAIN Order = 1..Len(Order)
  BY TodoList
<1>2. Todo[i] \in Paths /\ Todo[j] \in Paths
  BY KeptList DEF Todo, Elements
<1>3. i # j
  BY <1>2, Parents
<1>4. ASSUME j < i PROVE FALSE
  <2> DEFINE L == Todo
  <2>0. InOrder(L, Len(Order))
    BY KeptInOrder DEF Todo
  <2> HIDE DEF L
  <2>3. i \in DOMAIN L /\ j \in DOMAIN L
    BY DEF L
  <2>4. PICK k \in 1..Len(Order), l \in 1..Len(Order) :
          k < l /\ L[j] = Order[k] /\ L[i] = Order[l]
    BY <1>4, <2>0, <2>3 DEF InOrder
  <2>1. k < l /\ Todo[j] = Order[k] /\ Todo[i] = Order[l]
    BY <2>4 DEF L
  <2>2. l < k
    BY <1>1, <2>1, TreeAssumption
  <2> QED BY <1>1, <2>1, <2>2
<1> QED BY <1>1, <1>3, <1>4

----------------------------------------------------------------------------
(* What a complete repair is about.                                        *)

\* A file of the manifests has its directory in them.
LEMMA TreeEntry ==
  ASSUME NEW v \in Versions, NEW S \in SUBSET Listed(v),
         NEW p \in DOMAIN Consolidated(v, S),
         Consolidated(v, S)[p] \notin Gone, Parent[p] # Root
  PROVE  /\ Parent[p] \in DOMAIN Consolidated(v, S) /\ Consolidated(v, S)[Parent[p]] = "dir"
         /\ Parent[p] \notin StateFiles /\ Parent[Parent[p]] = Root /\ p \in Paths
<1>1. PICK b \in S : /\ p \in DOMAIN Catalog[v][b].files
                     /\ Consolidated(v, S)[p] = Catalog[v][b].files[p]
  BY EntryOf
<1>2. b \in Bundles /\ p \in Paths
  BY ConsolidatedType DEF Listed
<1>3. /\ Parent[p] \in DOMAIN Catalog[v][b].files /\ Catalog[v][b].files[Parent[p]] = "dir"
      /\ Parent[p] \notin StateFiles
  BY <1>1, <1>2, TreeAssumption
<1>4. "dir" \notin Gone
  BY DEF Gone
<1>5. Parent[p] \in DOMAIN Consolidated(v, S) /\ Consolidated(v, S)[Parent[p]] = "dir"
  BY <1>1, <1>3, <1>4, EntryIs
<1> QED BY <1>2, <1>3, <1>5, RepairAssumption

\* It works through every file of every installed bundle, and looks at all of them as
\* they are.
CompleteFacts ==
  /\ req.command = "repair" /\ req.bundles = {} /\ ~req.quick /\ ~req.extra /\ req.file = Root
  /\ Writes /\ Repairs /\ ~Installs /\ ~OnlyExtras /\ \A p : Matches(p)
  /\ want = Official(version) /\ version \in Versions /\ DOMAIN want \subseteq Paths
  /\ \A p \in DOMAIN want : want[p] # "absent"
  /\ \A p \in Wanted : Parent[p] # Root =>
       /\ Parent[p] \in Wanted /\ want[Parent[p]] = "dir" /\ Parent[p] \notin StateFiles
       /\ Parent[Parent[p]] = Root /\ Parent[p] \in Paths
  /\ Elements(Todo) = DOMAIN want

LEMMA CompleteRepair ==
  ASSUME PInv, pc \notin {"idle", "load"}, Complete(req)
  PROVE  CompleteFacts
<1>1. req.command = "repair" /\ req.bundles = {} /\ ~req.quick /\ ~req.extra /\ req.file = Root
  BY DEF Complete
<1>2. /\ Writes /\ Repairs /\ ~Installs /\ ~OnlyExtras /\ \A p : Matches(p)
  BY <1>1 DEF Writes, Repairs, Installs, OnlyExtras, Matches
<1>3. version \in Versions
  BY DEF PInv, TypeInv
<1>4. want = Consolidated(version, All) /\ All \in SUBSET Listed(version)
  BY <1>1, WorkedBundles DEF PInv, WantInv
<1>5. All = Closure(version, Installed, FALSE)
  <2>1. Installed \union Chosen = Installed /\ WithOptional = FALSE
    BY <1>1, <1>2, WorkedBundles DEF WithOptional
  <2> QED BY <2>1, Zenon DEF All
<1>6. DOMAIN want \subseteq Paths /\ \A p \in DOMAIN want : want[p] # "absent"
  BY <1>3, <1>4, ConsolidatedType
<1>7. ASSUME NEW p \in Wanted, Parent[p] # Root
      PROVE  /\ Parent[p] \in Wanted /\ want[Parent[p]] = "dir" /\ Parent[p] \notin StateFiles
             /\ Parent[Parent[p]] = Root /\ Parent[p] \in Paths
  <2>1. p \in DOMAIN want /\ want[p] \notin Gone
    BY DEF Wanted
  <2>2. /\ Parent[p] \in DOMAIN want /\ want[Parent[p]] = "dir"
        /\ Parent[p] \notin StateFiles /\ Parent[Parent[p]] = Root
    BY <1>3, <1>4, <1>7, <2>1, TreeEntry
  <2> QED BY <1>6, <2>2 DEF Wanted, Gone
<1>8. Elements(Todo) = DOMAIN want
  BY <1>2, <1>6, TodoList
<1> QED BY <1>1, <1>2, <1>3, <1>4, <1>5, <1>6, <1>7, <1>8 DEF CompleteFacts, Official

----------------------------------------------------------------------------
(* The steps of a complete repair in which nothing fails.                  *)

LEMMA RunFrame ==
  ASSUME PInv, [Next]_vars, pc \notin {"idle", "load"}, pc' \notin {"idle", "load"}
  PROVE  /\ req' = req /\ version' = version /\ want' = want /\ passes' = passes
         /\ calm' => calm
<1>1. ~Starts /\ ~Loaded
  BY DEF Starts, RepairMain, InstallMain, DiagnoseMain, VerifyMain, Begin, Loaded
<1>2. req' = req /\ version' = version /\ want' = want
  BY <1>1, RequestKept
<1>3. passes' = passes /\ (calm' => calm)
  BY <1>1 DEF Next, Step, Starts, LoadRefused, LoadFails, Skip, Prepare, PrepareFails, AddPass,
       AddMissing, AddJudge, AddDone, FixPass, FixMismatch, FixJudge, FixDone, RemovePass,
       RemoveOrphan, RemoveDone, ExtraPass, ExtraLeft, ExtraLeftStays, ExtraFile, ExtraDone,
       Finish, Kill, Rest,
       Install, Stage, StageRefused, StageFails, Rename, Remove, GiveUp, Fault
<1> QED BY <1>2, <1>3

LEMMA RunSame ==
  ASSUME req' = req, version' = version, want' = want, passes' = passes
  PROVE  /\ Todo' = Todo /\ Round' = Round /\ Wanted' = Wanted /\ Deleted' = Deleted
         /\ Settled' = Settled /\ Firm' = Firm /\ Heuristics' = Heuristics
         /\ PickyTree' = PickyTree /\ Extras' = Extras /\ LooksForExtras' = LooksForExtras
         /\ at' = at => Item' = Item
<1>1. /\ Todo' = Todo /\ Heuristics' = Heuristics /\ \A p : Matches(p)' = Matches(p)
      /\ at' = at => Item' = Item
  BY TodoKept
<1>2. Round' = Round /\ Wanted' = Wanted /\ Deleted' = Deleted
  BY DEF Round, Wanted, Deleted
<1>3. Settled' = Settled /\ Firm' = Firm
  BY <1>2 DEF Settled, Firm
<1>4. PickyTree' = PickyTree
  BY <1>1 DEF PickyTree
<1>5. Extras' = Extras /\ LooksForExtras' = LooksForExtras
  BY <1>4 DEF Extras, LooksForExtras
<1> QED BY <1>1, <1>2, <1>3, <1>4, <1>5

\* A file that can be put right lies in a directory that is one.
AllSettled == \A p \in Settled : RightAt(want, p)

LEMMA RoundType ==
  ASSUME passes.count \in Nat
  PROVE  Round \in Nat
BY DEF Round

LEMMA FirmReal ==
  ASSUME CompleteFacts, PassesInv, AllSettled, NEW p \in Firm
  PROVE  /\ InRealDir(p) /\ Seen(p) = disk[p]
         /\ p \in Wanted /\ p \in DOMAIN want /\ want[p] \notin Gone /\ want[p] # "absent"
<1>1. p \in Wanted /\ p \in DOMAIN want /\ want[p] \notin Gone /\ want[p] # "absent"
  BY DEF Firm, Wanted, CompleteFacts
<1>2. CASE Parent[p] = Root
  BY <1>1, <1>2 DEF InRealDir, Seen
<1>3. CASE Parent[p] # Root
  <2>1. /\ Parent[p] \in Wanted /\ want[Parent[p]] = "dir" /\ Parent[p] \notin StateFiles
        /\ Parent[Parent[p]] = Root /\ Parent[p] \in Paths
    BY <1>1, <1>3 DEF CompleteFacts
  <2>2. Round >= 1
    BY <1>3 DEF Firm
  <2>3. Parent[p] \in Settled
    BY <2>1, <2>2 DEF Settled
  <2>4. disk[Parent[p]] = "dir"
    BY <2>1, <2>3 DEF AllSettled, RightAt
  <2> QED BY <1>1, <1>3, <2>1, <2>4 DEF InRealDir, Seen
<1> QED BY <1>2, <1>3

LEMMA SettledFirm ==
  ASSUME PassesInv
  PROVE  /\ Settled \subseteq Firm /\ Firm \subseteq Wanted
         /\ Round >= 1 => Firm = Wanted
         /\ Round >= 2 => Settled = Wanted
         /\ Wanted \intersect Deleted = {}
<1>1. Round \in Nat
  BY RoundType DEF PassesInv
<1> QED BY <1>1 DEF Settled, Firm, Wanted, Deleted

\* Putting a file in place touches nothing else but its directory, which becomes one.
LEMMA CalmInstall ==
  ASSUME PInv, CompleteFacts, Installing, calm'
  PROVE  /\ pc \in Staging /\ pc' \in Staging /\ Item \in Wanted /\ Item \in Paths
         /\ at' = at /\ sound' = sound /\ counts' = counts
         /\ pc \in Adding <=> pc' \in Adding
         /\ pc \in Fixing <=> pc' \in Fixing
         /\ \A q \in Paths : q # Item =>
              disk'[q] = disk[q] \/ (q \in Wanted /\ disk'[q] = want[q])
         /\ \/ pc \in {"add_stage", "fix_stage"} /\ pc' = (IF pc = "add_stage" THEN "add_rename" ELSE "fix_rename")
            \/ ~InRealDir(Item) /\ disk' = disk /\ pc' \in {"add_judge", "fix_judge"}
            \/ disk'[Item] = want[Item] /\ pc' \in {"add_judge", "fix_judge"}
<1>1. /\ pc \in Staging /\ pc' \in Staging /\ at' = at /\ sound' = sound /\ counts' = counts
      /\ pc \in Adding <=> pc' \in Adding
      /\ pc \in Fixing <=> pc' \in Fixing
  BY DEF Installing, Install, Stage, StageRefused, StageFails, Rename, Staging, Adding, Fixing
<1>2. Item \in Wanted /\ Item \in Paths
  BY <1>1, StagedItem DEF Wanted
<1>3. IsDisk(disk)
  BY DEF PInv, TypeInv, IsDisk
<1> DEFINE o == Opened(Item)
           c == Cleared(Item, o)
           d == With(o, Item, "dir")
           r == With(disk, Item, want[Item])
<1>4. /\ IsDisk(o)
      /\ \A q \in Paths : o[q] = IF ~LeadsToDir(Item) /\ q = Parent[Item] THEN "dir" ELSE disk[q]
  BY <1>2, <1>3, OpenedDisk
<1> HIDE DEF o
<1>5. /\ IsDisk(c)
      /\ \A q \in Paths : c[q] = o[q] \/ q = Item
  BY <1>2, <1>4, ClearedDisk
<1> HIDE DEF c
<1>6. \A q \in Paths : d[q] = IF q = Item THEN "dir" ELSE o[q]
  BY <1>4, DiskExcept
<1> HIDE DEF d
<1>7. \A q \in Paths : r[q] = IF q = Item THEN want[Item] ELSE disk[q]
  BY <1>3, DiskExcept
<1> HIDE DEF r
<1>8. ASSUME CanStage(Item), NEW q \in Paths, o[q] # disk[q]
      PROVE  q \in Wanted /\ o[q] = want[q]
  <2>1. ~LeadsToDir(Item) /\ q = Parent[Item] /\ o[q] = "dir"
    BY <1>4, <1>8
  <2>2. ~InRealDir(Item)
    BY <2>1 DEF LeadsToDir, InRealDir
  <2> QED BY <1>8, <2>1, <2>2 DEF CanStage, Fixable, Wanted, Gone
<1>9. CASE Stage("add_stage", "add_rename") \/ Stage("fix_stage", "fix_rename")
  <2>1. /\ CanStage(Item) /\ disk' \in {d, c}
        /\ pc \in {"add_stage", "fix_stage"}
        /\ pc' = IF pc = "add_stage" THEN "add_rename" ELSE "fix_rename"
    BY <1>9 DEF Stage, o, c, d, With
  <2>2. \A q \in Paths : q # Item => disk'[q] = o[q]
    BY <1>5, <1>6, <2>1
  <2>3. \A q \in Paths : q # Item => disk'[q] = disk[q] \/ (q \in Wanted /\ disk'[q] = want[q])
    BY <1>8, <2>1, <2>2
  <2> QED BY <1>1, <1>2, <2>1, <2>3
<1>10. CASE StageRefused("add_stage", "add_judge") \/ StageRefused("fix_stage", "fix_judge")
  <2>1. ~CanStage(Item) /\ disk' = disk /\ pc' \in {"add_judge", "fix_judge"}
    BY <1>10 DEF StageRefused
  <2> QED BY <1>1, <1>2, <2>1 DEF CanStage
<1>11. CASE StageFails("add_stage", "add_judge") \/ StageFails("fix_stage", "fix_judge")
  BY <1>11 DEF StageFails, Fault
<1>12. CASE Rename("add_rename", "add_judge") \/ Rename("fix_rename", "fix_judge")
  <2>1. disk' = r /\ pc' \in {"add_judge", "fix_judge"}
    BY <1>12 DEF Rename, Fault, r, With
  <2> QED BY <1>1, <1>2, <1>7, <2>1
<1> QED BY <1>9, <1>10, <1>11, <1>12 DEF Installing, Install

\* The paths that go are none that are wanted; and whatever goes was not a directory with
\* something in it.
Takes(x) ==
  /\ x \in Paths /\ x \notin Wanted
  /\ \A q \in Paths : q # x => disk'[q] = disk[q]
  /\ disk'[x] = "absent" \/ (disk'[x] = "dir" /\ disk[x] = "dir" /\ ~Empty(x))

LEMMA CalmRemove ==
  ASSUME PInv, calm', NEW x \in Paths, x \notin Wanted, Remove(x)
  PROVE  /\ Takes(x)
         /\ counts \subseteq counts' /\ counts' \subseteq counts \union {"extraneous", "not_deleted"}
<1>1. IsDisk(disk)
  BY DEF PInv, TypeInv, IsDisk
<1>2. CASE disk' = [disk EXCEPT ![x] = "absent"] /\ counts' = counts \union {"extraneous"}
  <2>1. disk' = With(disk, x, "absent")
    BY <1>2 DEF With
  <2>2. \A q \in Paths : disk'[q] = IF q = x THEN "absent" ELSE disk[q]
    BY <1>1, <2>1, DiskExcept
  <2>3. Takes(x)
    BY <2>2 DEF Takes
  <2> QED BY <1>2, <2>3
<1>3. CASE disk[x] = "dir" /\ ~Empty(x) /\ disk' = disk /\ counts' = counts \union {"extraneous", "not_deleted"}
  BY <1>3 DEF Takes
<1> QED BY <1>2, <1>3 DEF Remove, Fault

\* A step of such a repair, and what it leaves alone.
RoundParts == SettledInv /\ SoundInv /\ AddedInv /\ FixedInv /\ CountInv /\ TidyInv
RoundStep ==
  /\ PInv /\ CompleteFacts /\ PassesInv /\ RoundParts
  /\ pc \notin {"idle", "load"} /\ pc' \notin {"idle", "load"} /\ calm'
  /\ req' = req /\ version' = version /\ want' = want /\ passes' = passes

LEMMA RoundNames ==
  ASSUME RoundStep
  PROVE  /\ Todo' = Todo /\ Round' = Round /\ Wanted' = Wanted /\ Deleted' = Deleted
         /\ Settled' = Settled /\ Firm' = Firm /\ Heuristics' = Heuristics
         /\ PickyTree' = PickyTree /\ Extras' = Extras /\ LooksForExtras' = LooksForExtras
         /\ at' = at => Item' = Item
BY RunSame DEF RoundStep

LEMMA RoundFacts ==
  ASSUME RoundStep
  PROVE  /\ Len(Todo) \in Nat /\ DOMAIN Todo = 1..Len(Todo)
         /\ \A i \in DOMAIN Todo : Todo[i] \in DOMAIN want
         /\ \A p \in DOMAIN want : p \in Paths /\ want[p] # "absent"
                                   /\ \E i \in DOMAIN Todo : Todo[i] = p
         /\ Settled \subseteq Firm /\ Firm \subseteq Wanted
         /\ Wanted \subseteq DOMAIN want /\ Deleted \subseteq DOMAIN want
         /\ Wanted \intersect Deleted = {}
         /\ \A p \in Firm : InRealDir(p) /\ Seen(p) = disk[p]
         /\ Round \in Nat
<1>1. CompleteFacts /\ PassesInv /\ AllSettled
  BY DEF RoundStep, RoundParts, SettledInv, AllSettled
<1>2. \A p \in DOMAIN want : \E i \in DOMAIN Todo : Todo[i] = p
  BY <1>1 DEF CompleteFacts, Elements
<1>3. \A p \in DOMAIN want : p \in Paths /\ want[p] # "absent"
  BY <1>1 DEF CompleteFacts
<1>4. Wanted \subseteq DOMAIN want /\ Deleted \subseteq DOMAIN want
  BY DEF Wanted, Deleted
<1> QED BY <1>1, <1>2, <1>3, <1>4, TodoList, FirmReal, SettledFirm, RoundType DEF PassesInv

\* The parts of the invariant, from one control point to the next.
LEMMA PrepareRound ==
  ASSUME RoundStep, Prepare
  PROVE  RoundParts'
<1>1. /\ pc = "prepare" /\ pc' = "add" /\ at' = 1 /\ sound' = Intact /\ counts' = counts
      /\ disk' = disk /\ Writes
  BY DEF RoundStep, Prepare, GiveUp, CompleteFacts
<1>2. counts = {} /\ AllSettled
  BY <1>1 DEF RoundStep, RoundParts, CountInv, SettledInv, AllSettled
<1>3. SettledInv'
  BY <1>1, <1>2, RoundNames DEF SettledInv, AllSettled, RightAt, Staging, RoundStep
<1>4. SoundInv'
  <2>1. Intact \subseteq Wanted
    BY RoundFacts DEF Intact, Wanted, Elements
  <2>2. \A p \in Intact \intersect Firm : disk[p] = want[p]
    BY RoundFacts DEF Intact, Verified, RoundStep, CompleteFacts
  <2> QED BY <1>1, <2>1, <2>2, RoundNames DEF SoundInv, Fixing, RoundStep
<1>5. AddedInv' /\ FixedInv'
  BY <1>1, RoundNames, RoundFacts DEF AddedInv, FixedInv, Fixing
<1>6. CountInv' /\ TidyInv'
  BY <1>1, <1>2 DEF CountInv, TidyInv
<1> QED BY <1>3, <1>4, <1>5, <1>6 DEF RoundParts

LEMMA InstallRound ==
  ASSUME RoundStep, Installing
  PROVE  RoundParts'
<1>1. /\ pc \in Staging /\ pc' \in Staging /\ Item \in Wanted /\ Item \in Paths
      /\ at' = at /\ sound' = sound /\ counts' = counts
      /\ pc \in Adding <=> pc' \in Adding
      /\ pc \in Fixing <=> pc' \in Fixing
      /\ \A q \in Paths : q # Item =>
           disk'[q] = disk[q] \/ (q \in Wanted /\ disk'[q] = want[q])
      /\ \/ pc \in {"add_stage", "fix_stage"} /\ pc' = (IF pc = "add_stage" THEN "add_rename" ELSE "fix_rename")
         \/ ~InRealDir(Item) /\ disk' = disk /\ pc' \in {"add_judge", "fix_judge"}
         \/ disk'[Item] = want[Item] /\ pc' \in {"add_judge", "fix_judge"}
  BY CalmInstall DEF RoundStep
<1>2. Item' = Item /\ Todo' = Todo /\ Settled' = Settled /\ Firm' = Firm /\ Wanted' = Wanted
      /\ Heuristics' = Heuristics /\ want' = want /\ Round' = Round
  BY <1>1, RoundNames DEF RoundStep
<1>3. SettledInv /\ SoundInv /\ AddedInv /\ FixedInv /\ CountInv
  BY DEF RoundStep, RoundParts
<1>4. Item \notin Settled /\ Item \notin sound
  BY <1>1, <1>3 DEF SettledInv
<1>5. \A q \in Firm : q # Item => disk'[q] = disk[q] \/ disk'[q] = want[q]
  BY <1>1, RoundFacts
<1>6. SettledInv'
  <2>1. \A p \in Settled : RightAt(want, p)'
    BY <1>2, <1>3, <1>4, <1>5, RoundFacts DEF SettledInv, RightAt
  <2> QED BY <1>1, <1>2, <1>4, <2>1 DEF SettledInv
<1>7. SoundInv'
  <2>1. pc' \in Adding => \A p \in sound \intersect Firm : disk'[p] = want[p]
    BY <1>1, <1>3, <1>4, <1>5 DEF SoundInv
  <2>2. pc' \in Fixing => \A p \in sound \intersect Firm : RightAt(want, p)'
    BY <1>1, <1>2, <1>3, <1>4, <1>5, RoundFacts DEF SoundInv, RightAt
  <2>3. /\ pc' \in Adding => sound \subseteq Wanted
        /\ pc' \in Fixing \union {"remove"} => sound \subseteq Wanted \union Heuristics
    BY <1>1, <1>3 DEF SoundInv, Staging
  <2> QED BY <1>1, <1>2, <2>1, <2>2, <2>3 DEF SoundInv
<1>8. AddedInv'
  <2>1. pc' \in Adding =>
          \A j \in DOMAIN Todo : j < at /\ Todo[j] \in Firm /\ Todo[j] # Item =>
            disk'[Todo[j]] # "absent"
    BY <1>1, <1>3, <1>5, RoundFacts DEF AddedInv
  <2>2. pc' \in Fixing => \A p \in Firm : disk'[p] # "absent" \/ (pc' = "fix_rename" /\ p = Item)
    <3> SUFFICES ASSUME pc' \in Fixing, NEW p \in Firm
                 PROVE  disk'[p] # "absent" \/ (pc' = "fix_rename" /\ p = Item)
      OBVIOUS
    <3>1. CASE p # Item
      BY <1>1, <1>3, <1>5, <3>1, RoundFacts DEF AddedInv
    <3>2. CASE p = Item
      <4>1. InRealDir(Item) /\ want[Item] # "absent"
        BY <3>2, RoundFacts
      <4>2. pc # "add_stage"
        BY <1>1 DEF Fixing
      <4> QED BY <1>1, <3>2, <4>1, <4>2
    <3> QED BY <3>1, <3>2
  <2> QED BY <1>1, <1>2, <2>1, <2>2 DEF AddedInv
<1>9. FixedInv'
  <2>1. pc' \in Fixing =>
          \A j \in DOMAIN Todo : j < at /\ Todo[j] \in Firm /\ Todo[j] # Item =>
            RightAt(want, Todo[j])'
    BY <1>1, <1>2, <1>3, <1>5, RoundFacts DEF FixedInv, RightAt
  <2>2. pc' \in {"add_judge", "fix_judge"} /\ Item \in Firm => disk'[Item] = want[Item]
    BY <1>1, RoundFacts
  <2> QED BY <1>1, <1>2, <2>1, <2>2 DEF FixedInv, Staging
<1>10. CountInv' /\ TidyInv'
  BY <1>1, <1>2, <1>3 DEF CountInv, TidyInv, Staging
<1> QED BY <1>6, <1>7, <1>8, <1>9, <1>10 DEF RoundParts

LEMMA AddRound ==
  ASSUME RoundStep, AddPass \/ AddMissing \/ AddJudge \/ AddDone
  PROVE  RoundParts'
<1>1. /\ Todo' = Todo /\ Settled' = Settled /\ Firm' = Firm /\ Wanted' = Wanted
      /\ Heuristics' = Heuristics /\ want' = want /\ Round' = Round
      /\ disk' = disk
      /\ at' = at => Item' = Item
  BY RoundNames DEF RoundStep, AddPass, AddMissing, AddJudge, AddDone
<1>2. SettledInv /\ SoundInv /\ AddedInv /\ FixedInv /\ CountInv
  BY DEF RoundStep, RoundParts
<1>3. \A p : RightAt(want, p)' <=> RightAt(want, p)
  BY <1>1 DEF RightAt
<1>4. /\ pc \in {"add", "add_judge"} /\ at \in Nat /\ at >= 1
      /\ ~req.quick /\ ~Installs /\ Writes
  <2>1. pc \in {"add", "add_judge"}
    BY DEF AddPass, AddMissing, AddJudge, AddDone
  <2> QED BY <2>1 DEF RoundStep, PInv, AtInv, Staging, CompleteFacts
<1>5. sound \subseteq Wanted /\ \A p \in sound \intersect Firm : disk[p] = want[p]
  BY <1>2, <1>4 DEF SoundInv, Adding
<1>6. CASE AddPass
  <2>1. /\ pc = "add" /\ pc' = "add" /\ at <= Len(Todo) /\ at' = at + 1
        /\ sound' = sound /\ counts' = counts
        /\ want[Item] \in Gone \/ Item \in sound \/ Seen(Item) # "absent"
    BY <1>6 DEF AddPass, MoveOn
  <2>2. SettledInv' /\ SoundInv' /\ FixedInv' /\ CountInv' /\ TidyInv'
    BY <1>1, <1>2, <1>3, <1>5, <2>1 DEF SettledInv, SoundInv, FixedInv, CountInv, TidyInv, Staging, Adding, Fixing
  <2>3. AddedInv'
    <3> SUFFICES ASSUME NEW j \in DOMAIN Todo, j < at + 1, Todo[j] \in Firm
                 PROVE  disk[Todo[j]] # "absent"
      BY <1>1, <2>1 DEF AddedInv, Fixing
    <3>1. CASE j < at
      BY <1>2, <2>1, <3>1 DEF AddedInv, Adding, Staging
    <3>2. CASE j = at
      <4>1. Item = Todo[j]
        BY <3>2 DEF Item
      <4>2. want[Item] \notin Gone /\ Seen(Item) = disk[Item] /\ want[Item] # "absent"
        BY <4>1, RoundFacts DEF Wanted
      <4> QED BY <1>5, <2>1, <4>1, <4>2
    <3> QED BY <1>4, <3>1, <3>2, RoundFacts
  <2> QED BY <2>2, <2>3 DEF RoundParts
<1>7. CASE AddMissing
  <2>1. /\ pc = "add" /\ pc' = "add_stage" /\ at' = at /\ sound' = sound
        /\ counts' = counts \union {"missing"}
        /\ want[Item] \notin Gone /\ Item \notin sound /\ Seen(Item) = "absent"
    BY <1>4, <1>7 DEF AddMissing, MoveOn
  <2>2. Item \notin Settled
    BY <1>2, <2>1, RoundFacts DEF SettledInv, RightAt
  <2>3. SettledInv'
    BY <1>1, <1>2, <1>3, <2>1, <2>2 DEF SettledInv
  <2>4. SoundInv' /\ FixedInv' /\ CountInv' /\ TidyInv'
    BY <1>1, <1>2, <1>3, <1>5, <2>1 DEF SoundInv, FixedInv, CountInv, TidyInv, Adding, Fixing
  <2>5. AddedInv'
    BY <1>1, <1>2, <2>1 DEF AddedInv, Adding, Fixing, Staging
  <2> QED BY <2>3, <2>4, <2>5 DEF RoundParts
<1>8. CASE AddJudge
  <2>1. /\ pc = "add_judge" /\ pc' = "add" /\ at' = at + 1
        /\ sound' = IF Replaced(Item) THEN sound \union {Item} ELSE sound
        /\ counts' = IF Replaced(Item) THEN counts ELSE counts \union {"not_replaced"}
        /\ Replaced(Item) => Seen(Item) = want[Item]
    BY <1>4, <1>8 DEF AddJudge, MoveOn, Replaced
  <2>2. Item \in Wanted /\ Item \notin Settled
    BY <1>2, <2>1, StagedItem DEF SettledInv, Staging, RoundStep, Wanted
  <2>3. SettledInv' /\ FixedInv' /\ TidyInv'
    BY <1>1, <1>2, <1>3, <2>1 DEF SettledInv, FixedInv, TidyInv, Staging, Fixing
  <2>4. SoundInv'
    BY <1>1, <1>5, <2>1, <2>2, RoundFacts DEF SoundInv, Fixing
  <2>5. CountInv'
    <3>1. Round < 2
      BY <2>2, RoundFacts, SettledFirm DEF RoundStep
    <3> QED BY <1>1, <1>2, <2>1, <3>1, RoundFacts DEF CountInv
  <2>6. AddedInv'
    <3> SUFFICES ASSUME NEW j \in DOMAIN Todo, j < at + 1, Todo[j] \in Firm
                 PROVE  disk[Todo[j]] # "absent"
      BY <1>1, <2>1 DEF AddedInv, Fixing
    <3>1. CASE Todo[j] # Item
      <4>1. j < at
        BY <1>4, <3>1, RoundFacts DEF Item
      <4> QED BY <1>2, <2>1, <3>1, <4>1 DEF AddedInv, Adding
    <3>2. CASE Todo[j] = Item
      BY <1>2, <2>1, <3>2, RoundFacts DEF FixedInv
    <3> QED BY <3>1, <3>2
  <2> QED BY <2>3, <2>4, <2>5, <2>6 DEF RoundParts
<1>9. CASE AddDone
  <2>1. /\ pc = "add" /\ at > Len(Todo) /\ pc' = "fix" /\ at' = 1
        /\ sound' = sound \union Heuristics /\ counts' = counts
    BY <1>4, <1>9 DEF AddDone
  <2>2. \A p \in Firm : disk[p] # "absent"
    <3> SUFFICES ASSUME NEW p \in Firm PROVE disk[p] # "absent"
      OBVIOUS
    <3>1. PICK j \in DOMAIN Todo : Todo[j] = p
      BY RoundFacts
    <3>2. j < at
      BY <1>4, <2>1, RoundFacts
    <3> QED BY <1>2, <2>1, <3>1, <3>2 DEF AddedInv, Adding, Staging
  <2>3. SettledInv' /\ CountInv' /\ TidyInv'
    BY <1>1, <1>2, <1>3, <2>1 DEF SettledInv, CountInv, TidyInv, Staging
  <2>4. SoundInv'
    <3>1. \A p \in Heuristics \intersect Firm : RightAt(want, p)
      BY <2>2, RoundFacts DEF Heuristics, RightAt, Wanted, Gone
    <3>2. \A p \in sound \intersect Firm : RightAt(want, p)
      BY <1>5 DEF RightAt
    <3> QED BY <1>1, <1>3, <1>5, <2>1, <3>1, <3>2 DEF SoundInv, Adding
  <2>5. AddedInv' /\ FixedInv'
    BY <1>1, <2>1, <2>2, RoundFacts DEF AddedInv, FixedInv, Adding
  <2> QED BY <2>3, <2>4, <2>5 DEF RoundParts
<1> QED BY <1>6, <1>7, <1>8, <1>9

LEMMA FixRound ==
  ASSUME RoundStep, FixPass \/ FixMismatch \/ FixJudge \/ FixDone
  PROVE  RoundParts'
<1>1. /\ Todo' = Todo /\ Settled' = Settled /\ Firm' = Firm /\ Wanted' = Wanted
      /\ Heuristics' = Heuristics /\ want' = want /\ Round' = Round
      /\ disk' = disk /\ sound' = sound
      /\ at' = at => Item' = Item
  BY RoundNames DEF RoundStep, FixPass, FixMismatch, FixJudge, FixDone
<1>2. SettledInv /\ SoundInv /\ AddedInv /\ FixedInv /\ CountInv
  BY DEF RoundStep, RoundParts
<1>3. \A p : RightAt(want, p)' <=> RightAt(want, p)
  BY <1>1 DEF RightAt
<1>4. /\ pc \in {"fix", "fix_judge"} /\ at \in Nat /\ at >= 1 /\ Repairs
      /\ Heuristics \subseteq sound
  <2>1. pc \in {"fix", "fix_judge"}
    BY DEF FixPass, FixMismatch, FixJudge, FixDone
  <2> QED BY <2>1 DEF RoundStep, PInv, AtInv, RemoveInv, Heeded, Staging, CompleteFacts
<1>5. /\ \A p \in sound \intersect Firm : RightAt(want, p)
      /\ sound \subseteq Wanted \union Heuristics
      /\ \A p \in Firm : disk[p] # "absent"
  BY <1>2, <1>4 DEF SoundInv, AddedInv, Fixing
<1>6. CASE FixPass
  <2>1. /\ pc = "fix" /\ pc' = "fix" /\ at <= Len(Todo) /\ at' = at + 1
        /\ counts' = counts /\ ~Corrupt(Item)
    BY <1>6 DEF FixPass, MoveOn
  <2>2. SettledInv' /\ SoundInv' /\ AddedInv' /\ CountInv' /\ TidyInv'
    BY <1>1, <1>2, <1>3, <1>5, <2>1
       DEF SettledInv, SoundInv, AddedInv, CountInv, TidyInv, Staging, Adding
  <2>3. FixedInv'
    <3> SUFFICES ASSUME NEW j \in DOMAIN Todo, j < at + 1, Todo[j] \in Firm
                 PROVE  RightAt(want, Todo[j])
      BY <1>1, <1>3, <2>1 DEF FixedInv
    <3>1. CASE j < at
      BY <1>2, <2>1, <3>1 DEF FixedInv, Fixing, Staging
    <3>2. CASE j = at
      <4>1. Item = Todo[j]
        BY <3>2 DEF Item
      <4>2. want[Item] \notin Gone /\ Seen(Item) = disk[Item] /\ disk[Item] # "absent"
        BY <1>5, <4>1, RoundFacts DEF Wanted
      <4>3. CASE Item \in sound
        BY <1>5, <4>1, <4>3
      <4>4. CASE disk[Item] = want[Item]
        BY <4>1, <4>4 DEF RightAt
      <4> QED BY <2>1, <4>2, <4>3, <4>4 DEF Corrupt
    <3> QED BY <1>4, <3>1, <3>2, RoundFacts
  <2> QED BY <2>2, <2>3 DEF RoundParts
<1>7. CASE FixMismatch
  <2>1. /\ pc = "fix" /\ pc' = "fix_stage" /\ at' = at /\ counts' = counts \union {"mismatch"}
        /\ want[Item] \notin Gone /\ Item \notin sound /\ Seen(Item) # want[Item]
        /\ at <= Len(Todo)
    BY <1>4, <1>7 DEF FixMismatch, Corrupt, MoveOn
  <2>2. Item \notin Settled
    <3> SUFFICES ASSUME Item \in Settled PROVE FALSE
      OBVIOUS
    <3>1. RightAt(want, Item) /\ Seen(Item) = disk[Item] /\ Item \in DOMAIN want
      BY <1>2, RoundFacts DEF SettledInv
    <3>2. Item \notin StateFiles
      BY <1>4, <2>1, <3>1 DEF Heuristics
    <3> QED BY <2>1, <3>1, <3>2 DEF RightAt
  <2>3. SettledInv'
    BY <1>1, <1>2, <1>3, <2>1, <2>2 DEF SettledInv
  <2>4. SoundInv' /\ CountInv' /\ TidyInv'
    BY <1>1, <1>2, <1>3, <1>5, <2>1 DEF SoundInv, CountInv, TidyInv, Adding
  <2>5. AddedInv' /\ FixedInv'
    BY <1>1, <1>2, <1>3, <1>5, <2>1 DEF AddedInv, FixedInv, Adding, Fixing, Staging
  <2> QED BY <2>3, <2>4, <2>5 DEF RoundParts
<1>8. CASE FixJudge
  <2>1. /\ pc = "fix_judge" /\ pc' = "fix" /\ at' = at + 1
        /\ counts' = IF Seen(Item) = want[Item] THEN counts ELSE counts \union {"not_fixed"}
    BY <1>8 DEF FixJudge, MoveOn
  <2>2. Item \in Wanted
    BY <2>1, StagedItem DEF Staging, RoundStep, Wanted
  <2>3. SettledInv' /\ SoundInv' /\ AddedInv' /\ TidyInv'
    BY <1>1, <1>2, <1>3, <1>5, <2>1 DEF SettledInv, SoundInv, AddedInv, TidyInv, Staging, Adding
  <2>4. CountInv'
    <3>1. Round >= 1 => Seen(Item) = want[Item]
      <4> SUFFICES ASSUME Round >= 1 PROVE Seen(Item) = want[Item]
        OBVIOUS
      <4>1. Item \in Firm
        BY <2>2, SettledFirm DEF RoundStep
      <4>2. disk[Item] = want[Item]
        BY <1>2, <2>1, <4>1 DEF FixedInv
      <4> QED BY <4>1, <4>2, RoundFacts
    <3> QED BY <1>1, <1>2, <2>1, <3>1, RoundFacts DEF CountInv
  <2>5. FixedInv'
    <3> SUFFICES ASSUME NEW j \in DOMAIN Todo, j < at + 1, Todo[j] \in Firm
                 PROVE  RightAt(want, Todo[j])
      BY <1>1, <1>3, <2>1 DEF FixedInv
    <3>1. CASE Todo[j] # Item
      <4>1. j < at
        BY <1>4, <3>1, RoundFacts DEF Item
      <4> QED BY <1>2, <2>1, <3>1, <4>1 DEF FixedInv, Fixing
    <3>2. CASE Todo[j] = Item
      BY <1>2, <2>1, <3>2 DEF FixedInv, RightAt
    <3> QED BY <3>1, <3>2
  <2> QED BY <2>3, <2>4, <2>5 DEF RoundParts
<1>9. CASE FixDone
  <2>1. /\ pc = "fix" /\ at > Len(Todo) /\ counts' = counts
        /\ \/ MayRemove /\ pc' = "remove" /\ at' = Len(Todo)
           \/ ~MayRemove /\ pc' = "extra"
    BY <1>9 DEF FixDone
  <2>2. \A p \in Firm : RightAt(want, p)
    <3> SUFFICES ASSUME NEW p \in Firm PROVE RightAt(want, p)
      OBVIOUS
    <3>1. PICK j \in DOMAIN Todo : Todo[j] = p
      BY RoundFacts
    <3>2. j < at
      BY <1>4, <2>1, RoundFacts
    <3> QED BY <1>2, <2>1, <3>1, <3>2 DEF FixedInv, Fixing, Staging
  <2>3. SettledInv' /\ SoundInv' /\ AddedInv' /\ FixedInv' /\ CountInv'
    BY <1>1, <1>2, <1>3, <1>5, <2>1, <2>2
       DEF SettledInv, SoundInv, AddedInv, FixedInv, CountInv, Staging, Adding, Fixing
  <2>4. TidyInv'
    <3>1. Round >= 1 /\ "not_replaced" \notin counts => pc' = "remove" /\ at' = Len(Todo)
      BY <1>2, <2>1 DEF CountInv, MayRemove
    <3>2. \A j \in DOMAIN Todo : ~(j > Len(Todo))
      BY RoundFacts
    <3> QED BY <1>1, <2>1, <3>1, <3>2 DEF TidyInv
  <2> QED BY <2>3, <2>4 DEF RoundParts
<1> QED BY <1>6, <1>7, <1>8, <1>9

\* A directory that held the path that goes may be the next one to go.
LEMMA TakesKeeps ==
  ASSUME RoundStep, NEW x \in Paths, Takes(x), left' = left
  PROVE  /\ \A p \in Wanted : RightAt(want, p)' <=> RightAt(want, p)
         /\ \A p \in Deleted : Tidy(want, p) \/ p = x => Tidy(want, p)' \/ p = Parent[x]
<1>1. want' = want
  BY DEF RoundStep
<1>2. \A p \in Wanted : RightAt(want, p)' <=> RightAt(want, p)
  BY <1>1, RoundFacts DEF Takes, RightAt
<1>3. ASSUME NEW p \in Deleted, p # Parent[x], disk[p] = "dir", disk'[p] = "dir", ~Empty(p)
      PROVE  ~Empty(p)'
  <2>1. PICK q \in Paths : Parent[q] = p /\ ~(disk[q] = "absent" /\ q \notin left)
    BY <1>3 DEF Empty
  <2>2. disk'[q] = disk[q]
    BY <1>3, <2>1 DEF Takes
  <2> QED BY <2>1, <2>2 DEF Empty
<1>4. ASSUME NEW p, ~InRealDir(p) PROVE ~InRealDir(p)'
  BY <1>4 DEF InRealDir, Takes
<1>5. ASSUME NEW p \in Deleted, Tidy(want, p) \/ p = x, p # Parent[x] PROVE Tidy(want, p)'
  <2>1. p \in Paths
    BY RoundFacts
  <2>2. CASE p = x
    <3>1. disk'[p] = "absent" \/ (disk'[p] = "dir" /\ disk[p] = "dir" /\ ~Empty(p))
      BY <2>2 DEF Takes
    <3>2. disk'[p] = "dir" /\ disk[p] = "dir" /\ ~Empty(p) => ~Empty(p)'
      BY <1>3, <1>5
    <3> QED BY <3>1, <3>2 DEF Tidy
  <2>3. CASE p # x /\ Tidy(want, p)
    <3>1. disk'[p] = disk[p]
      BY <2>1, <2>3 DEF Takes
    <3>2. \/ want[p] = "ghost" \/ p \in StateFiles \union BootFiles
          \/ ~InRealDir(p) \/ disk[p] = "absent"
          \/ disk[p] = "dir" /\ ~Empty(p)
      BY <2>3 DEF Tidy
    <3>3. disk[p] = "dir" /\ ~Empty(p) => disk'[p] = "dir" /\ ~Empty(p)'
      BY <1>3, <1>5, <3>1
    <3>4. ~InRealDir(p) => ~InRealDir(p)'
      BY <1>4
    <3> QED BY <1>1, <3>1, <3>2, <3>3, <3>4 DEF Tidy
  <2> QED BY <1>5, <2>2, <2>3
<1> QED BY <1>2, <1>5

LEMMA RemoveRound ==
  ASSUME RoundStep, RemovePass \/ RemoveOrphan \/ RemoveDone
  PROVE  RoundParts'
<1>1. /\ Todo' = Todo /\ Settled' = Settled /\ Firm' = Firm /\ Wanted' = Wanted
      /\ Deleted' = Deleted
      /\ Heuristics' = Heuristics /\ want' = want /\ Round' = Round
      /\ sound' = sound /\ left' = left /\ pc = "remove"
  BY RoundNames DEF RoundStep, RemovePass, RemoveOrphan, RemoveDone
<1>2. SettledInv /\ SoundInv /\ AddedInv /\ FixedInv /\ CountInv /\ TidyInv
  BY DEF RoundStep, RoundParts
<1>3. /\ at \in 0..Len(Todo) /\ Repairs /\ Len(Todo) \in Nat
  BY <1>1, RoundFacts DEF RoundStep, PInv, AtInv, CompleteFacts
<1>4. sound \subseteq Wanted \union Heuristics /\ \A p \in Firm : RightAt(want, p)
  BY <1>1, <1>2 DEF SoundInv, FixedInv
<1>5. ASSUME pc' \in {"remove", "extra"}, counts \subseteq counts',
             counts' \subseteq counts \union {"extraneous", "not_deleted"},
             \A p \in Wanted : RightAt(want, p)' <=> RightAt(want, p)
      PROVE  SettledInv' /\ SoundInv' /\ AddedInv' /\ FixedInv' /\ CountInv'
  <2>1. SettledInv'
    BY <1>1, <1>2, <1>5, RoundFacts DEF SettledInv, Staging
  <2>2. SoundInv' /\ AddedInv'
    BY <1>1, <1>4, <1>5 DEF SoundInv, AddedInv, Adding, Fixing
  <2>3. FixedInv'
    BY <1>1, <1>4, <1>5, RoundFacts DEF FixedInv, Fixing
  <2>4. CountInv'
    BY <1>1, <1>2, <1>5 DEF CountInv
  <2> QED BY <2>1, <2>2, <2>3, <2>4
<1>6. CASE RemovePass
  <2>1. /\ pc' = "remove" /\ at >= 1 /\ at' = at - 1 /\ disk' = disk /\ counts' = counts
        /\ ~Orphan(Item)
    BY <1>6 DEF RemovePass
  <2>2. SettledInv' /\ SoundInv' /\ AddedInv' /\ FixedInv' /\ CountInv'
    BY <1>1, <1>5, <2>1 DEF RightAt
  <2>3. \A p : Tidy(want, p)' <=> Tidy(want, p)
    BY <1>1, <2>1 DEF Tidy, InRealDir, Empty
  <2>4. Item \in Deleted => Tidy(want, Item)
    <3> SUFFICES ASSUME Item \in Deleted PROVE Tidy(want, Item)
      OBVIOUS
    <3>1. want[Item] \in Gone /\ Item \notin Wanted
      BY RoundFacts DEF Deleted
    <3>2. CASE Item \in sound
      BY <1>4, <3>1, <3>2 DEF Heuristics, Tidy
    <3>3. CASE InRealDir(Item) /\ Seen(Item) = "absent"
      BY <3>3 DEF InRealDir, Seen, Tidy
    <3>4. CASE ~InRealDir(Item)
      BY <3>4 DEF Tidy
    <3> QED BY <2>1, <3>1, <3>2, <3>3, <3>4 DEF Orphan
  <2>5. TidyInv'
    <3> SUFFICES ASSUME Round >= 1, "not_replaced" \notin counts,
                        NEW j \in DOMAIN Todo, j > at - 1, Todo[j] \in Deleted
                 PROVE  Tidy(want, Todo[j])
      BY <1>1, <2>1, <2>3 DEF TidyInv
    <3>1. CASE j = at
      BY <2>4, <3>1 DEF Item
    <3>2. CASE j > at
      BY <1>1, <1>2, <3>2 DEF TidyInv
    <3> QED BY <1>3, <3>1, <3>2, RoundFacts
  <2> QED BY <2>2, <2>5 DEF RoundParts
<1>7. CASE RemoveOrphan
  <2>1. /\ pc' = "remove" /\ at >= 1 /\ at' = at - 1 /\ Remove(Item) /\ want[Item] \in Gone
    BY <1>1, <1>3, <1>7 DEF RemoveOrphan, Orphan
  <2>2. at \in DOMAIN Todo /\ Item \in Paths /\ Item \notin Wanted /\ Todo[at] = Item
    BY <1>1, <2>1, RemovedItem DEF RoundStep, Wanted, Item
  <2>3. /\ Takes(Item)
        /\ counts \subseteq counts' /\ counts' \subseteq counts \union {"extraneous", "not_deleted"}
    BY <2>1, <2>2, CalmRemove DEF RoundStep
  <2>4. /\ \A p \in Wanted : RightAt(want, p)' <=> RightAt(want, p)
        /\ \A p \in Deleted : Tidy(want, p) \/ p = Item => Tidy(want, p)' \/ p = Parent[Item]
    BY <1>1, <2>2, <2>3, TakesKeeps
  <2>5. SettledInv' /\ SoundInv' /\ AddedInv' /\ FixedInv' /\ CountInv'
    BY <1>5, <2>1, <2>3, <2>4
  <2>6. TidyInv'
    <3> SUFFICES ASSUME Round >= 1, "not_replaced" \notin counts,
                        NEW p \in Deleted, NEW j \in DOMAIN Todo, j > at - 1, Todo[j] = p
                 PROVE  Tidy(want, p)'
      BY <1>1, <2>1, <2>3 DEF TidyInv
    <3>1. Tidy(want, p) \/ p = Item
      BY <1>1, <1>2, <1>3, <2>2, RoundFacts DEF TidyInv
    <3>2. p # Parent[Item]
      <4> SUFFICES ASSUME p = Parent[Item] PROVE FALSE
        OBVIOUS
      <4>1. j < at
        BY <2>2, DirectoryFirst
      <4> QED BY <1>3, <4>1, RoundFacts
    <3> QED BY <2>4, <3>1, <3>2
  <2> QED BY <2>5, <2>6 DEF RoundParts
<1>8. CASE RemoveDone
  <2>1. /\ pc' = "extra" /\ at < 1 /\ disk' = disk /\ counts' = counts
    BY <1>8 DEF RemoveDone
  <2>2. SettledInv' /\ SoundInv' /\ AddedInv' /\ FixedInv' /\ CountInv'
    BY <1>1, <1>5, <2>1 DEF RightAt
  <2>3. \A p : Tidy(want, p)' <=> Tidy(want, p)
    BY <1>1, <2>1 DEF Tidy, InRealDir, Empty
  <2>4. TidyInv'
    <3> SUFFICES ASSUME Round >= 1, "not_replaced" \notin counts, NEW p \in Deleted
                 PROVE  Tidy(want, p)
      BY <1>1, <2>1, <2>3 DEF TidyInv
    <3>1. PICK j \in DOMAIN Todo : Todo[j] = p
      BY RoundFacts
    <3>2. j > at
      BY <1>3, <2>1, RoundFacts
    <3> QED BY <1>1, <1>2, <3>1, <3>2 DEF TidyInv
  <2> QED BY <2>2, <2>4 DEF RoundParts
<1> QED BY <1>6, <1>7, <1>8

\* A directory that held an extra file is one of the paths that are still to be looked at.
LEMMA ParentPending ==
  ASSUME RoundStep, LooksForExtras, at \in DOMAIN Order, Order[at] \in PickyTree,
         NEW p \in Deleted, p = Parent[Order[at]]
  PROVE  \/ want[p] = "ghost"
         \/ LooksForExtras /\ p \in Extras /\ \E i \in 1..(at - 1) : Order[i] = p
<1> DEFINE x == Order[at]
<1>1. x \in Paths /\ p \in Paths /\ want[p] \in Gone /\ p \in DOMAIN want
  BY RoundFacts, RepairAssumption DEF Deleted
<1>2. p # Root /\ Parent[p] = Root
  BY <1>1, RepairAssumption
<1>3. p \notin Whitelist /\ Root \notin Whitelist
  BY TreeAssumption DEF PickyTree, Whitelisted
<1>4. p \in PickyTree
  BY <1>1, <1>2, <1>3 DEF PickyTree, Whitelisted, RoundStep, CompleteFacts
<1>5. PICK i \in DOMAIN Order : Order[i] = p
  BY <1>1 DEF Paths
<1>6. i < at
  BY <1>5, TreeAssumption
<1>7. i \in 1..(at - 1)
  BY <1>6, TodoList
<1> QED BY <1>1, <1>4, <1>5, <1>7 DEF Extras, Gone

LEMMA ExtraRound ==
  ASSUME RoundStep, ExtraPass \/ ExtraLeft \/ ExtraLeftStays \/ ExtraFile \/ ExtraDone
  PROVE  RoundParts'
<1>1. /\ Todo' = Todo /\ Settled' = Settled /\ Firm' = Firm /\ Wanted' = Wanted
      /\ Deleted' = Deleted /\ Extras' = Extras /\ LooksForExtras' = LooksForExtras
      /\ want' = want /\ Round' = Round /\ pc = "extra"
  BY RoundNames DEF RoundStep, ExtraPass, ExtraLeft, ExtraLeftStays, ExtraFile, ExtraDone
<1>2. SettledInv /\ FixedInv /\ CountInv /\ TidyInv
  BY DEF RoundStep, RoundParts
<1>3. at \in 0..Len(Order) /\ Repairs
  BY <1>1 DEF RoundStep, PInv, AtInv, CompleteFacts
<1>4. \A p \in Firm : RightAt(want, p)
  BY <1>1, <1>2 DEF FixedInv
<1>5. ASSUME pc' \in {"extra", "end"}, counts \subseteq counts',
             counts' \subseteq counts \union {"extraneous", "not_deleted"},
             \A p \in Wanted : RightAt(want, p)' <=> RightAt(want, p)
      PROVE  SettledInv' /\ SoundInv' /\ AddedInv' /\ FixedInv' /\ CountInv'
  <2>1. SettledInv'
    BY <1>1, <1>2, <1>5, RoundFacts DEF SettledInv, Staging
  <2>2. SoundInv' /\ AddedInv'
    BY <1>5 DEF SoundInv, AddedInv, Adding, Fixing
  <2>3. FixedInv'
    BY <1>1, <1>4, <1>5, RoundFacts DEF FixedInv, Fixing
  <2>4. CountInv'
    BY <1>1, <1>2, <1>5 DEF CountInv
  <2> QED BY <2>1, <2>2, <2>3, <2>4
<1> DEFINE Pending(p, n) == LooksForExtras /\ p \in Extras /\ \E i \in 1..n : Order[i] = p
<1>6. Round >= 1 /\ "not_replaced" \notin counts =>
        \A p \in Deleted : Tidy(want, p) \/ Pending(p, at)
  BY <1>1, <1>2 DEF TidyInv
<1>7. at >= 1 => /\ at \in DOMAIN Order /\ Order[at] \in Paths
                 /\ \A i \in 1..at : i \in 1..(at - 1) \/ i = at
  BY <1>1, <1>3, ExtraItem DEF RoundStep
<1>8. CASE ExtraPass
  <2>1. /\ pc' = "extra" /\ at >= 1 /\ at' = at - 1 /\ disk' = disk /\ counts' = counts
        /\ left' = left
        /\ ~LooksForExtras \/ ~ExtraHere(Order[at])
    BY <1>8 DEF ExtraPass
  <2>2. SettledInv' /\ SoundInv' /\ AddedInv' /\ FixedInv' /\ CountInv'
    BY <1>1, <1>5, <2>1 DEF RightAt
  <2>3. \A p : Tidy(want, p)' <=> Tidy(want, p)
    BY <1>1, <2>1 DEF Tidy, InRealDir, Empty
  <2>4. TidyInv'
    <3> SUFFICES ASSUME Round >= 1, "not_replaced" \notin counts, NEW p \in Deleted
                 PROVE  Tidy(want, p) \/ Pending(p, at - 1)
      BY <1>1, <2>1, <2>3 DEF TidyInv
    <3>1. CASE p = Order[at] /\ LooksForExtras /\ p \in Extras
      BY <2>1, <3>1 DEF ExtraHere, Tidy
    <3>2. CASE ~(p = Order[at] /\ LooksForExtras /\ p \in Extras)
      BY <1>6, <1>7, <2>1, <3>2
    <3> QED BY <3>1, <3>2
  <2> QED BY <2>2, <2>4 DEF RoundParts
<1>9. CASE ExtraLeft
  <2>1. /\ pc' = "extra" /\ at >= 1 /\ at' = at /\ disk' = disk
        /\ counts' = counts \union {"extraneous"}
        /\ left' = left \ {Order[at]} /\ LooksForExtras /\ Order[at] \in PickyTree
    BY <1>3, <1>9 DEF ExtraLeft, LeftHere
  <2>2. SettledInv' /\ SoundInv' /\ AddedInv' /\ FixedInv' /\ CountInv'
    BY <1>1, <1>5, <2>1 DEF RightAt
  <2>3. \A p : p # Parent[Order[at]] /\ Tidy(want, p) => Tidy(want, p)'
    <3>1. \A p : InRealDir(p)' <=> InRealDir(p)
      BY <2>1 DEF InRealDir
    <3>2. \A p : p # Parent[Order[at]] /\ ~Empty(p) => ~Empty(p)'
      BY <2>1 DEF Empty
    <3> QED BY <1>1, <2>1, <3>1, <3>2 DEF Tidy
  <2>4. TidyInv'
    <3> SUFFICES ASSUME Round >= 1, "not_replaced" \notin counts, NEW p \in Deleted
                 PROVE  Tidy(want, p)' \/ Pending(p, at)
      BY <1>1, <2>1 DEF TidyInv
    <3>1. CASE p = Parent[Order[at]]
      <4>1. want[p] = "ghost" \/ Pending(p, at - 1)
        BY <1>7, <2>1, <3>1, ParentPending
      <4>2. want[p] = "ghost" => Tidy(want, p)'
        BY <1>1 DEF Tidy
      <4>3. Pending(p, at - 1) => Pending(p, at)
        BY <1>3
      <4> QED BY <4>1, <4>2, <4>3
    <3>2. CASE p # Parent[Order[at]]
      BY <1>6, <2>3, <3>2
    <3> QED BY <3>1, <3>2
  <2> QED BY <2>2, <2>4 DEF RoundParts
<1>10. CASE ExtraFile
  <2> DEFINE x == Order[at]
  <2>1. /\ pc' = "extra" /\ at >= 1 /\ at' = at - 1 /\ left' = left /\ Remove(x)
        /\ LooksForExtras /\ x \in Extras /\ x \in PickyTree
    BY <1>3, <1>10 DEF ExtraFile, ExtraHere, Extras
  <2>2. x \in Paths /\ x \notin Wanted
    BY <1>7, <2>1 DEF Extras, Wanted, Gone
  <2>3. /\ Takes(x)
        /\ counts \subseteq counts' /\ counts' \subseteq counts \union {"extraneous", "not_deleted"}
    BY <2>1, <2>2, CalmRemove DEF RoundStep
  <2>4. /\ \A p \in Wanted : RightAt(want, p)' <=> RightAt(want, p)
        /\ \A p \in Deleted : Tidy(want, p) \/ p = x => Tidy(want, p)' \/ p = Parent[x]
    BY <2>1, <2>2, <2>3, TakesKeeps
  <2>5. SettledInv' /\ SoundInv' /\ AddedInv' /\ FixedInv' /\ CountInv'
    BY <1>5, <2>1, <2>3, <2>4
  <2>6. TidyInv'
    <3> SUFFICES ASSUME Round >= 1, "not_replaced" \notin counts, NEW p \in Deleted
                 PROVE  Tidy(want, p)' \/ Pending(p, at - 1)
      BY <1>1, <2>1, <2>3 DEF TidyInv
    <3>1. CASE p = Parent[x]
      <4>1. want[p] = "ghost" \/ Pending(p, at - 1)
        BY <1>7, <2>1, <3>1, ParentPending
      <4>2. want[p] = "ghost" => Tidy(want, p)'
        BY <1>1 DEF Tidy
      <4> QED BY <4>1, <4>2
    <3>2. CASE p # Parent[x] /\ (Tidy(want, p) \/ p = x)
      BY <2>4, <3>2
    <3>3. CASE p # x /\ Pending(p, at)
      BY <1>7, <2>1, <3>3
    <3> QED BY <1>6, <3>1, <3>2, <3>3
  <2> QED BY <2>5, <2>6 DEF RoundParts
<1>11. CASE ExtraDone
  <2>1. /\ pc' = "end" /\ at < 1 /\ disk' = disk /\ counts' = counts /\ left' = left
    BY <1>11 DEF ExtraDone
  <2>2. SettledInv' /\ SoundInv' /\ AddedInv' /\ FixedInv' /\ CountInv'
    BY <1>1, <1>5, <2>1 DEF RightAt
  <2>3. \A p : Tidy(want, p)' <=> Tidy(want, p)
    BY <1>1, <2>1 DEF Tidy, InRealDir, Empty
  <2>4. 1..at = {}
    BY <1>3, <2>1
  <2>5. TidyInv'
    BY <1>1, <1>6, <2>1, <2>3, <2>4 DEF TidyInv
  <2> QED BY <2>2, <2>5 DEF RoundParts
<1>12. ~ExtraLeftStays
  BY DEF ExtraLeftStays, Fault, RoundStep
<1> QED BY <1>8, <1>9, <1>10, <1>11, <1>12

LEMMA StutterRound ==
  ASSUME RoundStep, UNCHANGED vars
  PROVE  RoundParts'
<1>1. /\ Todo' = Todo /\ Settled' = Settled /\ Firm' = Firm /\ Wanted' = Wanted
      /\ Deleted' = Deleted /\ Extras' = Extras /\ LooksForExtras' = LooksForExtras
      /\ Heuristics' = Heuristics /\ Item' = Item
      /\ want' = want /\ Round' = Round /\ pc' = pc /\ at' = at
      /\ disk' = disk /\ sound' = sound /\ counts' = counts /\ left' = left
  BY RoundNames DEF RoundStep
<1>2. SettledInv /\ SoundInv /\ AddedInv /\ FixedInv /\ CountInv /\ TidyInv
  BY DEF RoundStep, RoundParts
<1>3. \A p : /\ RightAt(want, p)' <=> RightAt(want, p)
             /\ Tidy(want, p)' <=> Tidy(want, p)
  BY <1>1 DEF RightAt, Tidy, InRealDir, Empty
<1>4. SettledInv' /\ SoundInv' /\ CountInv'
  BY <1>1, <1>2, <1>3 DEF SettledInv, SoundInv, CountInv
<1>5. AddedInv' /\ FixedInv' /\ TidyInv'
  BY <1>1, <1>2, <1>3 DEF AddedInv, FixedInv, TidyInv
<1> QED BY <1>4, <1>5 DEF RoundParts

\* The bundles of the disk stay what they are from the list on.
LEMMA LoadedRound ==
  ASSUME PInv, PassesInv, BetweenInv, Loaded, Complete(req)
  PROVE  RoundParts'
<1>1. /\ pc = "load" /\ pc' = "prepare" /\ disk' = disk /\ counts' = counts /\ sound' = sound
      /\ version' = version /\ passes' = passes /\ req.bundles = {}
      /\ want' = Consolidated(version, All)
  BY DEF Loaded, Complete
<1>2. want' = Official(version)
  <2>1. Installed \union Chosen = Installed
    BY <1>1, WorkedBundles
  <2>2. WithOptional = FALSE
    BY DEF WithOptional, Installs, Complete
  <2>3. All = Closure(version, Installed, FALSE)
    BY <2>1, <2>2, Zenon DEF All
  <2> QED BY <1>1, <2>3 DEF Official
<1>3. counts = {} /\ passes.count \in Nat
  BY <1>1 DEF PassesInv
<1>4. \A p \in Settled' : RightAt(want, p)'
  <2> SUFFICES ASSUME NEW p \in Settled' PROVE RightAt(want, p)'
    OBVIOUS
  <2>1. /\ p \in DOMAIN want' /\ want'[p] \notin Gone
        /\ Round >= 2 \/ (Round >= 1 /\ Parent[p] = Root)
    BY <1>1 DEF Settled, Wanted, Round
  <2>2. /\ passes.version = version /\ passes.count >= 1
        /\ passes.count >= 2 \/ Parent[p] = Root
    BY <1>3, <2>1 DEF Round
  <2>3. Leaves(Official(version), passes.count)
    BY <1>1, <2>2 DEF BetweenInv
  <2>4. RightAt(want', p)
    BY <1>2, <1>3, <2>1, <2>2, <2>3 DEF Leaves
  <2> QED BY <1>1, <2>4 DEF RightAt
<1>5. SettledInv' /\ SoundInv' /\ AddedInv' /\ FixedInv'
  BY <1>1, <1>4 DEF SettledInv, SoundInv, AddedInv, FixedInv, Staging, Adding, Fixing
<1>6. CountInv' /\ TidyInv'
  BY <1>1, <1>3 DEF CountInv, TidyInv
<1> QED BY <1>5, <1>6 DEF RoundParts

\* A step that is none of the beginning or the end.
LEMMA InsideRun ==
  ASSUME [Next]_vars, pc' \notin {"idle", "load"}
  PROVE  /\ pc # "idle" /\ (pc = "load" => Loaded)
         /\ pc \notin {"idle", "load"} =>
              \/ Skip \/ Prepare \/ Installing
              \/ (AddPass \/ AddMissing \/ AddJudge \/ AddDone)
              \/ (FixPass \/ FixMismatch \/ FixJudge \/ FixDone)
              \/ (RemovePass \/ RemoveOrphan \/ RemoveDone)
              \/ (ExtraPass \/ ExtraLeft \/ ExtraLeftStays \/ ExtraFile \/ ExtraDone)
              \/ UNCHANGED vars
BY DEF Next, Step, Installing, RepairMain, InstallMain, DiagnoseMain, VerifyMain, Begin, GiveUp,
       LoadRefused, LoadFails, Loaded, Skip, Prepare, PrepareFails, AddPass, AddMissing, AddJudge,
       AddDone, FixPass, FixMismatch, FixJudge, FixDone, RemovePass, RemoveOrphan, RemoveDone,
       ExtraPass, ExtraLeft, ExtraLeftStays, ExtraFile, ExtraDone, Finish, Kill, Rest, Install,
       Stage,
       StageRefused, StageFails, Rename

LEMMA RoundKept ==
  ASSUME PInv, PassesInv, BetweenInv, RoundInv, [Next]_vars
  PROVE  RoundInv'
<1> SUFFICES ASSUME pc' \notin {"idle", "load"}, Repairing' PROVE RoundParts'
  BY DEF RoundInv, RoundParts
<1>1. CASE pc = "load"
  <2>1. Loaded
    BY <1>1, InsideRun
  <2>2. Complete(req)
    BY <2>1 DEF Loaded, Repairing, Complete
  <2> QED BY <2>1, <2>2, LoadedRound
<1>2. CASE pc # "load"
  <2>1. pc \notin {"idle", "load"}
    BY <1>2, InsideRun
  <2>2. /\ req' = req /\ version' = version /\ want' = want /\ passes' = passes
        /\ calm' /\ calm
    BY <2>1, RunFrame DEF Repairing
  <2>3. Complete(req)
    BY <2>2 DEF Repairing, Complete
  <2>4. CompleteFacts
    BY <2>1, <2>3, CompleteRepair
  <2>5. RoundStep
    BY <2>1, <2>2, <2>3, <2>4 DEF RoundStep, RoundInv, RoundParts, Repairing
  <2>6. ~Skip
    BY <2>4 DEF Skip, CompleteFacts
  <2> QED BY <2>1, <2>5, <2>6, InsideRun, PrepareRound, InstallRound, AddRound, FixRound,
             RemoveRound, ExtraRound, StutterRound
<1> QED BY <1>1, <1>2

----------------------------------------------------------------------------
(* From one repair to the next.                                            *)

LEMMA LeavesKept ==
  ASSUME disk' = disk, left' = left, NEW w, NEW n,
         Official(passes.version)' = w, passes'.count = n
  PROVE  /\ Leaves(w, n) => Leaves(Official(passes.version), passes.count)'
         /\ AllTidy(w) => AllTidy(Official(passes.version))'
BY DEF Leaves, AllTidy, RightAt, Tidy, InRealDir, Empty

LEMMA SamePasses ==
  ASSUME disk' = disk, left' = left, passes' = passes
  PROVE  /\ Leaves(Official(passes.version), passes.count) =>
              Leaves(Official(passes.version), passes.count)'
         /\ AllTidy(Official(passes.version)) => AllTidy(Official(passes.version))'
<1>1. PICK w : w = Official(passes.version)
  OBVIOUS
<1>2. PICK n : n = passes.count
  OBVIOUS
<1>3. Official(passes.version)' = w /\ passes'.count = n
  BY <1>1, <1>2 DEF Official, Installed
<1>4. /\ Leaves(w, n) => Leaves(Official(passes.version), passes.count)'
      /\ AllTidy(w) => AllTidy(Official(passes.version))'
  BY <1>3, LeavesKept
<1> QED BY <1>1, <1>2, <1>4

\* A command that did not come to its end, or was not such a repair, leaves nothing to say.
LEMMA NoPasses ==
  ASSUME passes' = Undisturbed, pc' # "load"
  PROVE  PassesInv' /\ BetweenInv'
<1>1. passes'.count = 0
  BY DEF Undisturbed
<1> QED BY <1>1 DEF PassesInv, BetweenInv, Leaves

LEMMA BeginPasses ==
  ASSUME Starts
  PROVE  /\ pc = "idle" /\ disk' = disk /\ left' = left /\ counts' = {}
         /\ \/ pc' = "idle" /\ passes' = Undisturbed
            \/ pc' = "load" /\ passes' = passes
BY DEF Starts, RepairMain, InstallMain, DiagnoseMain, VerifyMain, Begin, GiveUp

LEMMA EndPasses ==
  ASSUME [Next]_vars, ~Starts, pc' \in {"idle", "load"}
  PROVE  \/ pc' = "idle" /\ passes' = Undisturbed
         \/ Finish
         \/ UNCHANGED vars
BY DEF Next, Step, Starts, GiveUp,
       LoadRefused, LoadFails, Loaded, Skip, Prepare, PrepareFails, AddPass, AddMissing, AddJudge,
       AddDone, FixPass, FixMismatch, FixJudge, FixDone, RemovePass, RemoveOrphan, RemoveDone,
       ExtraPass, ExtraLeft, ExtraLeftStays, ExtraFile, ExtraDone, Finish, Kill, Rest, Install,
       Stage,
       StageRefused, StageFails, Rename, MoveOn

\* A command that does not write leaves the disk as it is.
LEMMA NotWritten ==
  ASSUME PInv, [Next]_vars, ~Starts, ~Writes
  PROVE  disk' = disk /\ left' = left
<1>1. \A p \in Paths : disk'[p] = disk[p]
  BY DiskTouched DEF Placed, Removed, Writes
<1>2. IsDisk(disk') /\ IsDisk(disk)
  BY DiskTouched DEF PInv, TypeInv, IsDisk
<1>3. disk' = disk
  BY <1>1, <1>2 DEF IsDisk
<1>4. ~Installing
  <2>1. pc \notin Staging
    BY DEF PInv, AtInv
  <2> QED BY <2>1 DEF Installing, Install, Stage, StageRefused, StageFails, Rename, Staging
<1>5. left' = left
  BY <1>4 DEF Next, Step, Starts, Installing, Writes,
       LoadRefused, LoadFails, Loaded, Skip, Prepare, PrepareFails, AddPass, AddMissing, AddJudge,
       AddDone, FixPass, FixMismatch, FixJudge, FixDone, RemovePass, RemoveOrphan, RemoveDone,
       ExtraPass, ExtraLeft, ExtraLeftStays, ExtraFile, ExtraDone, Finish, Kill, Rest
<1> QED BY <1>3, <1>5

\* What the round that ends has done is what it leaves.
LEMMA FinishPasses ==
  ASSUME PInv, PassesInv, BetweenInv, RoundInv, Finish, Complete(req), calm
  PROVE  PassesInv' /\ BetweenInv'
<1>1. /\ pc = "end" /\ pc' = "idle" /\ disk' = disk /\ left' = left /\ counts' = counts
      /\ passes' = [version |-> version,
                    count |-> IF passes.version = version THEN passes.count + 1 ELSE 1]
  BY DEF Finish
<1>2. CompleteFacts /\ FixedInv /\ CountInv /\ TidyInv
  BY <1>1, CompleteRepair DEF RoundInv, Repairing
<1>3. passes.count \in Nat /\ Round \in Nat
  BY RoundType DEF PassesInv
<1>4. passes'.version = version /\ passes'.count = Round + 1
  BY <1>1, <1>3 DEF Round
<1>5. PassesInv'
  BY <1>1, <1>2, <1>3, <1>4 DEF PassesInv, CompleteFacts
<1>6. want = Official(version) /\ Official(passes.version)' = Official(version)
  BY <1>1, <1>2, <1>4 DEF CompleteFacts, Official, Installed
<1>7. Round >= 1 /\ "not_replaced" \notin counts => AllTidy(want)
  BY <1>1, <1>2 DEF TidyInv, AllTidy, Deleted
<1>8. Leaves(want, Round + 1)
  <2>1. \A p \in DOMAIN want :
          want[p] \notin Gone /\ (Round + 1 >= 2 \/ Parent[p] = Root) => RightAt(want, p)
    BY <1>1, <1>2, <1>3 DEF FixedInv, Firm, Wanted
  <2>2. Round + 1 >= 3 => AllTidy(want)
    BY <1>2, <1>3, <1>7 DEF CountInv
  <2> QED BY <2>1, <2>2 DEF Leaves
<1>9. PICK w : w = want
  OBVIOUS
<1>10. PICK n : n = Round + 1
  OBVIOUS
<1>11. /\ Leaves(w, n) => Leaves(Official(passes.version), passes.count)'
       /\ AllTidy(w) => AllTidy(Official(passes.version))'
  BY <1>1, <1>4, <1>6, <1>9, <1>10, LeavesKept
<1>12. passes'.count >= 2 /\ "not_replaced" \notin counts' => AllTidy(Official(passes.version))'
  BY <1>1, <1>3, <1>4, <1>7, <1>9, <1>11
<1>13. Leaves(Official(passes.version), passes.count)'
  BY <1>8, <1>9, <1>10, <1>11
<1> QED BY <1>5, <1>12, <1>13 DEF BetweenInv

LEMMA BetweenStep ==
  ASSUME PInv, PassesInv, BetweenInv, RoundInv, [Next]_vars
  PROVE  PassesInv' /\ BetweenInv'
<1>1. CASE Starts
  <2>1. CASE pc' = "idle" /\ passes' = Undisturbed
    BY <2>1, NoPasses
  <2>2. CASE pc' = "load" /\ passes' = passes
    <3>1. pc = "idle" /\ disk' = disk /\ left' = left /\ counts' = {}
      BY <1>1, BeginPasses
    <3>2. Leaves(Official(passes.version), passes.count)
      BY <3>1 DEF BetweenInv
    <3>3. Leaves(Official(passes.version), passes.count)'
      BY <2>2, <3>1, <3>2, SamePasses
    <3> QED BY <2>2, <3>1, <3>3 DEF PassesInv, BetweenInv
  <2> QED BY <1>1, <2>1, <2>2, BeginPasses
<1>2. CASE UNCHANGED vars
  <2>1. /\ disk' = disk /\ left' = left /\ passes' = passes /\ pc' = pc /\ req' = req
        /\ counts' = counts
    BY <1>2
  <2>2. Writes' = Writes /\ Complete(req)' = Complete(req)
    BY <2>1 DEF Writes, Repairs, Installs, Complete
  <2> QED BY <2>1, <2>2, SamePasses DEF PassesInv, BetweenInv
<1>3. CASE ~Starts /\ pc' \in {"idle", "load"} /\ ~(UNCHANGED vars)
  <2>1. CASE pc' = "idle" /\ passes' = Undisturbed
    BY <2>1, NoPasses
  <2>2. CASE Finish
    <3>1. CASE Complete(req) /\ calm
      BY <2>2, <3>1, FinishPasses
    <3>2. CASE ~(Complete(req) /\ calm) /\ Writes
      <4>1. pc' = "idle" /\ passes' = Undisturbed
        BY <2>2, <3>2 DEF Finish
      <4> QED BY <4>1, NoPasses
    <3>3. CASE ~(Complete(req) /\ calm) /\ ~Writes
      <4>1. /\ disk' = disk /\ left' = left /\ passes' = passes /\ pc' = "idle" /\ req' = req
        BY <2>2, <3>3 DEF Finish
      <4>2. ~Complete(req)'
        BY <3>3, <4>1 DEF Complete, Writes, Repairs
      <4>3. Leaves(Official(passes.version), passes.count)
        BY <3>3 DEF BetweenInv
      <4>4. Leaves(Official(passes.version), passes.count)'
        BY <4>1, <4>3, SamePasses
      <4> QED BY <4>1, <4>2, <4>4 DEF PassesInv, BetweenInv
    <3> QED BY <3>1, <3>2, <3>3
  <2> QED BY <1>3, <2>1, <2>2, EndPasses
<1>4. CASE ~Starts /\ pc' \notin {"idle", "load"}
  <2>1. passes' = passes /\ req' = req
    <3>1. CASE pc = "load"
      BY <1>4, <3>1, InsideRun DEF Loaded
    <3>2. CASE pc # "load"
      BY <1>4, <3>2, InsideRun, RunFrame
    <3> QED BY <3>1, <3>2
  <2>2. PassesInv'
    BY <1>4, <2>1 DEF PassesInv
  <2>3. Writes' = Writes
    BY <2>1 DEF Writes, Repairs, Installs
  <2>4. CASE Writes
    BY <1>4, <2>2, <2>3, <2>4 DEF BetweenInv
  <2>5. CASE ~Writes
    <3>1. Leaves(Official(passes.version), passes.count)'
      BY <1>4, <2>1, <2>5, NotWritten, SamePasses DEF BetweenInv
    <3> QED BY <1>4, <2>2, <3>1 DEF BetweenInv
  <2> QED BY <2>4, <2>5
<1> QED BY <1>1, <1>2, <1>3, <1>4

\* After two complete repairs to one version in which nothing failed, one right after the
\* other, nothing is wrong any more, whatever was on the disk and wherever an earlier command
\* was killed; but for deleted directories that hold something else, and for deleted files
\* if the second one says that it could not replace a file.  The third one misses nothing.
THEOREM RepairsSettle == Spec => []TwoRepairsEnough
<1>1. ASSUME Init PROVE PassesInv /\ BetweenInv /\ RoundInv
  <2>1. passes.count = 0 /\ pc = "idle"
    BY <1>1 DEF Init
  <2> QED BY <2>1 DEF PassesInv, BetweenInv, RoundInv, Leaves
<1>2. ASSUME PInv, PassesInv, BetweenInv, RoundInv, [Next]_vars
      PROVE  PassesInv' /\ BetweenInv' /\ RoundInv'
  BY <1>2, BetweenStep, RoundKept
<1>3. ASSUME PassesInv, BetweenInv PROVE TwoRepairsEnough
  <2> DEFINE w == Official(passes.version)
  <2> SUFFICES ASSUME pc = "idle", passes.count >= 2, NEW p \in DOMAIN w, ~FileRight(w, p)
               PROVE  /\ w[p] \in Gone
                      /\ \/ disk[p] = "dir" /\ ~Empty(p)
                         \/ passes.count = 2 /\ (Complete(req) => "not_replaced" \in counts)
    BY DEF TwoRepairsEnough, Wrong, Official
  <2>1. /\ Leaves(w, passes.count) /\ passes.count \in Nat /\ passes.version \in Versions
        /\ Complete(req) /\ "not_replaced" \notin counts => AllTidy(w)
    BY <1>3 DEF BetweenInv, PassesInv
  <2>2. ASSUME w[p] \notin Gone PROVE FALSE
    <3>1. RightAt(w, p)
      BY <2>1, <2>2 DEF Leaves
    <3>2. Seen(p) = disk[p]
      <4>1. CASE Parent[p] = Root
        BY <4>1 DEF Seen
      <4>2. CASE Parent[p] # Root
        <5>1. /\ Parent[p] \in DOMAIN w /\ w[Parent[p]] = "dir"
              /\ Parent[p] \notin StateFiles
          BY <2>1, <2>2, <4>2, ClosureHolds, TreeEntry DEF Official
        <5>2. RightAt(w, Parent[p])
          BY <2>1, <5>1 DEF Leaves, Gone
        <5> QED BY <4>2, <5>1, <5>2 DEF RightAt, Seen
      <4> QED BY <4>1, <4>2
    <3> QED BY <2>2, <3>1, <3>2 DEF RightAt, FileRight
  <2>3. ASSUME Tidy(w, p), w[p] \in Gone PROVE disk[p] = "dir" /\ ~Empty(p)
    <3>1. /\ w[p] # "ghost" /\ p \notin StateFiles \union BootFiles
          /\ InRealDir(p) /\ Seen(p) # "absent"
      BY <2>3 DEF FileRight
    <3>2. Seen(p) = disk[p]
      BY <3>1 DEF InRealDir, Seen
    <3> QED BY <2>3, <3>1, <3>2 DEF Tidy
  <2>4. passes.count # 2 => AllTidy(w)
    BY <2>1 DEF Leaves
  <2> QED BY <2>1, <2>2, <2>3, <2>4 DEF AllTidy
<1> QED BY <1>1, <1>2, <1>3, Invariance, PTL DEF Spec
=============================================================================

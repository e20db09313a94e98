--------------------------- MODULE ThirdPartyProofs ---------------------------
(***************************************************************************)
(* Theorems about ThirdParty, for all repositories, catalogs and commands: *)
(* a command changes the content of the repository it works on and of no   *)
(* other, from the url of that repository; a repository that is listed has *)
(* its content whenever a command is killed; every script runs a binary    *)
(* that is there; and the template on disk tells which swupd the scripts   *)
(* are of.  The first holds whatever fails.  The others are about names in *)
(* lower case: repo.ini knows no others.                                   *)
(*                                                                         *)
(* third_party_process_files goes through a list, and what it leaves is    *)
(* shown by induction on the list: that natural numbers are well-founded   *)
(* gives a least number at which a statement about it would fail.          *)
(***************************************************************************)
EXTENDS ThirdParty, TLAPS, WellFoundedInduction

\* The names are in lower case.
LowerNames == \A n \in Names : Lower[n] = n

----------------------------------------------------------------------------
(* Induction over a list.                                                  *)

\* A set of numbers that is not empty has a least one.
LEMMA LeastOf ==
  ASSUME NEW T \in SUBSET Nat, NEW t \in T
  PROVE  \E x \in T : \A y \in T : x <= y
<1> DEFINE R == {ss \in Nat \X Nat : ss[1] < ss[2]}
<1>1. IsWellFoundedOn(R, Nat)
  BY NatLessThanWellFounded DEF OpToRel
<1>2. T # {}
  OBVIOUS
<1> HIDE DEF R
<1>3. PICK x \in T : \A y \in T : ~(<<y, x>> \in R)
  BY <1>1, <1>2, WFMin
<1>4. \A y \in T : x <= y
  <2> TAKE y \in T
  <2>1. ~(<<y, x>> \in R)
    BY <1>3
  <2>2. ~(y < x)
    BY <2>1 DEF R
  <2> QED BY <2>2
<1> QED BY <1>4

\* What holds of 0 and goes from every number up to N to the next holds up to N.
LEMMA Induction ==
  ASSUME NEW N \in Nat, NEW S,
         0 \in S,
         \A i \in 1..N : i - 1 \in S => i \in S
  PROVE  \A i \in 0..N : i \in S
<1> DEFINE T == {i \in 0..N : i \notin S}
<1> SUFFICES ASSUME NEW t \in T PROVE FALSE
  OBVIOUS
<1>1. T \in SUBSET Nat
  OBVIOUS
<1>2. PICK x \in T : \A y \in T : x <= y
  BY <1>1, LeastOf
<1>3. x # 0
  OBVIOUS
<1>4. x \in 1..N /\ x - 1 \in 0..N
  BY <1>3
<1>5. x - 1 \in S
  <2> SUFFICES ASSUME x - 1 \notin S PROVE FALSE
    OBVIOUS
  <2>1. x - 1 \in T
    BY <1>4
  <2>2. x <= x - 1
    BY <1>2, <2>1
  <2> QED BY <2>2, <1>4
<1>6. x \in S
  BY <1>4, <1>5
<1> QED BY <1>6

----------------------------------------------------------------------------
(* third_party_process_files.                                              *)

\* The function of ProcessFiles up to the n-th file.
IsRun(run, what, n) ==
  run = [i \in 0..n |-> IF i = 0 THEN [scripts |-> script, ret |-> "ok"]
                                 ELSE ProcessFile(what, FileOrder[i], run[i - 1])]

\* There is one.
LEMMA RunExists ==
  ASSUME NEW what, NEW N \in Nat
  PROVE  \E run : IsRun(run, what, N)
<1> DEFINE S == {n \in 0..N : \E run : IsRun(run, what, n)}
<1>1. 0 \in S
  <2> DEFINE g == [i \in 0..0 |-> [scripts |-> script, ret |-> "ok"]]
  <2>1. IsRun(g, what, 0)
    BY DEF IsRun
  <2> QED BY <2>1
<1>2. ASSUME NEW n \in 1..N, n - 1 \in S
      PROVE  n \in S
  <2>1. PICK g : IsRun(g, what, n - 1)
    BY <1>2
  <2> DEFINE h == [i \in 0..n |-> IF i = n THEN ProcessFile(what, FileOrder[n], g[n - 1]) ELSE g[i]]
             k == [i \in 0..n |-> IF i = 0 THEN [scripts |-> script, ret |-> "ok"]
                                  ELSE ProcessFile(what, FileOrder[i], h[i - 1])]
  <2>2. \A i \in 0..(n - 1) :
          g[i] = IF i = 0 THEN [scripts |-> script, ret |-> "ok"]
                          ELSE ProcessFile(what, FileOrder[i], g[i - 1])
    BY <2>1 DEF IsRun
  <2>3. ASSUME NEW i \in 0..n PROVE h[i] = k[i]
    <3>1. CASE i = n
      <4>1. h[i - 1] = g[n - 1]
        BY <3>1
      <4> QED BY <3>1, <4>1
    <3>2. CASE i # n
      <4>1. i \in 0..(n - 1) /\ h[i] = g[i]
        BY <3>2
      <4>2. CASE i = 0
        BY <4>1, <4>2, <2>2
      <4>3. CASE i # 0
        <5>1. h[i - 1] = g[i - 1]
          BY <4>1, <4>3
        <5>2. k[i] = ProcessFile(what, FileOrder[i], h[i - 1])
          BY <4>3
        <5> QED BY <4>1, <4>3, <5>1, <5>2, <2>2
      <4> QED BY <4>2, <4>3
    <3> QED BY <3>1, <3>2
  <2>4. h = k
    BY <2>3
  <2>5. IsRun(h, what, n)
    BY <2>4 DEF IsRun
  <2> QED BY <2>5
<1> HIDE DEF S
<1>3. \A i \in 0..N : i \in S
  BY <1>1, <1>2, Induction
<1> QED BY <1>3 DEF S

\* Files are taken one after the other: a statement that every file carries on holds at
\* the end.  Q[i] is what is claimed after i files.
LEMMA FileByFile ==
  ASSUME NEW what, NEW Q, FileOrder \in Seq(Files),
         [scripts |-> script, ret |-> "ok"] \in Q[0],
         \A i \in 1..Len(FileOrder) : \A r \in Q[i - 1] : ProcessFile(what, FileOrder[i], r) \in Q[i]
  PROVE  ProcessFiles(what) \in Q[Len(FileOrder)]
<1> DEFINE N == Len(FileOrder)
           run == CHOOSE after : after = [i \in 0..N |-> IF i = 0 THEN [scripts |-> script, ret |-> "ok"]
                                 ELSE ProcessFile(what, FileOrder[i], after[i - 1])]
<1>1. N \in Nat
  OBVIOUS
<1>2. ProcessFiles(what) = run[N]
  BY DEF ProcessFiles
<1>3. \E after : IsRun(after, what, N)
  BY <1>1, RunExists
<1>4. IsRun(run, what, N)
  BY <1>3 DEF IsRun
<1> HIDE DEF run, N
<1>5. \A i \in 0..N : run[i] = IF i = 0 THEN [scripts |-> script, ret |-> "ok"]
                               ELSE ProcessFile(what, FileOrder[i], run[i - 1])
  BY <1>4 DEF IsRun
<1> DEFINE S == {i \in 0..N : run[i] \in Q[i]}
<1>6. 0 \in S
  BY <1>5, <1>1
<1>7. ASSUME NEW i \in 1..N, i - 1 \in S PROVE i \in S
  <2>1. run[i - 1] \in Q[i - 1]
    BY <1>7
  <2>2. run[i] = ProcessFile(what, FileOrder[i], run[i - 1])
    BY <1>5, <1>1
  <2>3. ProcessFile(what, FileOrder[i], run[i - 1]) \in Q[i]
    BY <2>1 DEF N
  <2> QED BY <2>2, <2>3, <1>1
<1> HIDE DEF S
<1>8. \A i \in 0..N : i \in S
  BY <1>1, <1>6, <1>7, Induction
<1>9. N \in S
  BY <1>1, <1>8
<1> QED BY <1>9, <1>2 DEF S, N

----------------------------------------------------------------------------
(* repo.ini.                                                               *)

Entries == [name : Names, url : Urls]

\* No name is there twice.
Unique(repos) == \A i, j \in DOMAIN repos : repos[i].name = repos[j].name => i = j

\* The function of Without up to the m-th entry.
IsPick(first, n, repos, m) ==
  first = [i \in 0..m |-> IF i = 0 THEN <<>>
             ELSE IF repos[i].name = n THEN first[i - 1] ELSE Append(first[i - 1], repos[i])]

\* There is one.
LEMMA PickExists ==
  ASSUME NEW n, NEW repos, NEW N \in Nat
  PROVE  \E first : IsPick(first, n, repos, N)
<1> DEFINE Pick(i, w) == IF repos[i].name = n THEN w ELSE Append(w, repos[i])
           S == {m \in 0..N : \E first : IsPick(first, n, repos, m)}
<1>1. 0 \in S
  <2> DEFINE g == [i \in 0..0 |-> <<>>]
  <2>1. IsPick(g, n, repos, 0)
    BY DEF IsPick
  <2> QED BY <2>1
<1>2. ASSUME NEW m \in 1..N, m - 1 \in S
      PROVE  m \in S
  <2>1. PICK g : IsPick(g, n, repos, m - 1)
    BY <1>2
  <2> DEFINE h == [i \in 0..m |-> IF i = m THEN Pick(m, g[m - 1]) ELSE g[i]]
             k == [i \in 0..m |-> IF i = 0 THEN <<>> ELSE Pick(i, h[i - 1])]
  <2>2. \A i \in 0..(m - 1) : g[i] = IF i = 0 THEN <<>> ELSE Pick(i, g[i - 1])
    BY <2>1 DEF IsPick
  <2> HIDE DEF Pick
  <2>3. ASSUME NEW i \in 0..m PROVE h[i] = k[i]
    <3>1. CASE i = m
      <4>1. h[i - 1] = g[m - 1]
        BY <3>1
      <4> QED BY <3>1, <4>1
    <3>2. CASE i # m
      <4>1. i \in 0..(m - 1) /\ h[i] = g[i]
        BY <3>2
      <4>2. CASE i = 0
        BY <4>1, <4>2, <2>2
      <4>3. CASE i # 0
        <5>1. h[i - 1] = g[i - 1]
          BY <4>1, <4>3
        <5>2. k[i] = Pick(i, h[i - 1])
          BY <4>3
        <5> QED BY <4>1, <4>3, <5>1, <5>2, <2>2
      <4> QED BY <4>2, <4>3
    <3> QED BY <3>1, <3>2
  <2>4. h = k
    BY <2>3
  <2>5. IsPick(h, n, repos, m)
    BY <2>4 DEF IsPick, Pick
  <2> QED BY <2>5
<1> HIDE DEF S
<1>3. \A i \in 0..N : i \in S
  BY <1>1, <1>2, Induction
<1> QED BY <1>3 DEF S

\* w has the first m of repos, without the entries of n.
Picked(w, n, repos, m) ==
  /\ w \in Seq(Entries)
  /\ \A j \in DOMAIN w : w[j].name # n /\ \E k \in 1..m : w[j] = repos[k]
  /\ \A k \in 1..m : repos[k].name # n => \E j \in DOMAIN w : w[j] = repos[k]
  /\ Unique(repos) => Unique(w)

\* list_remove takes out the entries of a name and no other.
LEMMA WithoutPicks ==
  ASSUME NEW n, NEW repos \in Seq(Entries)
  PROVE  Picked(Without(n, repos), n, repos, Len(repos))
<1> DEFINE N == Len(repos)
           first == CHOOSE g : g = [i \in 0..N |-> IF i = 0 THEN <<>>
                      ELSE IF repos[i].name = n THEN g[i - 1] ELSE Append(g[i - 1], repos[i])]
<1>1. N \in Nat /\ \A i \in 1..N : i \in DOMAIN repos /\ repos[i] \in Entries
  OBVIOUS
<1>2. Without(n, repos) = first[N]
  BY DEF Without
<1>3. \E g : IsPick(g, n, repos, N)
  BY <1>1, PickExists
<1>4. IsPick(first, n, repos, N)
  BY <1>3 DEF IsPick
<1> HIDE DEF first, N
<1>5. \A i \in 0..N : first[i] = IF i = 0 THEN <<>>
             ELSE IF repos[i].name = n THEN first[i - 1] ELSE Append(first[i - 1], repos[i])
  BY <1>4 DEF IsPick
<1> DEFINE S == {i \in 0..N : Picked(first[i], n, repos, i)}
<1>6. 0 \in S
  <2>1. first[0] = <<>>
    BY <1>1, <1>5
  <2>2. Picked(<<>>, n, repos, 0)
    BY DEF Picked, Unique
  <2> QED BY <1>1, <2>1, <2>2
<1>7. ASSUME NEW i \in 1..N, i - 1 \in S PROVE i \in S
  <2> DEFINE v == first[i - 1]
             w == first[i]
  <2>1. Picked(v, n, repos, i - 1)
    BY <1>7
  <2>2. w = IF repos[i].name = n THEN v ELSE Append(v, repos[i])
    BY <1>5, <1>1
  <2>3. i \in 0..N /\ i \in DOMAIN repos /\ repos[i] \in Entries
    BY <1>1
  <2> HIDE DEF v, w
  <2>4. \A k \in 1..i : k \in 1..(i - 1) \/ k = i
    BY <2>3
  <2>5. CASE repos[i].name = n
    <3>1. w = v
      BY <2>2, <2>5
    <3>2. Picked(v, n, repos, i)
      BY <2>1, <2>3, <2>4, <2>5 DEF Picked
    <3> QED BY <3>1, <3>2, <2>3 DEF w
  <2>6. CASE repos[i].name # n
    <3>1. w = Append(v, repos[i])
      BY <2>2, <2>6
    <3>2. v \in Seq(Entries)
      BY <2>1 DEF Picked
    <3>3. /\ w \in Seq(Entries) /\ DOMAIN w = 1..(Len(v) + 1) /\ DOMAIN v = 1..Len(v)
          /\ Len(v) \in Nat
          /\ \A j \in 1..Len(v) : w[j] = v[j]
          /\ w[Len(v) + 1] = repos[i]
      BY <3>1, <3>2, <2>3
    <3>4. \A j \in DOMAIN w : j \in DOMAIN v \/ j = Len(v) + 1
      BY <3>3
    <3>5. \A j \in DOMAIN w : w[j].name # n /\ \E k \in 1..i : w[j] = repos[k]
      <4> TAKE j \in DOMAIN w
      <4>1. CASE j \in DOMAIN v
        <5>1. w[j] = v[j] /\ v[j].name # n /\ \E k \in 1..(i - 1) : v[j] = repos[k]
          BY <4>1, <3>3, <2>1 DEF Picked
        <5> QED BY <5>1, <2>3
      <4>2. CASE j = Len(v) + 1
        BY <4>2, <3>3, <2>6, <2>3
      <4> QED BY <4>1, <4>2, <3>4
    <3>6. \A k \in 1..i : repos[k].name # n => \E j \in DOMAIN w : w[j] = repos[k]
      <4> TAKE k \in 1..i
      <4> HAVE repos[k].name # n
      <4>1. CASE k \in 1..(i - 1)
        <5>1. PICK j \in DOMAIN v : v[j] = repos[k]
          BY <4>1, <2>1 DEF Picked
        <5> QED BY <5>1, <3>3
      <4>2. CASE k = i
        BY <4>2, <3>3
      <4> QED BY <4>1, <4>2, <2>4
    <3>7. ASSUME Unique(repos) PROVE Unique(w)
      <4>1. \A j \in DOMAIN v : v[j].name # repos[i].name
        <5> TAKE j \in DOMAIN v
        <5>1. PICK k \in 1..(i - 1) : v[j] = repos[k]
          BY <2>1 DEF Picked
        <5>2. k \in DOMAIN repos /\ k # i
          BY <5>1, <2>3
        <5> QED BY <5>1, <5>2, <2>3, <3>7 DEF Unique
      <4>2. \A j, k \in DOMAIN v : v[j].name = v[k].name => j = k
        BY <2>1, <3>7 DEF Picked, Unique
      <4>3. \A j, k \in DOMAIN w : w[j].name = w[k].name => j = k
        BY <4>1, <4>2, <3>3, <3>4
      <4> QED BY <4>3 DEF Unique
    <3>8. Picked(w, n, repos, i)
      BY <3>3, <3>5, <3>6, <3>7 DEF Picked
    <3> QED BY <3>8, <2>3 DEF w
  <2> QED BY <2>5, <2>6
<1> HIDE DEF S
<1>8. \A i \in 0..N : i \in S
  BY <1>1, <1>6, <1>7, Induction
<1>9. N \in S
  BY <1>1, <1>8
<1> QED BY <1>9, <1>2 DEF S, N

\* What the sections hold.
LEMMA Sections ==
  ASSUME ini \in Seq(Entries)
  PROVE  /\ DOMAIN Repos = DOMAIN ini /\ DOMAIN ini = 1..Len(ini) /\ Len(ini) \in Nat
         /\ \A i \in DOMAIN ini :
              /\ ini[i] \in Entries /\ ini[i].name \in Names /\ ini[i].url \in Urls
              /\ Repos[i].name = Lower[ini[i].name] /\ Repos[i].url = ini[i].url
<1>1. DOMAIN ini = 1..Len(ini) /\ Len(ini) \in Nat /\ \A i \in DOMAIN ini : ini[i] \in Entries
  OBVIOUS
<1>2. \A i \in DOMAIN ini : ini[i].name \in Names /\ ini[i].url \in Urls
  BY <1>1 DEF Entries
<1>3. DOMAIN Repos = DOMAIN ini
  BY DEF Repos
<1>4. \A i \in DOMAIN ini : Repos[i].name = Lower[ini[i].name] /\ Repos[i].url = ini[i].url
  BY DEF Repos
<1> QED BY <1>1, <1>2, <1>3, <1>4

\* A repository of repo.ini has the url of its last section.
LEMMA UrlOfOne ==
  ASSUME ini \in Seq(Entries), Lower \in [Names -> Names], NEW n \in RepoNames
  PROVE  /\ n \in Names /\ UrlOf(n) \in Urls
         /\ \E i \in DOMAIN ini : Lower[ini[i].name] = n /\ UrlOf(n) = ini[i].url
<1>1. /\ DOMAIN Repos = DOMAIN ini /\ DOMAIN ini = 1..Len(ini) /\ Len(ini) \in Nat
      /\ \A i \in DOMAIN ini : /\ ini[i].name \in Names /\ ini[i].url \in Urls
                               /\ Repos[i].name = Lower[ini[i].name] /\ Repos[i].url = ini[i].url
  BY Sections
<1>2. PICK i0 \in DOMAIN Repos : Repos[i0].name = n
  BY DEF RepoNames
<1> DEFINE T == {k \in Nat : \A j \in DOMAIN Repos : Repos[j].name = n => j <= k}
           Last(i) == Repos[i].name = n /\ \A j \in DOMAIN Repos : Repos[j].name = n => j <= i
<1>3. T \in SUBSET Nat /\ Len(ini) \in T
  BY <1>1
<1>4. PICK x \in T : \A y \in T : x <= y
  BY <1>3, LeastOf
<1>5. i0 <= x /\ x \in Nat /\ i0 \in 1..Len(ini) /\ x <= Len(ini)
  BY <1>1, <1>2, <1>3, <1>4
<1>6. x \in DOMAIN Repos
  BY <1>5, <1>1
<1>7. Repos[x].name = n
  <2> SUFFICES ASSUME Repos[x].name # n PROVE FALSE
    OBVIOUS
  <2>1. \A j \in DOMAIN Repos : Repos[j].name = n => j <= x - 1
    <3> TAKE j \in DOMAIN Repos
    <3> HAVE Repos[j].name = n
    <3>1. j <= x /\ j # x /\ j \in Nat
      BY <1>1, <1>4
    <3> QED BY <3>1, <1>5
  <2>2. x - 1 \in T
    BY <2>1, <1>5, <1>1
  <2>3. x <= x - 1
    BY <2>2, <1>4
  <2> QED BY <2>3, <1>5
<1>8. Last(x)
  BY <1>4, <1>6, <1>7
<1>9. UrlOf(n) = Repos[CHOOSE i \in DOMAIN Repos : Last(i)].url
  BY DEF UrlOf
<1> HIDE DEF Last
<1>10. (CHOOSE i \in DOMAIN Repos : Last(i)) \in DOMAIN Repos /\ Last(CHOOSE i \in DOMAIN Repos : Last(i))
  BY <1>6, <1>8
<1>11. PICK i \in DOMAIN Repos : Last(i) /\ UrlOf(n) = Repos[i].url
  BY <1>9, <1>10
<1>12. Lower[ini[i].name] = n /\ UrlOf(n) = ini[i].url
  BY <1>11, <1>1 DEF Last
<1> QED BY <1>12, <1>1

\* With names in lower case, each of them once, the url is that of the section.
LEMMA UrlOfSection ==
  ASSUME ini \in Seq(Entries), Lower \in [Names -> Names], LowerNames, Unique(ini),
         NEW i \in DOMAIN ini
  PROVE  ini[i].name \in RepoNames /\ UrlOf(ini[i].name) = ini[i].url
<1> DEFINE n == ini[i].name
<1>1. /\ DOMAIN Repos = DOMAIN ini
      /\ \A j \in DOMAIN ini : ini[j].name \in Names /\ Repos[j].name = ini[j].name
  BY Sections DEF LowerNames
<1>2. n \in RepoNames
  BY <1>1 DEF RepoNames
<1>3. PICK j \in DOMAIN ini : Lower[ini[j].name] = n /\ UrlOf(n) = ini[j].url
  BY <1>2, UrlOfOne
<1>4. ini[j].name = n
  BY <1>1, <1>3 DEF LowerNames
<1>5. j = i
  BY <1>4 DEF Unique
<1> QED BY <1>2, <1>3, <1>5

\* The names of repo.ini.
LEMMA NamesOfSections ==
  ASSUME ini \in Seq(Entries), LowerNames
  PROVE  RepoNames = {ini[i].name : i \in DOMAIN ini}
<1>1. DOMAIN Repos = DOMAIN ini /\ \A i \in DOMAIN ini : Repos[i].name = ini[i].name
  BY Sections DEF LowerNames
<1> QED BY <1>1 DEF RepoNames

\* Nothing that is said of repo.ini changes with other variables.
LEMMA SameIni ==
  ASSUME ini' = ini
  PROVE  RepoNames' = RepoNames /\ NamesInOrder' = NamesInOrder /\ Repos' = Repos
BY DEF RepoNames, Repos, NamesInOrder

LEMMA SameUrl ==
  ASSUME ini' = ini, NEW n
  PROVE  UrlOf(n)' = UrlOf(n)
BY DEF UrlOf, Repos

----------------------------------------------------------------------------
(* Whose content a command is about to change.                             *)

Adding == {"import", "confirm", "add_core", "add_repo"}
Removing == {"remove_ini", "rewrite_ini", "remove_dir", "remove_scripts"}
Working == {"process", "post"}

BaseType ==
  /\ ini \in Seq(Entries)
  /\ DOMAIN home = Names /\ DOMAIN disk = Names \union {Main}
  /\ cmd \in Commands \union {None}

\* Where the command is: what it works on, and what the globals are.
CommandInv ==
  /\ cmd = None <=> pc = "idle"
  /\ pc \in {"add"} \union Adding => cmd \in Commands /\ cmd.op = "add" /\ cur = cmd.repo
  /\ pc \in {"remove"} \union Removing => cur \in Names
  /\ pc \in {"setup"} \union Working => cur \in RepoNames
  /\ pc \in Adding => place = cur /\ url = cmd.url
  /\ pc \in Working => place = cur /\ url = UrlOf(cur)

\* What a command still has to do when repo.ini, or the scripts, are written again.
TodoInv ==
  /\ pc = "rewrite_ini" => todo \in Seq(Entries)
  /\ pc = "regenerate" => todo \in Seq(RepoNames)

BaseInv == BaseType /\ CommandInv /\ TodoInv

USE DEF disks, locals, rest, vars

\* A command that is over, or done with one repository or bundle, leaves repo.ini and
\* the directories of the repositories where they are.
Quiet ==
  /\ ini' = ini /\ DOMAIN home' = DOMAIN home /\ DOMAIN disk' = DOMAIN disk
  /\ \/ cmd' = None /\ pc' = "idle"
     \/ pc # "idle" /\ cmd' = cmd /\ pc' \in {"select", "next"}

LEMMA QuietKeeps ==
  ASSUME BaseInv, Quiet
  PROVE  BaseInv'
<1>1. BaseType'
  BY DEF BaseInv, BaseType, Quiet
<1>2. CommandInv' /\ TodoInv'
  BY DEF BaseInv, CommandInv, TodoInv, Quiet, Adding, Removing, Working
<1> QED BY <1>1, <1>2 DEF BaseInv

LEMMA FinishIsQuiet ==
  ASSUME NEW code, Finish(code), UNCHANGED <<ini, home, disk>>
  PROVE  Quiet
BY DEF Finish, Quiet

LEMMA DoneIsQuiet ==
  ASSUME NEW code, Done(code), pc \in {"setup", "process", "post"}, UNCHANGED <<ini, home, disk>>
  PROVE  Quiet
BY DEF Done, Quiet

\* The directory of a repository stays one of them.
LEMMA RemoveKeepsDomains ==
  ASSUME NEW n, RemoveRepoDirectory(n)
  PROVE  DOMAIN home' = DOMAIN home /\ DOMAIN disk' = DOMAIN disk
BY DEF RemoveRepoDirectory

LEMMA BaseInit ==
  ASSUME Init
  PROVE  BaseInv
<1>1. BaseType
  BY DEF Init, BaseType
<1>2. CommandInv /\ TodoInv
  BY DEF Init, CommandInv, TodoInv, Adding, Removing, Working
<1> QED BY <1>1, <1>2 DEF BaseInv

LEMMA BaseStart ==
  ASSUME BaseInv, NEW c \in Commands, StartOne(c) \/ StartBundles(c) \/ StartRepos(c)
  PROVE  BaseInv'
<1> USE ThirdPartyAssumption
<1>1. BaseType'
  BY DEF BaseInv, BaseType, StartOne, StartBundles, StartRepos
<1>2. c # None
  OBVIOUS
<1>3. CASE StartOne(c)
  <2>1. pc' = c.op /\ c.op \in {"add", "remove"} /\ cmd' = c /\ cur' = c.repo /\ c.repo \in Names
    BY <1>3 DEF StartOne
  <2>2. CommandInv' /\ TodoInv'
    BY <2>1, <1>2 DEF CommandInv, TodoInv, Adding, Removing, Working
  <2> QED BY <1>1, <2>2 DEF BaseInv
<1>4. CASE StartBundles(c) \/ StartRepos(c)
  <2>1. pc' \in {"select", "next"} /\ cmd' = c
    BY <1>4 DEF StartBundles, StartRepos
  <2>2. CommandInv' /\ TodoInv'
    BY <2>1, <1>2 DEF CommandInv, TodoInv, Adding, Removing, Working
  <2> QED BY <1>1, <2>2 DEF BaseInv
<1> QED BY <1>3, <1>4

LEMMA BaseAdd ==
  ASSUME BaseInv,
         AddRefused \/ AddSetUp \/ ImportCertificate \/ ConfirmCertificate \/ AddCore \/ AddRepo
  PROVE  BaseInv'
<1> USE ThirdPartyAssumption
<1>1. CASE AddRefused
  <2>1. \E code : Finish(code) /\ UNCHANGED <<ini, home, disk>>
    BY <1>1 DEF AddRefused
  <2> QED BY <2>1, FinishIsQuiet, QuietKeeps
<1>2. CASE AddSetUp
  <2>1. /\ pc = "add" /\ ini' = ini
        /\ DOMAIN home' = DOMAIN home /\ DOMAIN disk' = DOMAIN disk
    BY <1>2, RemoveKeepsDomains DEF AddSetUp
  <2>2. CASE pc' = "import" /\ place' = cur /\ url' = cmd.url /\ UNCHANGED <<cmd, cur>>
    <3>1. BaseType'
      BY <2>1, <2>2 DEF BaseInv, BaseType
    <3>2. CommandInv' /\ TodoInv'
      BY <2>1, <2>2 DEF BaseInv, CommandInv, TodoInv, Adding, Removing, Working
    <3> QED BY <3>1, <3>2 DEF BaseInv
  <2>3. CASE cmd' = None /\ pc' = "idle"
    <3>1. Quiet
      BY <2>1, <2>3 DEF Quiet
    <3> QED BY <3>1, QuietKeeps
  <2> QED BY <1>2, <2>2, <2>3 DEF AddSetUp, Finish
<1>3. CASE ImportCertificate \/ ConfirmCertificate \/ AddCore
  <2>1. /\ pc \in Adding /\ ini' = ini
        /\ DOMAIN home' = DOMAIN home /\ DOMAIN disk' = DOMAIN disk
    BY <1>3, RemoveKeepsDomains DEF ImportCertificate, ConfirmCertificate, AddCore, Adding
  <2>2. CASE pc' \in Adding /\ UNCHANGED <<cmd, cur, place, url>>
    <3>1. BaseType'
      BY <2>1, <2>2 DEF BaseInv, BaseType
    <3>2. CommandInv' /\ TodoInv'
      BY <2>1, <2>2 DEF BaseInv, CommandInv, TodoInv, Adding, Removing, Working
    <3> QED BY <3>1, <3>2 DEF BaseInv
  <2>3. CASE cmd' = None /\ pc' = "idle"
    <3>1. Quiet
      BY <2>1, <2>3 DEF Quiet
    <3> QED BY <3>1, QuietKeeps
  <2> QED BY <1>3, <2>2, <2>3 DEF ImportCertificate, ConfirmCertificate, AddCore, Finish, Adding
<1>4. CASE AddRepo
  <2>1. /\ pc = "add_repo" /\ cmd' = None /\ pc' = "idle"
        /\ DOMAIN home' = DOMAIN home /\ DOMAIN disk' = DOMAIN disk
    BY <1>4, RemoveKeepsDomains DEF AddRepo, Finish
  <2>2. cur \in Names /\ cmd.url \in Urls
    BY <2>1 DEF BaseInv, CommandInv, Adding
  <2>3. [name |-> cur, url |-> cmd.url] \in Entries
    BY <2>2 DEF Entries
  <2>4. ini' \in Seq(Entries)
    <3>1. ini \in Seq(Entries)
      BY DEF BaseInv, BaseType
    <3>2. ini' = ini \/ ini' = Append(ini, [name |-> cur, url |-> cmd.url])
      BY <1>4 DEF AddRepo
    <3> DEFINE e == [name |-> cur, url |-> cmd.url]
    <3> HIDE DEF e
    <3>3. Append(ini, e) \in Seq(Entries)
      BY <3>1, <2>3 DEF e
    <3> QED BY <3>1, <3>2, <3>3 DEF e
  <2>5. BaseType'
    BY <2>1, <2>4 DEF BaseInv, BaseType
  <2>6. CommandInv' /\ TodoInv'
    BY <2>1 DEF CommandInv, TodoInv, Adding, Removing, Working
  <2> QED BY <2>5, <2>6 DEF BaseInv
<1> QED BY <1>1, <1>2, <1>3, <1>4

\* The entries of a part of a list are entries of it.
LEMMA SubSeqOf ==
  ASSUME NEW S, NEW s \in Seq(S), NEW k \in 0..Len(s)
  PROVE  /\ SubSeq(s, 1, k) \in Seq(S) /\ DOMAIN SubSeq(s, 1, k) = 1..k
         /\ \A i \in 1..k : i \in DOMAIN s /\ SubSeq(s, 1, k)[i] = s[i]
<1>1. Len(s) \in Nat /\ k \in Nat /\ k <= Len(s)
  OBVIOUS
<1>2. \A i \in 1..k : i \in 1..Len(s)
  BY <1>1
<1> QED BY <1>1, <1>2

LEMMA BaseRemove ==
  ASSUME BaseInv,
         RemoveNotFound \/ RemoveLoad \/ RemoveIni \/ RewriteIni \/ RemoveDir \/ RemoveScripts
  PROVE  BaseInv'
<1> USE ThirdPartyAssumption
<1>1. CASE RemoveNotFound \/ RemoveScripts
  <2>1. \E code : Finish(code) /\ UNCHANGED <<ini, home, disk>>
    BY <1>1 DEF RemoveNotFound, RemoveScripts
  <2> QED BY <2>1, FinishIsQuiet, QuietKeeps
<1>2. CASE RemoveLoad \/ RemoveDir
  <2>1. /\ pc \in {"remove", "remove_dir"} /\ ini' = ini
        /\ DOMAIN home' = DOMAIN home /\ DOMAIN disk' = DOMAIN disk
    BY <1>2, RemoveKeepsDomains DEF RemoveLoad, RemoveDir
  <2>2. CASE pc' \in {"remove_ini", "remove_scripts"} /\ UNCHANGED <<cmd, cur>>
    <3>1. BaseType'
      BY <2>1, <2>2 DEF BaseInv, BaseType
    <3>2. CommandInv' /\ TodoInv'
      BY <2>1, <2>2 DEF BaseInv, CommandInv, TodoInv, Adding, Removing, Working
    <3> QED BY <3>1, <3>2 DEF BaseInv
  <2>3. CASE cmd' = None /\ pc' = "idle"
    <3>1. Quiet
      BY <2>1, <2>3 DEF Quiet
    <3> QED BY <3>1, QuietKeeps
  <2> QED BY <1>2, <2>2, <2>3 DEF RemoveLoad, RemoveDir, Finish
<1>3. CASE RemoveIni
  <2>1. pc = "remove_ini" /\ pc' \in {"rewrite_ini", "remove_dir"} /\ UNCHANGED <<home, disk, cmd, cur>>
    BY <1>3 DEF RemoveIni
  <2>2. ini \in Seq(Entries)
    BY DEF BaseInv, BaseType
  <2>3. ini' \in Seq(Entries)
    <3>1. ini' = <<>> \/ ini' = ini
      BY <1>3 DEF RemoveIni
    <3>2. <<>> \in Seq(Entries)
      OBVIOUS
    <3> QED BY <2>2, <3>1, <3>2
  <2>4. pc' = "rewrite_ini" => todo' \in Seq(Entries)
    <3> DEFINE repos == [i \in DOMAIN Repos |-> Repos[i]]
    <3>1. \A i \in DOMAIN ini : Repos[i] \in Entries
      BY <2>2, Sections DEF Repos, Entries
    <3>2. repos \in Seq(Entries)
      BY <3>1, <2>2, Sections
    <3>3. pc' = "rewrite_ini" => todo' = repos
      BY <1>3 DEF RemoveIni
    <3> QED BY <3>2, <3>3
  <2>5. BaseType'
    BY <2>1, <2>3 DEF BaseInv, BaseType
  <2>6. CommandInv' /\ TodoInv'
    BY <2>1, <2>4 DEF BaseInv, CommandInv, TodoInv, Adding, Removing, Working
  <2> QED BY <2>5, <2>6 DEF BaseInv
<1>4. CASE RewriteIni
  <2> DEFINE kept == Without(cur, todo)
  <2>1. pc = "rewrite_ini" /\ UNCHANGED <<home, disk>>
    BY <1>4 DEF RewriteIni
  <2>2. todo \in Seq(Entries)
    BY <2>1 DEF BaseInv, TodoInv
  <2>3. kept \in Seq(Entries)
    BY <2>2, WithoutPicks DEF Picked
  <2> HIDE DEF kept
  <2>4. ini' = kept \/ \E k \in 0..Len(kept) - 1 : ini' = SubSeq(kept, 1, k)
    BY <1>4 DEF RewriteIni, kept
  <2>5. \A k \in 0..Len(kept) - 1 : k \in 0..Len(kept)
    BY <2>3
  <2>6. ini' \in Seq(Entries)
    <3>1. CASE ini' = kept
      BY <2>3, <3>1
    <3>2. CASE \E k \in 0..Len(kept) - 1 : ini' = SubSeq(kept, 1, k)
      <4>1. PICK k \in 0..Len(kept) - 1 : ini' = SubSeq(kept, 1, k)
        BY <3>2
      <4>2. SubSeq(kept, 1, k) \in Seq(Entries)
        BY <2>3, <2>5, SubSeqOf
      <4> QED BY <4>1, <4>2
    <3> QED BY <2>4, <3>1, <3>2
  <2>7. BaseType' /\ CommandInv' /\ TodoInv'
    <3>1. CASE pc' = "remove_dir" /\ UNCHANGED <<cmd, cur>>
      <4>1. BaseType'
        BY <2>1, <2>6, <3>1 DEF BaseInv, BaseType
      <4>2. CommandInv' /\ TodoInv'
        BY <2>1, <3>1 DEF BaseInv, CommandInv, TodoInv, Adding, Removing, Working
      <4> QED BY <4>1, <4>2
    <3>2. CASE cmd' = None /\ pc' = "idle"
      <4>1. BaseType'
        BY <2>1, <2>6, <3>2 DEF BaseInv, BaseType
      <4>2. CommandInv' /\ TodoInv'
        BY <2>1, <3>2 DEF BaseInv, CommandInv, TodoInv, Adding, Removing, Working
      <4> QED BY <4>1, <4>2
    <3> QED BY <1>4, <3>1, <3>2 DEF RewriteIni, Finish
  <2> QED BY <2>7 DEF BaseInv
<1> QED BY <1>1, <1>2, <1>3, <1>4

LEMMA BaseSelect ==
  ASSUME BaseInv, Select \/ SelectUnknown \/ NextRepo \/ SetUp
  PROVE  BaseInv'
<1>1. CASE SelectUnknown
  <2>1. \E code : Finish(code) /\ UNCHANGED <<ini, home, disk>>
    BY <1>1 DEF SelectUnknown
  <2> QED BY <2>1, FinishIsQuiet, QuietKeeps
<1>2. CASE Select \/ NextRepo
  <2>1. pc \in {"select", "next"} /\ UNCHANGED <<ini, home, disk, cmd>>
    BY <1>2 DEF Select, NextRepo
  <2>2. CASE pc' = "setup" /\ cur' \in RepoNames
    <3>1. BaseType'
      BY <2>1 DEF BaseInv, BaseType
    <3>2. RepoNames' = RepoNames
      BY <2>1, SameIni
    <3>3. CommandInv' /\ TodoInv'
      BY <2>1, <2>2, <3>2 DEF BaseInv, CommandInv, TodoInv, Adding, Removing, Working
    <3> QED BY <3>1, <3>3 DEF BaseInv
  <2>3. CASE pc' = pc
    <3>1. Quiet
      BY <2>1, <2>3 DEF Quiet
    <3> QED BY <3>1, QuietKeeps
  <2>4. CASE NextRepo
    BY <2>4, <2>2 DEF NextRepo
  <2>5. CASE Select
    BY <2>5, <2>2, <2>3 DEF Select, Finders
  <2> QED BY <1>2, <2>4, <2>5
<1>3. CASE SetUp
  <2>1. pc = "setup" /\ UNCHANGED <<ini, home, disk>>
    BY <1>3 DEF SetUp
  <2>2. CASE SetRepo(cur) /\ pc' = "process" /\ UNCHANGED <<cmd, cur>>
    <3>1. BaseType'
      BY <2>1, <2>2 DEF BaseInv, BaseType
    <3>2. RepoNames' = RepoNames /\ UrlOf(cur)' = UrlOf(cur)
      <4>1. RepoNames' = RepoNames
        BY <2>1, SameIni
      <4>2. UrlOf(cur)' = UrlOf(cur)
        BY <2>1, <2>2 DEF UrlOf, Repos
      <4> QED BY <4>1, <4>2
    <3>3. url' = UrlOf(cur) /\ place' = cur
      BY <2>2 DEF SetRepo
    <3>4. CommandInv' /\ TodoInv'
      BY <2>1, <2>2, <3>2, <3>3 DEF BaseInv, CommandInv, TodoInv, Adding, Removing, Working
    <3> QED BY <3>1, <3>4 DEF BaseInv
  <2>3. CASE Done("signature_failed")
    BY <2>1, <2>3, DoneIsQuiet, QuietKeeps
  <2> QED BY <1>3, <2>2, <2>3 DEF SetUp
<1> QED BY <1>1, <1>2, <1>3

LEMMA BaseProcess ==
  ASSUME BaseInv,
         \/ ProcessFails \/ AddBundleRefused \/ RemoveBundleRefused \/ UpToDate \/ PermissionsRefused
         \/ CleanRepo \/ DiagnoseRepo \/ CheckUpdateRepo \/ ListRepo \/ InfoRepo \/ InfoBundle
         \/ AddBundle \/ RemoveBundle \/ UpdateRepo \/ RepairRepo \/ Post
  PROVE  BaseInv'
<1>1. CASE \/ ProcessFails \/ AddBundleRefused \/ RemoveBundleRefused \/ UpToDate \/ PermissionsRefused
           \/ CleanRepo \/ DiagnoseRepo \/ CheckUpdateRepo \/ ListRepo \/ InfoRepo \/ InfoBundle
  <2>1. \E code : Done(code) /\ pc = "process" /\ UNCHANGED <<ini, home, disk>>
    BY <1>1 DEF ProcessFails, AddBundleRefused, RemoveBundleRefused, UpToDate, PermissionsRefused,
                CleanRepo, DiagnoseRepo, CheckUpdateRepo, ListRepo, InfoRepo, InfoBundle
  <2> QED BY <2>1, DoneIsQuiet, QuietKeeps
<1>2. CASE Post
  <2>1. \E code : Done(code) /\ pc = "post" /\ UNCHANGED <<ini, home, disk>>
    BY <1>2 DEF Post
  <2> QED BY <2>1, DoneIsQuiet, QuietKeeps
<1>3. CASE AddBundle \/ RemoveBundle \/ UpdateRepo \/ RepairRepo
  <2>1. /\ pc = "process" /\ pc' = "post" /\ UNCHANGED <<ini, cmd, cur, place, url, todo>>
        /\ DOMAIN home' = DOMAIN home /\ DOMAIN disk' = DOMAIN disk
    BY <1>3 DEF AddBundle, RemoveBundle, UpdateRepo, RepairRepo
  <2>2. BaseType'
    BY <2>1 DEF BaseInv, BaseType
  <2>3. RepoNames' = RepoNames /\ UrlOf(cur)' = UrlOf(cur)
    <3>1. RepoNames' = RepoNames
      BY <2>1, SameIni
    <3>2. UrlOf(cur)' = UrlOf(cur)
      BY <2>1 DEF UrlOf, Repos
    <3> QED BY <3>1, <3>2
  <2>4. CommandInv' /\ TodoInv'
    BY <2>1, <2>3 DEF BaseInv, CommandInv, TodoInv, Adding, Removing, Working
  <2> QED BY <2>2, <2>4 DEF BaseInv
<1> QED BY <1>1, <1>2, <1>3

LEMMA BaseEnd ==
  ASSUME BaseInv, End \/ Outdated \/ Regenerate \/ WriteTemplate
  PROVE  BaseInv'
<1>1. CASE End \/ WriteTemplate
  <2>1. \E code : Finish(code) /\ UNCHANGED <<ini, home, disk>>
    BY <1>1 DEF End, WriteTemplate
  <2> QED BY <2>1, FinishIsQuiet, QuietKeeps
<1>2. CASE Outdated \/ Regenerate
  <2>1. /\ pc \in {"next", "regenerate"} /\ pc' = "regenerate"
        /\ UNCHANGED <<ini, home, disk, cmd>>
    BY <1>2 DEF Outdated, Regenerate
  <2>2. BaseType'
    BY <2>1 DEF BaseInv, BaseType
  <2>3. todo' \in Seq(RepoNames)
    <3>1. CASE Outdated
      <4>1. ini \in Seq(Entries)
        BY DEF BaseInv, BaseType
      <4>2. \A i \in DOMAIN Repos : Repos[i].name \in RepoNames
        BY DEF RepoNames
      <4>3. NamesInOrder \in Seq(RepoNames)
        BY <4>1, <4>2, Sections DEF NamesInOrder
      <4> QED BY <3>1, <4>3 DEF Outdated
    <3>2. CASE Regenerate
      <4>1. pc = "regenerate" /\ todo # <<>> /\ todo' = Tail(todo)
        BY <3>2 DEF Regenerate
      <4>2. todo \in Seq(RepoNames)
        BY <4>1 DEF BaseInv, TodoInv
      <4> QED BY <4>1, <4>2
    <3> QED BY <1>2, <3>1, <3>2
  <2>4. RepoNames' = RepoNames
    BY <2>1, SameIni
  <2>5. CommandInv' /\ TodoInv'
    BY <2>1, <2>3, <2>4 DEF BaseInv, CommandInv, TodoInv, Adding, Removing, Working
  <2> QED BY <2>2, <2>5 DEF BaseInv
<1> QED BY <1>1, <1>2

LEMMA BaseAround ==
  ASSUME BaseInv, (\E u \in Urls : Publish(u)) \/ NewTemplate \/ Kill \/ UNCHANGED vars
  PROVE  BaseInv'
<1>1. CASE Kill
  <2>1. \E code : Finish(code) /\ UNCHANGED <<ini, home, disk>>
    BY <1>1 DEF Kill
  <2> QED BY <2>1, FinishIsQuiet, QuietKeeps
<1>2. CASE (\E u \in Urls : Publish(u)) \/ NewTemplate \/ UNCHANGED vars
  <2>1. UNCHANGED <<ini, home, disk, cmd, pc, todo, cur, place, url>>
    BY <1>2 DEF Publish, NewTemplate
  <2>2. BaseType'
    BY <2>1 DEF BaseInv, BaseType
  <2>3. RepoNames' = RepoNames /\ UrlOf(cur)' = UrlOf(cur)
    <3>1. RepoNames' = RepoNames
      BY <2>1, SameIni
    <3>2. UrlOf(cur)' = UrlOf(cur)
      BY <2>1 DEF UrlOf, Repos
    <3> QED BY <3>1, <3>2
  <2>4. CommandInv' /\ TodoInv'
    BY <2>1, <2>3 DEF BaseInv, CommandInv, TodoInv
  <2> QED BY <2>2, <2>4 DEF BaseInv
<1> QED BY <1>1, <1>2

LEMMA BaseNext ==
  ASSUME BaseInv, [Next]_vars
  PROVE  BaseInv'
BY BaseStart, BaseAdd, BaseRemove, BaseSelect, BaseProcess, BaseEnd, BaseAround DEF Next

\* A command knows at all times which repository it works on: what it will change is in
\* the directory of that repository, and comes from its url.
THEOREM Bearings == Spec => []BaseInv
<1>1. Init => BaseInv
  BY BaseInit
<1>2. BaseInv /\ [Next]_vars => BaseInv'
  BY BaseNext
<1> QED BY <1>1, <1>2, PTL DEF Spec

\* A step changes the content of the repository the command works on, or nothing.
LEMMA OnlyCur ==
  ASSUME BaseInv, [Next]_vars
  PROVE  \/ UNCHANGED <<home, disk>>
         \/ /\ cur \in Names /\ (pc = "process" => place = cur /\ url = UrlOf(cur))
            /\ \A n \in Names : n # cur => home'[n] = home[n] /\ disk'[n] = disk[n]
            /\ disk'[Main] = disk[Main]
<1> USE ThirdPartyAssumption
<1> DEFINE Own == /\ cur \in Names /\ (pc = "process" => place = cur /\ url = UrlOf(cur))
                  /\ \A n \in Names : n # cur => home'[n] = home[n] /\ disk'[n] = disk[n]
                  /\ disk'[Main] = disk[Main]
<1>1. DOMAIN home = Names /\ DOMAIN disk = Names \union {Main} /\ Main \notin Names
  BY DEF BaseInv, BaseType
<1>2. ASSUME NEW h, NEW d, cur \in Names, pc = "process" => place = cur /\ url = UrlOf(cur),
             home' = [home EXCEPT ![cur] = h], disk' = [disk EXCEPT ![cur] = d]
      PROVE  Own
  BY <1>1, <1>2
<1>3. ASSUME RemoveRepoDirectory(cur), cur \in Names, pc # "process"
      PROVE  Own
  BY <1>2, <1>3 DEF RemoveRepoDirectory
<1>4. CASE AddSetUp \/ AddRepo \/ RemoveDir
  <2>1. cur \in Names /\ pc # "process"
    BY <1>4 DEF AddSetUp, AddRepo, RemoveDir, BaseInv, CommandInv, Adding, Removing
  <2>2. UNCHANGED <<home, disk>> \/ RemoveRepoDirectory(cur)
    BY <1>4 DEF AddSetUp, AddRepo, RemoveDir
  <2> QED BY <2>1, <2>2, <1>3
<1>5. CASE AddCore
  <2>1. cur \in Names /\ pc # "process" /\ place = cur
    BY <1>5 DEF AddCore, BaseInv, CommandInv, Adding
  <2>2. CASE RemoveRepoDirectory(cur)
    BY <2>1, <2>2, <1>3
  <2>3. CASE /\ home' = [home EXCEPT ![place] = Content(latest[url], {Core})]
             /\ disk' = [disk EXCEPT ![place] = FilesOf(url, latest[url], {Core})]
    BY <2>1, <2>3, <1>2
  <2> QED BY <1>5, <2>2, <2>3 DEF AddCore
<1>6. CASE AddBundle \/ RemoveBundle \/ UpdateRepo \/ RepairRepo
  <2>1. cur \in RepoNames /\ place = cur /\ url = UrlOf(cur)
    BY <1>6 DEF AddBundle, RemoveBundle, UpdateRepo, RepairRepo, BaseInv, CommandInv, Working
  <2>2. cur \in Names
    BY <2>1, UrlOfOne DEF BaseInv, BaseType
  <2>3. /\ \A n \in Names : n # place => home'[n] = home[n]
        /\ \A n \in Names \union {Main} : n # place => disk'[n] = disk[n]
    <3>1. CASE AddBundle
      BY <3>1, <1>1 DEF AddBundle
    <3>2. CASE RemoveBundle
      BY <3>2, <1>1 DEF RemoveBundle
    <3>3. CASE UpdateRepo
      BY <3>3, <1>1 DEF UpdateRepo
    <3>4. CASE RepairRepo
      BY <3>4, <1>1 DEF RepairRepo
    <3> QED BY <1>6, <3>1, <3>2, <3>3, <3>4
  <2>4. Main # place
    BY <2>1, <2>2, <1>1
  <2> QED BY <2>1, <2>2, <2>3, <2>4
<1>7. CASE \/ \E c \in Commands : StartOne(c) \/ StartBundles(c) \/ StartRepos(c)
           \/ AddRefused \/ ImportCertificate \/ ConfirmCertificate
           \/ RemoveNotFound \/ RemoveLoad \/ RemoveIni \/ RewriteIni \/ RemoveScripts
  BY <1>7 DEF StartOne, StartBundles, StartRepos, AddRefused, ImportCertificate, ConfirmCertificate,
              RemoveNotFound, RemoveLoad, RemoveIni, RewriteIni, RemoveScripts
<1>8. CASE \/ Select \/ SelectUnknown \/ NextRepo \/ SetUp \/ ProcessFails \/ AddBundleRefused
           \/ RemoveBundleRefused \/ UpToDate \/ PermissionsRefused \/ Post \/ CleanRepo \/ DiagnoseRepo
           \/ CheckUpdateRepo \/ ListRepo \/ InfoRepo \/ InfoBundle
  BY <1>8 DEF Select, SelectUnknown, NextRepo, SetUp, ProcessFails, AddBundleRefused,
              RemoveBundleRefused, UpToDate, PermissionsRefused, Post, CleanRepo, DiagnoseRepo,
              CheckUpdateRepo, ListRepo, InfoRepo, InfoBundle
<1>9. CASE \/ End \/ Outdated \/ Regenerate \/ WriteTemplate \/ \E u \in Urls : Publish(u)
           \/ NewTemplate \/ Kill \/ UNCHANGED vars
  BY <1>9 DEF End, Outdated, Regenerate, WriteTemplate, Publish, NewTemplate, Kill
<1> DEFINE Change == UNCHANGED <<home, disk>> \/ Own
<1>10. /\ AddSetUp \/ AddRepo \/ RemoveDir \/ AddCore => Change
       /\ AddBundle \/ RemoveBundle \/ UpdateRepo \/ RepairRepo => Change
  BY <1>4, <1>5, <1>6
<1>11. UNCHANGED vars => Change
  BY <1>9
<1> HIDE DEF Change
<1>12. Next => Change
  BY <1>7, <1>8, <1>9, <1>10 DEF Next, Change
<1> QED BY <1>11, <1>12 DEF Change

\* OnItsOwnRepo: content is only changed in the directory of the repository a command
\* works on, from the url of that repository (3rd_party_repos.c, third_party_set_repo).
THEOREM OwnRepoOnly == Spec => OnItsOwnRepo
<1> DEFINE A == /\ disk'[Main] = disk[Main]
                /\ \A n \in Names : home'[n] # home[n] \/ disk'[n] # disk[n] =>
                     /\ n = cur
                     /\ pc = "process" => place = n /\ url = UrlOf(n)
<1>1. BaseInv /\ [Next]_vars => A
  BY OnlyCur
<1>2. BaseInv /\ [Next]_vars => [A]_vars
  BY <1>1
<1> HIDE DEF A
<1>3. Spec => [][A]_vars
  BY <1>2, Bearings, PTL DEF Spec
<1> QED BY <1>3 DEF A, OnItsOwnRepo

----------------------------------------------------------------------------
(* What a listed repository has.                                           *)

\* The sections of repo.ini, or, while it is written again, those that were read.
SectionList == IF pc = "rewrite_ini" THEN todo ELSE ini
SectionSet == {SectionList[i] : i \in DOMAIN SectionList}

\* The content of n is a version of u, if there is any.
FromUrl(n, u) == home[n].version \in {0} \union DOMAIN Catalog[u]
Whole(n) == home[n].version > 0 /\ Core \in home[n].bundles
Contents == [version : Nat, bundles : SUBSET AllBundles]

ContentType ==
  /\ home \in [Names -> Contents]
  /\ latest \in [Urls -> Nat] /\ \A u \in Urls : latest[u] \in DOMAIN Catalog[u]
  /\ faults \in 0..FaultBudget /\ crashes \in 0..CrashBudget

\* A name is listed once; the one that is about to be added is not.
NamesInv ==
  /\ Unique(SectionList)
  /\ pc \in Adding => cur \notin RepoNames
  /\ pc = "rewrite_ini" => ini = <<>>

SourceInv ==
  /\ \A s \in SectionSet : FromUrl(s.name, s.url)
  /\ pc = "add_repo" => FromUrl(cur, cmd.url)
  /\ pc = "process" => home[cur].version > 0

\* Unless something failed, the content is there before the section and after it.
WholeInv ==
  faults = FaultBudget =>
    /\ \A s \in SectionSet : Whole(s.name)
    /\ pc = "add_repo" => Whole(cur)
    /\ pc = "remove_dir" => \A s \in SectionSet : s.name # cur

ListInv == BaseInv /\ ContentType /\ NamesInv /\ SourceInv /\ WholeInv

----------------------------------------------------------------------------
(* What a script runs.                                                     *)

Wrappers == [repo : Names, file : Files, fresh : BOOLEAN]
Scripts == [Bases -> Wrappers \union {None}]

\* Nothing failed and nothing was killed.
Calm == faults = FaultBudget /\ crashes = CrashBudget

\* How the scripts are worked on after the files.
What == CASE cmd.op = "bundle-add" -> "create"
          [] cmd.op = "bundle-remove" -> "remove_bundle"
          [] OTHER -> "update"

\* The binaries that a repository exports, and those it did until they were deleted.
ExportedBy(n, u) == Exported(u, home[n].version, home[n].bundles)
DroppedBy(n, u) == DeletedExports(u, home[n].version, home[n].bundles)

\* The files whose scripts a post-processing function writes, and those whose scripts it
\* removes.
Made(what) ==
  CASE what = "create" -> post.exported
    [] what = "update" -> post.exported \intersect disk[place]
    [] what = "regenerate" ->
         (ExportedBy(Head(todo), UrlOf(Head(todo))) \union DroppedBy(Head(todo), UrlOf(Head(todo))))
         \intersect disk[Head(todo)]
    [] OTHER -> {}
Unmade(what) ==
  CASE what = "update" -> (post.exported \intersect post.deleted) \ disk[place]
    [] what = "remove" -> post.exported \ disk[cur]
    [] what = "remove_bundle" -> post.unexported \union (post.exported \ disk[cur])
    [] what = "regenerate" -> DroppedBy(Head(todo), UrlOf(Head(todo))) \ disk[Head(todo)]
    [] OTHER -> {}

\* The files whose scripts are not left as they are.
Touched(what) ==
  Unmade(what) \union (IF what \in {"update", "regenerate"} THEN Made(what) ELSE {})

\* The binaries of a listed repository are on disk, and nothing else of it.
DiskInv ==
  /\ DOMAIN disk = Names \union {Main}
  /\ \A s \in SectionSet : FilesOf(s.url, home[s.name].version, home[s.name].bundles) = disk[s.name]
  /\ pc = "add_repo" => FilesOf(cmd.url, home[cur].version, home[cur].bundles) = disk[cur]
  /\ pc = "remove_scripts" => disk[cur] = {}

\* A script runs a binary that a listed repository exports, or one that it is about to
\* be removed for.
Rightful(w) == \E s \in SectionSet : s.name = w.repo /\ w.file \in ExportedBy(s.name, s.url)
Doomed(w) ==
  /\ w.repo = cur
  /\ \/ pc \in {"remove_dir", "remove_scripts"}
     \/ pc = "post" /\ w.file \in Unmade(What)
Fine(w) == Rightful(w) \/ Doomed(w)
ScriptsFine ==
  \A b \in Bases : script[b] # None => Base[script[b].file] = b /\ Fine(script[b])
ScriptInv ==
  /\ ScriptsFine
  /\ pc \in Removing =>
       \A b \in Bases : script[b] # None /\ script[b].repo = cur => script[b].file \in post.exported
  /\ pc = "remove_scripts" => \A s \in SectionSet : s.name # cur
  /\ pc = "post" => Made(What) \subseteq ExportedBy(cur, url)

RunsInv ==
  /\ ListInv
  /\ script \in Scripts
  /\ faults = FaultBudget => DiskInv
  /\ Calm => ScriptInv

----------------------------------------------------------------------------
(* Listed repositories are whole.                                          *)

\* The list is of sections.
LEMMA SectionFacts ==
  ASSUME BaseInv
  PROVE  /\ SectionList \in Seq(Entries)
         /\ \A s \in SectionSet : s \in Entries /\ s.name \in Names /\ s.url \in Urls
<1>1. SectionList \in Seq(Entries)
  BY DEF BaseInv, BaseType, TodoInv, SectionList
<1>2. \A s \in SectionSet : s \in Entries
  BY <1>1 DEF SectionSet
<1> QED BY <1>1, <1>2 DEF Entries

\* With names in lower case, the repositories are the sections.
LEMMA ListedIs ==
  ASSUME BaseInv, LowerNames, pc # "rewrite_ini"
  PROVE  RepoNames = {s.name : s \in SectionSet}
<1>1. RepoNames = {ini[i].name : i \in DOMAIN ini}
  BY NamesOfSections DEF BaseInv, BaseType
<1>2. SectionSet = {ini[i] : i \in DOMAIN ini}
  BY DEF SectionSet, SectionList
<1> QED BY <1>1, <1>2

LEMMA ListedUrl ==
  ASSUME BaseInv, NamesInv, LowerNames, pc # "rewrite_ini", NEW n \in RepoNames
  PROVE  [name |-> n, url |-> UrlOf(n)] \in SectionSet
<1> USE ThirdPartyAssumption
<1>1. ini \in Seq(Entries) /\ SectionList = ini /\ Unique(ini)
  BY DEF BaseInv, BaseType, SectionList, NamesInv
<1>2. PICK i \in DOMAIN ini : ini[i].name = n
  BY <1>1, NamesOfSections
<1>3. UrlOf(n) = ini[i].url
  BY <1>1, <1>2, UrlOfSection
<1>4. ini[i] \in Entries
  BY <1>1
<1>5. ini[i] = [name |-> n, url |-> UrlOf(n)]
  BY <1>2, <1>3, <1>4 DEF Entries
<1> QED BY <1>1, <1>5 DEF SectionSet

LEMMA SectionUrl ==
  ASSUME BaseInv, NamesInv, LowerNames, pc # "rewrite_ini", NEW s \in SectionSet
  PROVE  s.name \in RepoNames /\ UrlOf(s.name) = s.url
<1> USE ThirdPartyAssumption
<1>1. ini \in Seq(Entries) /\ SectionList = ini /\ Unique(ini)
  BY DEF BaseInv, BaseType, SectionList, NamesInv
<1>2. PICK i \in DOMAIN ini : s = ini[i]
  BY <1>1 DEF SectionSet
<1> QED BY <1>1, <1>2, UrlOfSection

\* A section is in the list for the first time when a repository is added.
NewSection == [name |-> cur, url |-> cmd.url]

\* The steps that neither change repo.ini nor are about to.
LEMMA SameSections ==
  ASSUME ini' = ini, pc # "rewrite_ini", pc' # "rewrite_ini"
  PROVE  SectionList' = SectionList /\ SectionSet' = SectionSet
<1>1. SectionList' = SectionList
  BY DEF SectionList
<1> QED BY <1>1 DEF SectionSet

Elsewhere == pc # "rewrite_ini" /\ pc' # "rewrite_ini" /\ ini' = ini

LEMMA ElsewhereSteps ==
  ASSUME BaseInv, Next, ~AddRepo, ~RemoveIni, ~RewriteIni, ~Kill
  PROVE  Elsewhere
<1>1. CASE \E c \in Commands : StartOne(c) \/ StartBundles(c) \/ StartRepos(c)
  <2>1. cmd = None /\ ini' = ini /\ pc' \in {"add", "remove", "select", "next"}
    BY <1>1 DEF StartOne, StartBundles, StartRepos, Idle
  <2>2. pc = "idle"
    BY <2>1 DEF BaseInv, CommandInv
  <2> QED BY <2>1, <2>2 DEF Elsewhere
<1>2. CASE \/ AddRefused \/ AddSetUp \/ ImportCertificate \/ ConfirmCertificate \/ AddCore
           \/ RemoveNotFound \/ RemoveLoad \/ RemoveDir \/ RemoveScripts
  BY <1>2 DEF AddRefused, AddSetUp, ImportCertificate, ConfirmCertificate, AddCore,
              RemoveNotFound, RemoveLoad, RemoveDir, RemoveScripts, Finish, Elsewhere
<1>3. CASE \/ Select \/ SelectUnknown \/ NextRepo \/ SetUp \/ ProcessFails \/ AddBundleRefused
           \/ RemoveBundleRefused \/ UpToDate \/ PermissionsRefused \/ Post \/ CleanRepo \/ DiagnoseRepo
           \/ CheckUpdateRepo \/ ListRepo \/ InfoRepo \/ InfoBundle
  BY <1>3 DEF Select, SelectUnknown, NextRepo, SetUp, ProcessFails, AddBundleRefused,
              RemoveBundleRefused, UpToDate, PermissionsRefused, Post, CleanRepo, DiagnoseRepo,
              CheckUpdateRepo, ListRepo, InfoRepo, InfoBundle, Finish, Done, Elsewhere
<1>4. CASE \/ AddBundle \/ RemoveBundle \/ UpdateRepo \/ RepairRepo
           \/ End \/ Outdated \/ Regenerate \/ WriteTemplate
  BY <1>4 DEF AddBundle, RemoveBundle, UpdateRepo, RepairRepo, End, Outdated, Regenerate,
              WriteTemplate, Finish, Elsewhere
<1>5. CASE (\E u \in Urls : Publish(u)) \/ NewTemplate
  <2>1. cmd = None /\ ini' = ini /\ pc' = pc
    BY <1>5 DEF Publish, NewTemplate, Idle
  <2>2. pc = "idle"
    BY <2>1 DEF BaseInv, CommandInv
  <2> QED BY <2>1, <2>2 DEF Elsewhere
<1> QED BY <1>1, <1>2, <1>3, <1>4, <1>5 DEF Next

\* What a step does to the list: nothing, or the section of an added repository comes to
\* it, or that of a removed one goes, or a command that is cut short loses some.
LEMMA SectionsStep ==
  ASSUME BaseInv, NamesInv, LowerNames, [Next]_vars
  PROVE  /\ Unique(SectionList)'
         /\ \/ SectionSet' = SectionSet
            \/ /\ AddRepo /\ cur \notin RepoNames /\ pc = "add_repo" /\ pc' = "idle"
               /\ UNCHANGED <<home, disk, script>>
               /\ SectionSet' = SectionSet \union {NewSection}
            \/ /\ RewriteIni /\ pc = "rewrite_ini" /\ pc' = "remove_dir" /\ cur' = cur
               /\ SectionSet' = {s \in SectionSet : s.name # cur}
            \/ /\ Kill \/ Fault
               /\ UNCHANGED <<home, disk, script>>
               /\ pc = "rewrite_ini" /\ pc' = "idle" /\ SectionSet' \subseteq SectionSet
<1> USE ThirdPartyAssumption
<1>1. SectionList \in Seq(Entries) /\ Unique(SectionList) /\ ini \in Seq(Entries)
  BY SectionFacts DEF NamesInv, BaseInv, BaseType
<1>2. CASE Elsewhere
  BY <1>1, <1>2, SameSections DEF Elsewhere, Unique
<1>3. CASE UNCHANGED vars
  <2>1. SectionList' = SectionList
    BY <1>3 DEF SectionList
  <2> QED BY <1>1, <2>1 DEF SectionSet, Unique
<1>4. CASE AddRepo
  <2>1. pc = "add_repo" /\ pc' = "idle"
    BY <1>4 DEF AddRepo, Finish
  <2>2. CASE ini' = ini
    BY <1>1, <2>1, <2>2, SameSections DEF Unique
  <2>3. CASE /\ ini' = Append(ini, NewSection) /\ ~Taken(cur, cmd.url)
             /\ UNCHANGED <<home, disk, script>>
    <3>1. SectionList = ini /\ SectionList' = ini'
      BY <2>1 DEF SectionList
    <3>2. cur \in Names /\ cmd.url \in Urls /\ cur \notin RepoNames
      BY <2>1, <2>3 DEF BaseInv, CommandInv, Adding, Taken
    <3>3. NewSection \in Entries /\ NewSection.name = cur
      BY <3>2 DEF NewSection, Entries
    <3>4. /\ DOMAIN ini = 1..Len(ini) /\ Len(ini) \in Nat /\ DOMAIN ini' = 1..(Len(ini) + 1)
          /\ \A i \in 1..Len(ini) : ini'[i] = ini[i]
          /\ ini'[Len(ini) + 1] = NewSection
      BY <1>1, <2>3, <3>3
    <3>5. \A i \in DOMAIN ini' : i \in DOMAIN ini \/ i = Len(ini) + 1
      BY <3>4
    <3>6. \A i \in DOMAIN ini : ini[i].name # cur
      BY <1>1, <3>2, NamesOfSections
    <3>7. Unique(ini)
      BY <1>1, <3>1
    <3>8. \A i, j \in DOMAIN ini' : ini'[i].name = ini'[j].name => i = j
      BY <3>3, <3>4, <3>5, <3>6, <3>7 DEF Unique
    <3>9. Unique(SectionList)'
      BY <3>1, <3>8 DEF Unique
    <3>10. SectionSet' = SectionSet \union {NewSection}
      <4>1. SectionSet' = {ini'[i] : i \in DOMAIN ini'} /\ SectionSet = {ini[i] : i \in DOMAIN ini}
        BY <3>1 DEF SectionSet
      <4> QED BY <4>1, <3>4, <3>5
    <3> QED BY <1>4, <2>1, <2>3, <3>2, <3>9, <3>10
  <2> QED BY <1>4, <2>2, <2>3 DEF AddRepo, NewSection
<1>5. CASE RemoveIni
  <2>1. pc = "remove_ini"
    BY <1>5 DEF RemoveIni
  <2>2. CASE ini' = ini /\ pc' = "remove_dir"
    BY <1>1, <2>1, <2>2, SameSections DEF Unique
  <2>3. CASE todo' = [i \in DOMAIN Repos |-> Repos[i]] /\ pc' = "rewrite_ini"
    <3>1. SectionList = ini /\ SectionList' = todo'
      BY <2>1, <2>3 DEF SectionList
    <3>2. \A i \in DOMAIN ini : Repos[i] = ini[i]
      <4> TAKE i \in DOMAIN ini
      <4>1. ini[i] \in Entries /\ Lower[ini[i].name] = ini[i].name
        BY <1>1, Sections DEF LowerNames
      <4>2. Repos[i] = [name |-> Lower[ini[i].name], url |-> ini[i].url]
        BY DEF Repos
      <4> QED BY <4>1, <4>2 DEF Entries
    <3>3. DOMAIN Repos = DOMAIN ini
      BY DEF Repos
    <3>4. todo' = ini
      BY <1>1, <2>3, <3>2, <3>3
    <3>5. SectionList' = SectionList
      BY <3>1, <3>4
    <3> QED BY <1>1, <3>5 DEF SectionSet, Unique
  <2> QED BY <1>5, <2>2, <2>3 DEF RemoveIni
<1>6. CASE RewriteIni
  <2> DEFINE kept == Without(cur, todo)
  <2>1. pc = "rewrite_ini" /\ pc' # "rewrite_ini" /\ UNCHANGED <<home, disk, script>>
    BY <1>6 DEF RewriteIni, Finish
  <2>2. SectionList = todo /\ SectionList' = ini' /\ todo \in Seq(Entries) /\ Unique(todo)
    BY <1>1, <2>1 DEF SectionList
  <2>3. Picked(kept, cur, todo, Len(todo))
    BY <2>2, WithoutPicks
  <2> HIDE DEF kept
  <2>4. /\ kept \in Seq(Entries) /\ Unique(kept)
        /\ \A j \in DOMAIN kept : kept[j].name # cur /\ \E k \in DOMAIN todo : kept[j] = todo[k]
        /\ \A k \in DOMAIN todo : todo[k].name # cur => \E j \in DOMAIN kept : kept[j] = todo[k]
    <3>1. DOMAIN todo = 1..Len(todo)
      BY <2>2
    <3>2. kept \in Seq(Entries) /\ Unique(kept)
      BY <2>2, <2>3 DEF Picked
    <3>3. /\ \A j \in DOMAIN kept : kept[j].name # cur /\ \E k \in 1..Len(todo) : kept[j] = todo[k]
          /\ \A k \in 1..Len(todo) : todo[k].name # cur => \E j \in DOMAIN kept : kept[j] = todo[k]
      BY <2>3 DEF Picked
    <3> QED BY <3>1, <3>2, <3>3
  <2>5. SectionSet = {todo[i] : i \in DOMAIN todo} /\ SectionSet' = {ini'[i] : i \in DOMAIN ini'}
    BY <2>2 DEF SectionSet
  <2>6. CASE ini' = kept /\ pc' = "remove_dir" /\ cur' = cur
    <3>1. Unique(SectionList)'
      BY <2>2, <2>4, <2>6 DEF Unique
    <3>2. SectionSet' = {s \in SectionSet : s.name # cur}
      BY <2>4, <2>5, <2>6
    <3> QED BY <1>6, <2>1, <2>6, <3>1, <3>2
  <2>7. CASE Fault /\ pc' = "idle" /\ \E k \in 0..Len(kept) - 1 : ini' = SubSeq(kept, 1, k)
    <3>1. PICK k \in 0..Len(kept) - 1 : ini' = SubSeq(kept, 1, k)
      BY <2>7
    <3>2. k \in 0..Len(kept)
      BY <2>4
    <3>3. DOMAIN ini' = 1..k /\ \A i \in 1..k : i \in DOMAIN kept /\ ini'[i] = kept[i]
      BY <2>4, <3>1, <3>2, SubSeqOf
    <3>4. \A i, j \in DOMAIN ini' : ini'[i].name = ini'[j].name => i = j
      BY <2>4, <3>3 DEF Unique
    <3>5. Unique(SectionList)'
      BY <2>2, <3>4 DEF Unique
    <3>6. SectionSet' \subseteq SectionSet
      BY <2>4, <2>5, <3>3
    <3> QED BY <2>1, <2>7, <3>5, <3>6
  <2> QED BY <1>6, <2>6, <2>7 DEF RewriteIni, Finish, kept
<1>7. CASE Kill
  <2>1. pc' = "idle" /\ UNCHANGED <<ini, home, disk, script>>
    BY <1>7 DEF Kill, Finish
  <2>2. CASE pc # "rewrite_ini"
    BY <1>1, <2>1, <2>2, SameSections DEF Unique
  <2>3. CASE pc = "rewrite_ini"
    <3>1. ini = <<>>
      BY <2>3 DEF NamesInv
    <3>2. SectionList' = <<>>
      BY <2>1, <3>1 DEF SectionList
    <3>3. SectionSet' = {} /\ Unique(SectionList)'
      BY <3>2 DEF SectionSet, Unique
    <3> QED BY <1>7, <2>1, <2>3, <3>3
  <2> QED BY <2>2, <2>3
<1> QED BY <1>2, <1>3, <1>4, <1>5, <1>6, <1>7, ElsewhereSteps

\* What a step does to the content of repositories: nothing, or it removes that of one
\* that is not listed, puts os-core in place, or works on a listed one.
ContentStep(h) ==
  /\ h \in Contents
  /\ home' = [home EXCEPT ![cur] = h]
  /\ \/ /\ h = NoContent /\ pc \in {"add", "add_core", "add_repo", "remove_dir"}
        /\ pc \in {"add_core", "add_repo"} => Fault
        /\ pc = "add" => cur \notin RepoNames
     \/ /\ h = Content(latest[cmd.url], {Core}) /\ pc = "add_core" /\ pc' = "add_repo"
        /\ UNCHANGED <<cmd, cur>> /\ cmd.url \in Urls
     \/ /\ pc = "process" /\ pc' = "post" /\ cur \in RepoNames /\ UNCHANGED <<cmd, cur>>
        /\ h.version \in DOMAIN Catalog[UrlOf(cur)] /\ h.version > 0
        /\ Core \in home[cur].bundles => Core \in h.bundles

\* Versions of a catalog, and bundles of a version.
LEMMA CatalogFacts ==
  ASSUME NEW u \in Urls
  PROVE  /\ DOMAIN Catalog[u] \subseteq Nat \ {0}
         /\ \A v \in DOMAIN Catalog[u] : Core \in BundlesOf(u, v) /\ BundlesOf(u, v) \subseteq AllBundles
<1>1. DOMAIN Catalog[u] = 1..Len(Catalog[u]) /\ Len(Catalog[u]) \in {1, 2}
  BY ThirdPartyAssumption
<1>2. \A v \in DOMAIN Catalog[u] : Core \in BundlesOf(u, v)
  BY ThirdPartyAssumption
<1>3. \A v \in DOMAIN Catalog[u] : BundlesOf(u, v) \subseteq AllBundles
  BY DEF AllBundles
<1> QED BY <1>1, <1>2, <1>3

\* The repository that is worked on: where it is, and what it has.
LEMMA WorkFacts ==
  ASSUME BaseInv, ContentType, NamesInv, SourceInv, LowerNames, pc = "process"
  PROVE  /\ cur \in RepoNames /\ cur \in Names /\ place = cur /\ url = UrlOf(cur) /\ url \in Urls
         /\ Version = home[cur].version /\ Installed = home[cur].bundles
         /\ Version \in DOMAIN Catalog[url] /\ Version \in Nat /\ Version > 0
         /\ Installed \subseteq AllBundles
         /\ [name |-> cur, url |-> url] \in SectionSet
<1> USE ThirdPartyAssumption
<1>1. cur \in RepoNames /\ place = cur /\ url = UrlOf(cur)
  BY DEF BaseInv, CommandInv, Working
<1>2. cur \in Names /\ url \in Urls
  BY <1>1, UrlOfOne DEF BaseInv, BaseType
<1>3. Version = home[cur].version /\ Installed = home[cur].bundles
  BY <1>1 DEF Version, Installed
<1>4. home[cur] \in Contents
  BY <1>2 DEF ContentType
<1>5. home[cur].version \in Nat /\ home[cur].bundles \subseteq AllBundles
  BY <1>4 DEF Contents
<1>6. [name |-> cur, url |-> url] \in SectionSet
  BY <1>1, ListedUrl
<1> DEFINE s == [name |-> cur, url |-> url]
<1>7. FromUrl(s.name, s.url)
  BY <1>6 DEF SourceInv
<1>8. home[cur].version \in {0} \union DOMAIN Catalog[url] /\ home[cur].version > 0
  BY <1>7 DEF FromUrl, SourceInv
<1> QED BY <1>1, <1>2, <1>3, <1>5, <1>6, <1>8

LEMMA ContentSteps ==
  ASSUME BaseInv, ContentType, NamesInv, SourceInv, LowerNames, [Next]_vars
  PROVE  UNCHANGED home \/ \E h : ContentStep(h)
<1> USE ThirdPartyAssumption
<1> DEFINE Changed == UNCHANGED home \/ \E h : ContentStep(h)
<1>1. NoContent \in Contents
  BY DEF NoContent, Content, Contents
<1>2. CASE AddSetUp \/ AddCore \/ AddRepo \/ RemoveDir
  <2>1. CASE RemoveRepoDirectory(cur) /\ (AddCore \/ AddRepo => Fault)
    <3>1. /\ pc \in {"add", "add_core", "add_repo", "remove_dir"}
          /\ pc \in {"add_core", "add_repo"} => Fault
          /\ pc = "add" => cur \notin RepoNames
      BY <1>2, <2>1 DEF AddSetUp, AddCore, AddRepo, RemoveDir
    <3>2. ContentStep(NoContent)
      BY <1>1, <2>1, <3>1 DEF ContentStep, RemoveRepoDirectory
    <3> QED BY <3>2
  <2>2. CASE AddCore /\ home' = [home EXCEPT ![place] = Content(latest[url], {Core})]
    <3> DEFINE h == Content(latest[cmd.url], {Core})
    <3>1. /\ pc = "add_core" /\ pc' = "add_repo" /\ place = cur /\ url = cmd.url /\ cmd.url \in Urls
          /\ UNCHANGED <<cmd, cur>>
      BY <2>2 DEF AddCore, BaseInv, CommandInv, Adding
    <3>2. latest[cmd.url] \in DOMAIN Catalog[cmd.url] /\ latest[cmd.url] \in Nat
      BY <3>1 DEF ContentType
    <3>3. Core \in AllBundles
      BY <3>1, <3>2, CatalogFacts
    <3>4. h \in Contents
      BY <3>2, <3>3 DEF Content, Contents
    <3>5. ContentStep(h)
      BY <2>2, <3>1, <3>4 DEF ContentStep
    <3> QED BY <3>5
  <2>3. UNCHANGED home => Changed
    OBVIOUS
  <2>4. /\ AddCore \/ AddRepo => pc \in {"add_core", "add_repo"}
        /\ AddSetUp \/ RemoveDir => pc \in {"add", "remove_dir"}
    BY DEF AddSetUp, AddCore, AddRepo, RemoveDir
  <2> HIDE DEF Changed
  <2> QED BY <1>2, <2>1, <2>2, <2>3, <2>4 DEF AddSetUp, AddCore, AddRepo, RemoveDir
<1>3. CASE AddBundle \/ RemoveBundle \/ UpdateRepo
  <2>1. pc = "process" /\ pc' = "post" /\ UNCHANGED <<cmd, cur>>
    BY <1>3 DEF AddBundle, RemoveBundle, UpdateRepo
  <2>2. /\ cur \in RepoNames /\ cur \in Names /\ place = cur /\ url = UrlOf(cur) /\ url \in Urls
        /\ Version = home[cur].version /\ Installed = home[cur].bundles
        /\ Version \in DOMAIN Catalog[url] /\ Version \in Nat /\ Version > 0
        /\ Installed \subseteq AllBundles
    BY <2>1, WorkFacts
  <2>3. ASSUME NEW v \in DOMAIN Catalog[url], NEW bundles \in SUBSET AllBundles,
               home' = [home EXCEPT ![place] = Content(v, bundles)],
               Core \in Installed => Core \in bundles
        PROVE  Changed
    <3>1. v \in Nat /\ v > 0
      BY <2>2, CatalogFacts
    <3>2. Content(v, bundles) \in Contents
      BY <3>1 DEF Content, Contents
    <3>3. Content(v, bundles).version = v /\ Content(v, bundles).bundles = bundles
      BY DEF Content
    <3>4. ContentStep(Content(v, bundles))
      BY <2>1, <2>2, <2>3, <3>1, <3>2, <3>3 DEF ContentStep
    <3> QED BY <3>4
  <2>4. CASE AddBundle
    <3>1. /\ Head(todo) \in BundlesOf(url, Version)
          /\ home' = [home EXCEPT ![place] = Content(Version, Installed \union {Head(todo)})]
      BY <2>4 DEF AddBundle
    <3>2. Installed \union {Head(todo)} \in SUBSET AllBundles
      BY <2>2, <3>1, CatalogFacts
    <3> QED BY <2>2, <2>3, <3>1, <3>2
  <2>5. CASE RemoveBundle
    <3>1. /\ Head(todo) # Core
          /\ home' = [home EXCEPT ![place] = Content(Version, Installed \ {Head(todo)})]
      BY <2>5 DEF RemoveBundle
    <3>2. Installed \ {Head(todo)} \in SUBSET AllBundles
      BY <2>2
    <3> QED BY <2>2, <2>3, <3>1, <3>2
  <2>6. CASE UpdateRepo
    <3>1. home' = [home EXCEPT ![place] = Content(latest[url], Installed)]
      BY <2>6 DEF UpdateRepo
    <3>2. latest[url] \in DOMAIN Catalog[url]
      BY <2>2 DEF ContentType
    <3> QED BY <2>2, <2>3, <3>1, <3>2
  <2> QED BY <1>3, <2>4, <2>5, <2>6
<1>4. CASE \/ \E c \in Commands : StartOne(c) \/ StartBundles(c) \/ StartRepos(c)
           \/ AddRefused \/ ImportCertificate \/ ConfirmCertificate
           \/ RemoveNotFound \/ RemoveLoad \/ RemoveIni \/ RewriteIni \/ RemoveScripts
           \/ RepairRepo
  BY <1>4 DEF StartOne, StartBundles, StartRepos, AddRefused, ImportCertificate, ConfirmCertificate,
              RemoveNotFound, RemoveLoad, RemoveIni, RewriteIni, RemoveScripts, RepairRepo
<1>5. CASE \/ Select \/ SelectUnknown \/ NextRepo \/ SetUp \/ ProcessFails \/ AddBundleRefused
           \/ RemoveBundleRefused \/ UpToDate \/ PermissionsRefused \/ Post \/ CleanRepo \/ DiagnoseRepo
           \/ CheckUpdateRepo \/ ListRepo \/ InfoRepo \/ InfoBundle
  BY <1>5 DEF Select, SelectUnknown, NextRepo, SetUp, ProcessFails, AddBundleRefused,
              RemoveBundleRefused, UpToDate, PermissionsRefused, Post, CleanRepo, DiagnoseRepo,
              CheckUpdateRepo, ListRepo, InfoRepo, InfoBundle
<1>6. CASE \/ End \/ Outdated \/ Regenerate \/ WriteTemplate \/ \E u \in Urls : Publish(u)
           \/ NewTemplate \/ Kill
  BY <1>6 DEF End, Outdated, Regenerate, WriteTemplate, Publish, NewTemplate, Kill
<1>7. CASE UNCHANGED vars
  BY <1>7
<1>8. AddSetUp \/ AddCore \/ AddRepo \/ RemoveDir => Changed
  BY <1>2
<1>9. AddBundle \/ RemoveBundle \/ UpdateRepo => Changed
  BY <1>3
<1>10. (\E c \in Commands : StartOne(c) \/ StartBundles(c) \/ StartRepos(c)) => Changed
  BY <1>4
<1>11. (\E u \in Urls : Publish(u)) => Changed
  BY <1>6
<1> HIDE DEF Changed
<1>12. Next => Changed
  BY <1>4, <1>5, <1>6, <1>8, <1>9, <1>10, <1>11 DEF Next, Changed
<1>13. Changed
  BY <1>7, <1>12 DEF Changed
<1> QED BY <1>13 DEF Changed

\* How a command comes to the places the invariant speaks of.
Arrivals ==
  /\ pc' \in Adding => /\ UNCHANGED <<ini, cur, cmd>>
                       /\ pc \in Adding \/ (pc = "add" /\ cur \notin RepoNames)
  /\ pc' = "add_repo" => AddCore
  /\ pc' = "rewrite_ini" => RemoveIni /\ ini' = <<>>
  /\ pc' = "process" => home[cur].version > 0 /\ UNCHANGED <<home, cur>>
  /\ pc' = "remove_dir" => (RemoveIni /\ Fault) \/ RewriteIni

LEMMA ArrivalSteps ==
  ASSUME BaseInv, Next
  PROVE  Arrivals
<1>1. CASE \E c \in Commands : StartOne(c) \/ StartBundles(c) \/ StartRepos(c)
  <2>1. pc' \in {"add", "remove", "select", "next"}
    BY <1>1 DEF StartOne, StartBundles, StartRepos
  <2> QED BY <2>1 DEF Arrivals, Adding
<1>2. CASE AddRefused \/ AddSetUp \/ ImportCertificate \/ ConfirmCertificate \/ AddCore \/ AddRepo
  BY <1>2 DEF AddRefused, AddSetUp, ImportCertificate, ConfirmCertificate, AddCore, AddRepo,
              Finish, Arrivals, Adding
<1>3. CASE RemoveNotFound \/ RemoveLoad \/ RemoveIni \/ RewriteIni \/ RemoveDir \/ RemoveScripts
  BY <1>3 DEF RemoveNotFound, RemoveLoad, RemoveIni, RewriteIni, RemoveDir, RemoveScripts,
              Finish, Arrivals, Adding
<1>4. CASE \/ Select \/ SelectUnknown \/ NextRepo \/ ProcessFails \/ AddBundleRefused
           \/ RemoveBundleRefused \/ UpToDate \/ PermissionsRefused \/ Post \/ CleanRepo \/ DiagnoseRepo
           \/ CheckUpdateRepo \/ ListRepo \/ InfoRepo \/ InfoBundle
           \/ AddBundle \/ RemoveBundle \/ UpdateRepo \/ RepairRepo
           \/ End \/ Outdated \/ Regenerate \/ WriteTemplate \/ Kill
  <2>1. pc' \in {"idle", "select", "next", "setup", "post", "regenerate"}
    BY <1>4 DEF Select, SelectUnknown, NextRepo, ProcessFails, AddBundleRefused,
              RemoveBundleRefused, UpToDate, PermissionsRefused, Post, CleanRepo, DiagnoseRepo,
              CheckUpdateRepo, ListRepo, InfoRepo, InfoBundle, AddBundle, RemoveBundle,
              UpdateRepo, RepairRepo, End, Outdated, Regenerate, WriteTemplate, Kill, Finish, Done
  <2> QED BY <2>1 DEF Arrivals, Adding
<1>5. CASE SetUp
  <2>1. \/ pc' = "process" /\ home[cur].version > 0 /\ UNCHANGED <<home, cur>>
        \/ pc' \in {"select", "next"}
    BY <1>5 DEF SetUp, SetRepo, Done
  <2> QED BY <2>1 DEF Arrivals, Adding
<1>6. CASE (\E u \in Urls : Publish(u)) \/ NewTemplate
  <2>1. cmd = None /\ pc' = pc
    BY <1>6 DEF Publish, NewTemplate, Idle
  <2>2. pc' = "idle"
    BY <2>1 DEF BaseInv, CommandInv
  <2> QED BY <2>2 DEF Arrivals, Adding
<1> QED BY <1>1, <1>2, <1>3, <1>4, <1>5, <1>6 DEF Next

\* What may go wrong is bounded, and is never given back.
Budgets ==
  /\ faults' = faults \/ Fault
  /\ crashes' = crashes \/ Kill
  /\ latest' = latest \/ \E u \in Urls : Publish(u)

LEMMA BudgetSteps ==
  ASSUME BaseInv, [Next]_vars
  PROVE  Budgets
<1>1. CASE \/ \E c \in Commands : StartOne(c) \/ StartBundles(c) \/ StartRepos(c)
           \/ AddRefused \/ AddSetUp \/ ImportCertificate \/ ConfirmCertificate \/ AddCore \/ AddRepo
  BY <1>1 DEF StartOne, StartBundles, StartRepos, AddRefused, AddSetUp, ImportCertificate,
              ConfirmCertificate, AddCore, AddRepo, Budgets
<1>2. CASE RemoveNotFound \/ RemoveLoad \/ RemoveIni \/ RewriteIni \/ RemoveDir \/ RemoveScripts
  BY <1>2 DEF RemoveNotFound, RemoveLoad, RemoveIni, RewriteIni, RemoveDir, RemoveScripts,
              SetRepoFails, Budgets
<1>3. CASE \/ Select \/ SelectUnknown \/ NextRepo \/ SetUp \/ ProcessFails \/ AddBundleRefused
           \/ RemoveBundleRefused \/ UpToDate \/ PermissionsRefused \/ Post \/ CleanRepo \/ DiagnoseRepo
           \/ CheckUpdateRepo \/ ListRepo \/ InfoRepo \/ InfoBundle
  BY <1>3 DEF Select, SelectUnknown, NextRepo, SetUp, ProcessFails, AddBundleRefused,
              RemoveBundleRefused, UpToDate, PermissionsRefused, Post, CleanRepo, DiagnoseRepo,
              CheckUpdateRepo, ListRepo, InfoRepo, InfoBundle, Budgets
<1>4. CASE \/ AddBundle \/ RemoveBundle \/ UpdateRepo \/ RepairRepo
           \/ End \/ Outdated \/ Regenerate \/ WriteTemplate \/ UNCHANGED vars
  BY <1>4 DEF AddBundle, RemoveBundle, UpdateRepo, RepairRepo, End, Outdated, Regenerate,
              WriteTemplate, SetRepoFails, Budgets
<1>5. CASE NewTemplate
  BY <1>5 DEF NewTemplate, Budgets
<1>6. CASE Kill
  BY <1>6 DEF Kill, Budgets
<1>7. CASE \E u \in Urls : Publish(u)
  BY <1>7 DEF Publish, Budgets
<1> QED BY <1>1, <1>2, <1>3, <1>4, <1>5, <1>6, <1>7 DEF Next

LEMMA ListInit ==
  ASSUME Init
  PROVE  ListInv
<1> USE ThirdPartyAssumption
<1>1. BaseInv
  BY BaseInit
<1>2. ContentType
  <2>1. NoContent \in Contents
    BY DEF NoContent, Content, Contents
  <2>2. home \in [Names -> Contents]
    BY <2>1 DEF Init
  <2>3. \A u \in Urls : 1 \in DOMAIN Catalog[u]
    OBVIOUS
  <2> QED BY <2>2, <2>3 DEF Init, ContentType
<1>3. SectionList = <<>> /\ pc = "idle"
  BY DEF Init, SectionList
<1>4. SectionSet = {} /\ Unique(SectionList)
  BY <1>3 DEF SectionSet, Unique
<1>5. NamesInv /\ SourceInv /\ WholeInv
  BY <1>3, <1>4 DEF NamesInv, SourceInv, WholeInv, Adding
<1> QED BY <1>1, <1>2, <1>5 DEF ListInv

LEMMA ListNext ==
  ASSUME ListInv, LowerNames, [Next]_vars
  PROVE  ListInv'
<1> USE ThirdPartyAssumption
<1>1. BaseInv /\ ContentType /\ NamesInv /\ SourceInv /\ WholeInv
  BY DEF ListInv
<1>2. BaseInv'
  BY <1>1, BaseNext
<1>3. UNCHANGED home \/ \E h : ContentStep(h)
  BY <1>1, ContentSteps
<1>4. /\ Unique(SectionList)'
      /\ \/ SectionSet' = SectionSet
         \/ /\ AddRepo /\ cur \notin RepoNames /\ pc = "add_repo" /\ pc' = "idle"
            /\ UNCHANGED <<home, disk, script>>
            /\ SectionSet' = SectionSet \union {NewSection}
         \/ /\ RewriteIni /\ pc = "rewrite_ini" /\ pc' = "remove_dir" /\ cur' = cur
            /\ SectionSet' = {s \in SectionSet : s.name # cur}
         \/ /\ Kill \/ Fault
            /\ UNCHANGED <<home, disk, script>>
            /\ pc = "rewrite_ini" /\ pc' = "idle" /\ SectionSet' \subseteq SectionSet
  BY <1>1, SectionsStep
<1>5. Budgets
  BY <1>1, BudgetSteps
<1>6. CASE UNCHANGED vars
  <2>1. ContentType' /\ UNCHANGED <<RepoNames, SectionList, SectionSet>>
    BY <1>1, <1>6 DEF ContentType, RepoNames, Repos, SectionList, SectionSet
  <2>2. NamesInv' /\ SourceInv' /\ WholeInv'
    BY <1>1, <1>4, <1>6, <2>1 DEF NamesInv, SourceInv, WholeInv, FromUrl, Whole
  <2> QED BY <1>2, <2>1, <2>2 DEF ListInv
<1>7. CASE Next
  <2>1. Arrivals
    BY <1>1, <1>7, ArrivalSteps
  <2>2. ContentType'
    <3>1. home' \in [Names -> Contents]
      <4>1. home \in [Names -> Contents]
        BY <1>1 DEF ContentType
      <4> QED BY <1>3, <4>1 DEF ContentStep
    <3>2. latest' \in [Urls -> Nat] /\ \A u \in Urls : latest'[u] \in DOMAIN Catalog[u]
      <4>1. latest \in [Urls -> Nat] /\ \A u \in Urls : latest[u] \in DOMAIN Catalog[u]
        BY <1>1 DEF ContentType
      <4>2. ASSUME NEW u \in Urls, Publish(u)
            PROVE  latest' \in [Urls -> Nat] /\ \A w \in Urls : latest'[w] \in DOMAIN Catalog[w]
        <5>1. /\ latest[u] \in Nat /\ latest[u] < Len(Catalog[u]) /\ Len(Catalog[u]) \in Nat
              /\ DOMAIN Catalog[u] = 1..Len(Catalog[u])
              /\ latest' = [latest EXCEPT ![u] = latest[u] + 1]
          BY <4>1, <4>2 DEF Publish
        <5>2. latest[u] + 1 \in DOMAIN Catalog[u] /\ latest[u] + 1 \in Nat
          BY <5>1
        <5> QED BY <4>1, <5>1, <5>2
      <4> QED BY <1>5, <4>1, <4>2 DEF Budgets
    <3>3. faults' \in 0..FaultBudget /\ crashes' \in 0..CrashBudget
      BY <1>1, <1>5 DEF ContentType, Budgets, Fault, Kill
    <3> QED BY <3>1, <3>2, <3>3 DEF ContentType
  <2>3. NamesInv'
    <3>1. pc' \in Adding => cur' \notin RepoNames'
      <4> SUFFICES ASSUME pc' \in Adding PROVE cur' \notin RepoNames'
        OBVIOUS
      <4>1. UNCHANGED <<ini, cur>> /\ cur \notin RepoNames
        BY <1>1, <2>1 DEF Arrivals, NamesInv
      <4> QED BY <4>1, SameIni
    <3>2. pc' = "rewrite_ini" => ini' = <<>>
      BY <2>1 DEF Arrivals
    <3> QED BY <1>4, <3>1, <3>2 DEF NamesInv
  <2>4. \A s \in SectionSet : s \in Entries /\ s.name \in Names /\ s.url \in Urls
    BY <1>1, SectionFacts
  <2>5. ASSUME NEW h, ContentStep(h), NEW s \in SectionSet
        PROVE  \/ s.name # cur /\ home'[s.name] = home[s.name]
               \/ s.name = cur /\ home'[s.name] = h /\ h = NoContent
                  /\ (Fault \/ pc = "remove_dir")
               \/ /\ s.name = cur /\ home'[s.name] = h /\ pc = "process"
                  /\ h.version \in DOMAIN Catalog[s.url] /\ h.version > 0
                  /\ Core \in home[cur].bundles => Core \in h.bundles
    <3>1. DOMAIN home = Names /\ s.name \in Names
      BY <1>1, <2>4 DEF BaseInv, BaseType
    <3>2. CASE s.name # cur
      BY <2>5, <3>1, <3>2 DEF ContentStep
    <3>3. CASE s.name = cur
      <4>1. home'[s.name] = h
        BY <2>5, <3>1, <3>3 DEF ContentStep
      <4>2. pc # "rewrite_ini"
        BY <2>5 DEF ContentStep
      <4>3. s.name \in RepoNames /\ UrlOf(s.name) = s.url
        BY <1>1, <4>2, SectionUrl
      <4>4. pc # "add" /\ (pc = "add_core" => FALSE)
        <5>1. pc \in Adding => cur \notin RepoNames
          BY <1>1 DEF NamesInv
        <5>2. pc # "add_core"
          BY <3>3, <4>3, <5>1 DEF Adding
        <5>3. CASE h = NoContent /\ (pc = "add" => cur \notin RepoNames)
          BY <3>3, <4>3, <5>2, <5>3
        <5> QED BY <2>5, <5>2, <5>3 DEF ContentStep
      <4> QED BY <2>5, <3>3, <4>1, <4>3, <4>4 DEF ContentStep
    <3> QED BY <3>2, <3>3
  <2>6. NoContent.version = 0
    BY DEF NoContent, Content
  <2>7. SourceInv'
    <3>1. ASSUME NEW s \in SectionSet PROVE FromUrl(s.name, s.url)'
      <4>1. FromUrl(s.name, s.url)
        BY <1>1 DEF SourceInv
      <4>2. home'[s.name] = home[s.name] \/ home'[s.name].version \in {0} \union DOMAIN Catalog[s.url]
        BY <1>3, <2>5, <2>6
      <4> QED BY <4>1, <4>2 DEF FromUrl
    <3>3. \A s \in SectionSet' : FromUrl(s.name, s.url)'
      <4>1. CASE SectionSet' \subseteq SectionSet
        BY <3>1, <4>1
      <4>2. CASE SectionSet' = SectionSet \union {NewSection} /\ pc = "add_repo" /\ UNCHANGED home
        <5>1. NewSection.name = cur /\ NewSection.url = cmd.url
          BY DEF NewSection
        <5>2. FromUrl(cur, cmd.url)
          BY <1>1, <4>2 DEF SourceInv
        <5>3. ASSUME NEW s \in SectionSet', s \notin SectionSet PROVE FromUrl(s.name, s.url)'
          <6>1. s = NewSection
            BY <4>2, <5>3
          <6>2. FromUrl(s.name, s.url)
            BY <5>1, <5>2, <6>1
          <6> QED BY <4>2, <6>2 DEF FromUrl
        <5> QED BY <3>1, <5>3
      <4> QED BY <1>4, <4>1, <4>2
    <3>4. pc' = "add_repo" => FromUrl(cur, cmd.url)'
      <4> SUFFICES ASSUME pc' = "add_repo" PROVE FromUrl(cur, cmd.url)'
        OBVIOUS
      <4>1. AddCore
        BY <2>1 DEF Arrivals
      <4>2. /\ UNCHANGED <<cmd, cur>> /\ place = cur /\ url = cmd.url /\ cmd.url \in Urls
            /\ cur \in Names /\ DOMAIN home = Names
        BY <1>1, <4>1 DEF AddCore, BaseInv, BaseType, CommandInv, Adding
      <4>3. home'[cur].version = 0 \/ home'[cur].version = latest[cmd.url]
        BY <4>1, <4>2 DEF AddCore, RemoveRepoDirectory, NoContent, Content
      <4>4. latest[cmd.url] \in DOMAIN Catalog[cmd.url]
        BY <1>1, <4>2 DEF ContentType
      <4> QED BY <4>2, <4>3, <4>4 DEF FromUrl
    <3>5. pc' = "process" => home'[cur'].version > 0
      BY <2>1 DEF Arrivals
    <3> QED BY <3>3, <3>4, <3>5 DEF SourceInv
  <2>8. WholeInv'
    <3> SUFFICES ASSUME faults' = FaultBudget
        PROVE  /\ \A s \in SectionSet' : Whole(s.name)'
               /\ pc' = "add_repo" => Whole(cur)'
               /\ pc' = "remove_dir" => \A s \in SectionSet' : s.name # cur'
      BY DEF WholeInv
    <3>1. ~Fault /\ faults = FaultBudget
      BY <1>1, <1>5 DEF ContentType, Budgets, Fault
    <3>2. ASSUME NEW s \in SectionSet PROVE Whole(s.name)'
      <4>1. Whole(s.name)
        BY <1>1, <3>1 DEF WholeInv
      <4>2. pc = "remove_dir" => s.name # cur
        BY <1>1, <3>1 DEF WholeInv
      <4>3. CASE UNCHANGED home
        BY <4>1, <4>3 DEF Whole
      <4>4. CASE \E h : ContentStep(h)
        <5>1. PICK h : ContentStep(h)
          BY <4>4
        <5>2. \/ home'[s.name] = home[s.name]
              \/ /\ s.name = cur /\ home'[s.name] = h /\ h.version > 0
                 /\ Core \in home[cur].bundles => Core \in h.bundles
          BY <2>5, <3>1, <4>2, <5>1
        <5> QED BY <4>1, <5>2 DEF Whole
      <4> QED BY <1>3, <4>3, <4>4
    <3>3. \A s \in SectionSet' : Whole(s.name)'
      <4>1. CASE SectionSet' \subseteq SectionSet
        BY <3>2, <4>1
      <4>2. CASE SectionSet' = SectionSet \union {NewSection} /\ pc = "add_repo" /\ UNCHANGED home
        <5>1. NewSection.name = cur
          BY DEF NewSection
        <5>2. Whole(cur)
          BY <1>1, <3>1, <4>2 DEF WholeInv
        <5>3. ASSUME NEW s \in SectionSet', s \notin SectionSet PROVE Whole(s.name)'
          <6>1. s = NewSection
            BY <4>2, <5>3
          <6>2. Whole(s.name)
            BY <5>1, <5>2, <6>1
          <6> QED BY <4>2, <6>2 DEF Whole
        <5> QED BY <3>2, <5>3
      <4> QED BY <1>4, <4>1, <4>2
    <3>4. pc' = "add_repo" => Whole(cur)'
      <4> SUFFICES ASSUME pc' = "add_repo" PROVE Whole(cur)'
        OBVIOUS
      <4>1. AddCore
        BY <2>1 DEF Arrivals
      <4>2. /\ UNCHANGED <<cmd, cur>> /\ place = cur /\ url = cmd.url /\ cmd.url \in Urls
            /\ cur \in Names /\ DOMAIN home = Names
        BY <1>1, <4>1 DEF AddCore, BaseInv, BaseType, CommandInv, Adding
      <4>3. home'[cur].version = latest[cmd.url] /\ home'[cur].bundles = {Core}
        BY <3>1, <4>1, <4>2 DEF AddCore, Content
      <4>4. latest[cmd.url] \in DOMAIN Catalog[cmd.url] /\ latest[cmd.url] \in Nat
        BY <1>1, <4>2 DEF ContentType
      <4>5. latest[cmd.url] > 0
        BY <4>2, <4>4, CatalogFacts
      <4> QED BY <4>2, <4>3, <4>5 DEF Whole
    <3>5. pc' = "remove_dir" => \A s \in SectionSet' : s.name # cur'
      <4> SUFFICES ASSUME pc' = "remove_dir" PROVE \A s \in SectionSet' : s.name # cur'
        OBVIOUS
      <4>1. RewriteIni
        BY <2>1, <3>1 DEF Arrivals
      <4>2. pc = "rewrite_ini" /\ ~AddRepo
        BY <4>1 DEF RewriteIni, AddRepo
      <4>3. cur' = cur /\ ini' = Without(cur, todo)
        BY <3>1, <4>1 DEF RewriteIni
      <4>4. todo \in Seq(Entries)
        BY <1>1, <4>2 DEF BaseInv, TodoInv
      <4>5. \A j \in DOMAIN Without(cur, todo) : Without(cur, todo)[j].name # cur
        BY <4>4, WithoutPicks DEF Picked
      <4>6. SectionSet' = {ini'[i] : i \in DOMAIN ini'}
        BY DEF SectionSet, SectionList
      <4> QED BY <4>3, <4>5, <4>6
    <3> QED BY <3>3, <3>4, <3>5
  <2> QED BY <1>2, <2>2, <2>3, <2>7, <2>8 DEF ListInv
<1> QED BY <1>6, <1>7

\* The invariant of the list.
THEOREM ListInvariance == LowerNames => (Spec => []ListInv)
<1> SUFFICES ASSUME LowerNames PROVE Spec => []ListInv
  OBVIOUS
<1>1. Init => ListInv
  BY ListInit
<1>2. ListInv /\ [Next]_vars => ListInv'
  BY ListNext
<1> QED BY <1>1, <1>2, PTL DEF Spec

\* ListedReposWhole: a repository in repo.ini has a version of its url and os-core,
\* wherever the command that adds or removes it is killed (3rd_party_add.c,
\* 3rd_party_remove.c), as long as no call failed.
THEOREM ListedAreWhole == LowerNames => (Spec => []ListedReposWhole)
<1> SUFFICES ASSUME LowerNames PROVE Spec => []ListedReposWhole
  OBVIOUS
<1>1. ListInv => ListedReposWhole
  <2> SUFFICES ASSUME ListInv, faults = FaultBudget, NEW n \in RepoNames
      PROVE  home[n].version > 0 /\ Core \in home[n].bundles
    BY DEF ListedReposWhole
  <2>1. BaseInv /\ NamesInv /\ WholeInv
    BY DEF ListInv
  <2>2. CASE pc = "rewrite_ini"
    <3>1. ini = <<>>
      BY <2>1, <2>2 DEF NamesInv
    <3>2. RepoNames = {}
      BY <3>1 DEF RepoNames, Repos
    <3> QED BY <3>2
  <2>3. CASE pc # "rewrite_ini"
    <3>1. PICK s \in SectionSet : s.name = n
      BY <2>1, <2>3, ListedIs
    <3>2. Whole(n)
      BY <2>1, <3>1 DEF WholeInv
    <3> QED BY <3>2 DEF Whole
  <2> QED BY <2>2, <2>3
<1>2. Spec => []ListInv
  BY ListInvariance
<1> QED BY <1>1, <1>2, PTL

----------------------------------------------------------------------------
(* Every script runs a binary.                                             *)

\* The files of bundles, and those of them that are exported.
LEMMA FileOf ==
  ASSUME NEW u, NEW v, NEW bundles, NEW f
  PROVE  f \in FilesOf(u, v, bundles) <=> f \in Files /\ Keepers(u, v, bundles, f) # {}
BY DEF FilesOf

LEMMA Exporting ==
  ASSUME NEW u, NEW v, NEW bundles
  PROVE  /\ Exported(u, v, bundles) \subseteq FilesOf(u, v, bundles)
         /\ FilesOf(u, v, bundles) \subseteq Listed(u, v, bundles)
         /\ Listed(u, v, bundles) \subseteq Files
         /\ DeletedExports(u, v, bundles) \intersect FilesOf(u, v, bundles) = {}
BY DEF Exported, FilesOf, Listed, Keepers, DeletedExports, Deleted

\* Of the entries for a file one is sooner than the others.
LEMMA Soonest ==
  ASSUME NEW u \in Urls, NEW v \in DOMAIN Catalog[u], NEW bundles, NEW f,
         Keepers(u, v, bundles, f) # {}
  PROVE  \E x \in Keepers(u, v, bundles, f) :
           \A c \in Keepers(u, v, bundles, f) : Sooner(u, v, f, x, c)
<1> DEFINE K == Keepers(u, v, bundles, f)
           since(c) == Catalog[u][v][c][f].since
           T == {since(c) : c \in K}
<1>1. \A c \in K : since(c) \in Nat /\ Rank[c] \in Nat
  <2>1. \A c \in K : c \in BundlesOf(u, v) /\ f \in DOMAIN Catalog[u][v][c]
    BY DEF Keepers, Holders
  <2>2. \A c \in K : c \in AllBundles
    BY <2>1, CatalogFacts
  <2> QED BY <2>1, <2>2, ThirdPartyAssumption
<1> HIDE DEF K, since
<1>2. PICK t \in T : \A y \in T : t <= y
  <2>1. PICK k : k \in K
    BY DEF K
  <2>2. since(k) \in T /\ T \in SUBSET Nat
    BY <1>1, <2>1
  <2> HIDE DEF T
  <2> QED BY <2>2, LeastOf
<1> DEFINE R == {Rank[c] : c \in {c \in K : since(c) = t}}
<1>3. PICK r \in R : \A y \in R : r <= y
  <2>1. PICK k \in K : since(k) = t
    BY <1>2
  <2>2. Rank[k] \in R /\ R \in SUBSET Nat
    BY <1>1, <2>1
  <2> HIDE DEF R
  <2> QED BY <2>2, LeastOf
<1>4. PICK x \in K : since(x) = t /\ Rank[x] = r
  BY <1>3
<1>5. ASSUME NEW c \in K PROVE since(x) < since(c) \/ (since(x) = since(c) /\ Rank[x] <= Rank[c])
  <2>1. since(x) <= since(c) /\ since(x) \in Nat /\ since(c) \in Nat
    BY <1>1, <1>2, <1>4
  <2>2. since(x) = since(c) => Rank[c] \in R
    BY <1>4
  <2> QED BY <1>3, <1>4, <2>1, <2>2
<1> QED BY <1>4, <1>5 DEF Sooner, since, K

\* No other is: entries have places of their own.
LEMMA SoonestIsOne ==
  ASSUME NEW u \in Urls, NEW v \in DOMAIN Catalog[u], NEW bundles, NEW f,
         NEW x \in Keepers(u, v, bundles, f), NEW y \in Keepers(u, v, bundles, f),
         Sooner(u, v, f, x, y), Sooner(u, v, f, y, x)
  PROVE  x = y
<1>1. x \in BundlesOf(u, v) /\ y \in BundlesOf(u, v) /\ f \in DOMAIN Catalog[u][v][x]
      /\ f \in DOMAIN Catalog[u][v][y]
  BY DEF Keepers, Holders
<1>2. x \in AllBundles /\ y \in AllBundles
  BY <1>1, CatalogFacts
<1>3. /\ Rank[x] \in Nat /\ Rank[y] \in Nat /\ (Rank[x] = Rank[y] => x = y)
      /\ Catalog[u][v][x][f].since \in Nat /\ Catalog[u][v][y][f].since \in Nat
  BY <1>1, <1>2, ThirdPartyAssumption
<1>4. Rank[x] = Rank[y]
  BY <1>3 DEF Sooner
<1> QED BY <1>3, <1>4

\* The entry that is kept is that of one bundle, and the one of all fewer bundles with it.
LEMMA Winner ==
  ASSUME NEW u \in Urls, NEW v \in DOMAIN Catalog[u], NEW bundles, NEW f \in FilesOf(u, v, bundles)
  PROVE  \E x \in bundles : \A some \in SUBSET bundles : x \in some =>
           f \in FilesOf(u, v, some) /\ Entry(u, v, some, f) = Entry(u, v, bundles, f)
<1> DEFINE K(some) == Keepers(u, v, some, f)
           best(some) == CHOOSE b \in K(some) : \A c \in K(some) : Sooner(u, v, f, b, c)
<1>1. PICK x \in K(bundles) : \A c \in K(bundles) : Sooner(u, v, f, x, c)
  BY FileOf, Soonest
<1>2. ASSUME NEW some \in SUBSET bundles, x \in some
      PROVE  f \in FilesOf(u, v, some) /\ Entry(u, v, some, f) = Catalog[u][v][x][f]
  <2>1. x \in K(some) /\ K(some) \subseteq K(bundles)
    BY <1>1, <1>2 DEF Keepers, Holders
  <2>2. \A c \in K(some) : Sooner(u, v, f, x, c)
    BY <1>1, <2>1
  <2>3. best(some) \in K(some) /\ \A c \in K(some) : Sooner(u, v, f, best(some), c)
    BY <2>1, <2>2
  <2>4. Entry(u, v, some, f) = Catalog[u][v][best(some)][f]
    BY <2>1 DEF Entry
  <2> HIDE DEF best
  <2>5. best(some) = x
    BY <2>1, <2>2, <2>3, SoonestIsOne
  <2> QED BY <2>1, <2>4, <2>5, FileOf
<1>3. x \in bundles
  BY <1>1 DEF Keepers, Holders
<1> QED BY <1>2, <1>3

\* What more bundles bring and fewer leave.
LEMMA BundleFiles ==
  ASSUME NEW u \in Urls, NEW v \in DOMAIN Catalog[u], NEW bundles, NEW b
  PROVE  /\ FilesOf(u, v, bundles \union {b}) = FilesOf(u, v, bundles) \union FilesOf(u, v, {b})
         /\ Exported(u, v, bundles \union {b}) \subseteq Exported(u, v, bundles) \union Exported(u, v, {b})
         /\ FilesOf(u, v, bundles) \subseteq FilesOf(u, v, bundles \ {b}) \union FilesOf(u, v, {b})
         /\ Exported(u, v, bundles) \subseteq Exported(u, v, bundles \ {b}) \union Exported(u, v, {b})
         /\ FilesOf(u, v, bundles \ {b}) \subseteq FilesOf(u, v, bundles)
<1>1. ASSUME NEW f
      PROVE  /\ Keepers(u, v, bundles \union {b}, f) = Keepers(u, v, bundles, f) \union Keepers(u, v, {b}, f)
             /\ Keepers(u, v, bundles, f) \subseteq Keepers(u, v, bundles \ {b}, f) \union Keepers(u, v, {b}, f)
             /\ Keepers(u, v, bundles \ {b}, f) \subseteq Keepers(u, v, bundles, f)
  BY DEF Keepers, Holders
<1>2. ASSUME NEW f
      PROVE  /\ f \in FilesOf(u, v, bundles \union {b}) <=>
                  f \in FilesOf(u, v, bundles) \/ f \in FilesOf(u, v, {b})
             /\ f \in FilesOf(u, v, bundles) => f \in FilesOf(u, v, bundles \ {b}) \/ f \in FilesOf(u, v, {b})
             /\ f \in FilesOf(u, v, bundles \ {b}) => f \in FilesOf(u, v, bundles)
  <2>1. \A some : f \in FilesOf(u, v, some) <=> f \in Files /\ Keepers(u, v, some, f) # {}
    BY FileOf
  <2>2. \/ Keepers(u, v, bundles \union {b}, f) = {}
        \/ \E c : c \in Keepers(u, v, bundles, f) \/ c \in Keepers(u, v, {b}, f)
    BY <1>1
  <2> QED BY <1>1, <2>1, <2>2
<1>3. ASSUME NEW all, NEW part \in SUBSET all, NEW other \in SUBSET all, all \subseteq part \union other,
             NEW f \in Exported(u, v, all)
      PROVE  f \in Exported(u, v, part) \/ f \in Exported(u, v, other)
  <2>1. f \in FilesOf(u, v, all) /\ Entry(u, v, all, f).exported
    BY DEF Exported
  <2>2. PICK x \in all : \A some \in SUBSET all : x \in some =>
               f \in FilesOf(u, v, some) /\ Entry(u, v, some, f) = Entry(u, v, all, f)
    BY <2>1, Winner
  <2> QED BY <1>3, <2>1, <2>2 DEF Exported
<1>4. Exported(u, v, bundles \union {b}) \subseteq Exported(u, v, bundles) \union Exported(u, v, {b})
  <2>1. PICK all : all = bundles \union {b}
    OBVIOUS
  <2> QED BY <1>3, <2>1
<1>5. Exported(u, v, bundles) \subseteq Exported(u, v, bundles \ {b}) \union Exported(u, v, {b})
  <2>1. CASE b \in bundles
    BY <1>3, <2>1
  <2>2. CASE b \notin bundles
    <3>1. bundles \ {b} = bundles
      BY <2>2
    <3> QED BY <3>1
  <2> QED BY <2>1, <2>2
<1> QED BY <1>2, <1>4, <1>5

\* An update leaves the files of the new version, and puts in place those that were not
\* there and those of another content.
LEMMA UpdateBrings ==
  ASSUME NEW u \in Urls, NEW v \in DOMAIN Catalog[u], NEW w \in DOMAIN Catalog[u], v < w,
         NEW bundles \in SUBSET AllBundles,
         NEW there, there = FilesOf(u, v, bundles),
         NEW changed, changed = UpdateList(u, v, w, bundles, there),
         NEW f
  PROVE  /\ f \in changed => f \in Listed(u, w, bundles) \/ f \in Listed(u, v, bundles)
         /\ f \in there /\ f \notin FilesOf(u, w, bundles) => f \in changed
         /\ f \in FilesOf(u, w, bundles) /\ f \notin there => f \in changed
         /\ f \in FilesOf(u, w, bundles) /\ f \in there =>
              f \in changed \/ SameContent(u, v, w, bundles, f)
<1> DEFINE Lv == f \in Listed(u, v, bundles)
           Lw == f \in Listed(u, w, bundles)
           Fv == f \in FilesOf(u, v, bundles)
           Fw == f \in FilesOf(u, w, bundles)
           Same == SameContent(u, v, w, bundles, f)
           Older == Entry(u, v, bundles, f).since < Entry(u, w, bundles, f).since
<1>1. f \in changed <=>
        \/ Lw /\ (Lv /\ (Lv /\ ~Fv => Lw /\ ~Fw) => Older /\ ~(Same /\ (Fv <=> Fw)))
        \/ Lv /\ ~Lw
  BY DEF UpdateList, Deleted
<1>2. (Fv => Lv) /\ (Fw => Lw)
  BY Exporting
<1>3. Lv /\ Lw /\ ~Same => Older
  BY ThirdPartyAssumption
<1>4. Same => (Fv <=> Fw)
  BY DEF SameContent
<1> HIDE DEF Lv, Lw, Fv, Fw, Same, Older
<1>5. /\ f \in changed => Lw \/ Lv
      /\ Fv /\ ~Fw => f \in changed
      /\ Fw /\ ~Fv => f \in changed
      /\ Fw /\ Fv => f \in changed \/ Same
  BY <1>1, <1>2, <1>3, <1>4
<1> QED BY <1>5 DEF Lv, Lw, Fv, Fw, Same

Whats == {"create", "update", "remove", "remove_bundle", "regenerate"}

\* The repository whose scripts are made.
Owner(what) == IF what = "regenerate" THEN Head(todo) ELSE place
Owned(what) == what \in {"create", "update", "regenerate"} => Owner(what) \in Names

\* What one file does to the scripts.
LEMMA OneFile ==
  ASSUME NEW what \in Whats, NEW f \in Files, NEW scripts \in Scripts
  PROVE  LET after == Proc(what, f, scripts).scripts
         IN /\ \/ after = scripts
               \/ after = [scripts EXCEPT ![Base[f]] = None]
               \/ after = [scripts EXCEPT ![Base[f]] = Wrapper(Owner(what), f)] /\ f \in Made(what)
                  /\ what \in {"create", "update", "regenerate"}
            /\ f \in Touched(what) =>
                 \/ after = [scripts EXCEPT ![Base[f]] = None]
                 \/ after = [scripts EXCEPT ![Base[f]] = Wrapper(Owner(what), f)] /\ f \in Made(what)
<1>1. CASE what = "create"
  <2>1. Proc(what, f, scripts) = CreateWrapper(f, scripts)
    BY <1>1 DEF Proc
  <2>2. Made(what) = post.exported /\ Touched(what) = {} /\ Owner(what) = place
    BY <1>1 DEF Made, Unmade, Touched, Owner
  <2> QED BY <1>1, <2>1, <2>2 DEF CreateWrapper
<1>2. CASE what = "update"
  <2>1. Proc(what, f, scripts) = UpdateScript(place, post.exported, post.deleted, f, scripts)
    BY <1>2 DEF Proc, UpdateWrapper
  <2>2. /\ Made(what) = post.exported \intersect disk[place]
        /\ Touched(what) = ((post.exported \intersect post.deleted) \ disk[place]) \union Made(what)
        /\ Owner(what) = place
    BY <1>2 DEF Made, Unmade, Touched, Owner
  <2>3. Proc(what, f, scripts).scripts =
          IF f \in Made(what) THEN [scripts EXCEPT ![Base[f]] = Wrapper(place, f)]
          ELSE IF f \in Touched(what) THEN [scripts EXCEPT ![Base[f]] = None] ELSE scripts
    BY <2>1, <2>2 DEF UpdateScript
  <2> QED BY <1>2, <2>2, <2>3
<1>3. CASE what = "remove"
  <2>1. Proc(what, f, scripts) = RemoveBinary(f, scripts)
    BY <1>3 DEF Proc
  <2>2. Touched(what) = post.exported \ disk[cur]
    BY <1>3 DEF Unmade, Touched
  <2>3. Proc(what, f, scripts).scripts =
          IF f \in Touched(what) THEN [scripts EXCEPT ![Base[f]] = None] ELSE scripts
    BY <2>1, <2>2 DEF RemoveBinary
  <2> QED BY <2>3
<1>4. CASE what = "remove_bundle"
  <2>1. Proc(what, f, scripts) = RemoveBundleBinaries(f, scripts)
    BY <1>4 DEF Proc
  <2>2. Touched(what) = post.unexported \union (post.exported \ disk[cur])
    BY <1>4 DEF Unmade, Touched
  <2>3. Proc(what, f, scripts).scripts =
          IF f \in Touched(what) THEN [scripts EXCEPT ![Base[f]] = None] ELSE scripts
    BY <2>1, <2>2 DEF RemoveBundleBinaries, RemoveBinary
  <2> QED BY <2>3
<1>5. CASE what = "regenerate"
  <2> DEFINE n == Head(todo)
             exported == ExportedBy(n, UrlOf(n))
             dropped == DroppedBy(n, UrlOf(n))
  <2>1. Proc(what, f, scripts) = UpdateScript(n, exported \union dropped, dropped, f, scripts)
    BY <1>5 DEF Proc, CreateAnew, ExportedBy, DroppedBy
  <2>2. /\ Made(what) = (exported \union dropped) \intersect disk[n]
        /\ Touched(what) = (dropped \ disk[n]) \union Made(what)
        /\ Owner(what) = n
    BY <1>5 DEF Made, Unmade, Touched, Owner
  <2> HIDE DEF n, exported, dropped
  <2>3. Proc(what, f, scripts).scripts =
          IF f \in Made(what) THEN [scripts EXCEPT ![Base[f]] = Wrapper(n, f)]
          ELSE IF f \in Touched(what) THEN [scripts EXCEPT ![Base[f]] = None] ELSE scripts
    BY <2>1, <2>2 DEF UpdateScript
  <2> QED BY <1>5, <2>2, <2>3
<1> QED BY <1>1, <1>2, <1>3, <1>4, <1>5 DEF Whats

\* What there is of the script of a base name after the first i files: none, that of a
\* file whose script is made, or the one that was there, if none of them is for its base name.
After(what, i, scripts) ==
  /\ scripts \in Scripts
  /\ \A b \in Bases :
       \/ scripts[b] = None
       \/ \E f \in Made(what) : f \in Files /\ Base[f] = b /\ scripts[b] = Wrapper(Owner(what), f)
       \/ scripts[b] = script[b] /\ \A j \in 1..i : Base[FileOrder[j]] = b => FileOrder[j] \notin Touched(what)

LEMMA NextFile ==
  ASSUME NEW what \in Whats, Owned(what), FileOrder \in Seq(Files), NEW i \in 1..Len(FileOrder),
         NEW scripts, After(what, i - 1, scripts)
  PROVE  After(what, i, Proc(what, FileOrder[i], scripts).scripts)
<1> DEFINE f == FileOrder[i]
           after == Proc(what, f, scripts).scripts
<1>1. f \in Files /\ Base[f] \in Bases
  BY DEF Bases
<1>2. scripts \in Scripts
  BY DEF After
<1>3. /\ \/ after = scripts
         \/ after = [scripts EXCEPT ![Base[f]] = None]
         \/ after = [scripts EXCEPT ![Base[f]] = Wrapper(Owner(what), f)] /\ f \in Made(what)
            /\ what \in {"create", "update", "regenerate"}
      /\ f \in Touched(what) =>
           \/ after = [scripts EXCEPT ![Base[f]] = None]
           \/ after = [scripts EXCEPT ![Base[f]] = Wrapper(Owner(what), f)] /\ f \in Made(what)
  BY <1>1, <1>2, OneFile
<1> HIDE DEF f, after
<1>4. what \in {"create", "update", "regenerate"} => Wrapper(Owner(what), f) \in Wrappers
  BY <1>1 DEF Owned, Wrapper, Wrappers
<1>5. after \in Scripts
  BY <1>1, <1>2, <1>3, <1>4 DEF Scripts
<1>6. \A b \in Bases : b # Base[f] => after[b] = scripts[b]
  BY <1>2, <1>3 DEF Scripts
<1>7. \/ after[Base[f]] = None
      \/ after[Base[f]] = Wrapper(Owner(what), f) /\ f \in Made(what)
      \/ after[Base[f]] = scripts[Base[f]] /\ f \notin Touched(what)
  BY <1>1, <1>2, <1>3 DEF Scripts
<1>8. \A j \in 1..i : j \in 1..(i - 1) \/ j = i
  OBVIOUS
<1>9. ASSUME NEW b \in Bases
      PROVE  \/ after[b] = None
             \/ \E g \in Made(what) : g \in Files /\ Base[g] = b /\ after[b] = Wrapper(Owner(what), g)
             \/ after[b] = script[b] /\ \A j \in 1..i : Base[FileOrder[j]] = b => FileOrder[j] \notin Touched(what)
  <2>1. \/ scripts[b] = None
        \/ \E g \in Made(what) : g \in Files /\ Base[g] = b /\ scripts[b] = Wrapper(Owner(what), g)
        \/ scripts[b] = script[b] /\ \A j \in 1..(i - 1) : Base[FileOrder[j]] = b => FileOrder[j] \notin Touched(what)
    BY DEF After
  <2>2. CASE b # Base[f]
    BY <1>6, <1>8, <2>1, <2>2 DEF f
  <2>3. CASE b = Base[f]
    BY <1>1, <1>7, <1>8, <2>1, <2>3 DEF f
  <2> QED BY <2>2, <2>3
<1>10. After(what, i, after)
  BY <1>5, <1>9 DEF After
<1> QED BY <1>10 DEF after, f

\* third_party_process_files: every script is made by one of the files, or was there
\* and is that of none whose script is written or goes.
LEMMA AllFiles ==
  ASSUME NEW what \in Whats, Owned(what), script \in Scripts
  PROVE  /\ ProcessFiles(what).scripts \in Scripts
         /\ \A b \in Bases : LET w == ProcessFiles(what).scripts[b]
                             IN \/ w = None
                                \/ \E f \in Made(what) : f \in Files /\ Base[f] = b /\ w = Wrapper(Owner(what), f)
                                \/ w = script[b] /\ \A f \in Touched(what) \intersect Files : Base[f] # b
<1> DEFINE N == Len(FileOrder)
           Rets == {"ok", "unexpected_condition", "couldnt_remove_file"}
           Q == [i \in 0..N |-> {r \in [scripts : Scripts, ret : Rets] : After(what, i, r.scripts)}]
<1>1. FileOrder \in Seq(Files) /\ N \in Nat
  BY ThirdPartyAssumption
<1>2. After(what, 0, script)
  BY DEF After
<1>3. [scripts |-> script, ret |-> "ok"] \in Q[0]
  BY <1>1, <1>2
<1>4. ASSUME NEW i \in 1..N, NEW r \in Q[i - 1]
      PROVE  ProcessFile(what, FileOrder[i], r) \in Q[i]
  <2> DEFINE done == Proc(what, FileOrder[i], r.scripts)
  <2>1. r \in [scripts : Scripts, ret : Rets] /\ After(what, i - 1, r.scripts)
    BY <1>1
  <2>2. After(what, i, done.scripts)
    BY <1>1, <2>1, NextFile
  <2>3. done.ret \in Rets
    BY DEF Proc, CreateWrapper, UpdateWrapper, UpdateScript, RemoveBinary, RemoveBundleBinaries,
           CreateAnew, Whats
  <2> HIDE DEF Rets
  <2>4. ProcessFile(what, FileOrder[i], r) =
          [scripts |-> done.scripts, ret |-> IF done.ret = "ok" THEN r.ret ELSE done.ret]
    BY DEF ProcessFile
  <2> HIDE DEF done
  <2>5. done.scripts \in Scripts
    BY <2>2 DEF After
  <2> QED BY <1>1, <2>1, <2>2, <2>3, <2>4, <2>5
<1> HIDE DEF Q
<1>5. ProcessFiles(what) \in Q[N]
  BY <1>1, <1>3, <1>4, FileByFile
<1>6. After(what, N, ProcessFiles(what).scripts)
  BY <1>1, <1>5 DEF Q
<1>7. \A f \in Files : \E j \in 1..N : f = FileOrder[j]
  BY <1>1 DEF Files
<1> HIDE DEF N
<1> QED BY <1>6, <1>7 DEF After

\* The function that Post calls.
LEMMA WhatIs ==
  /\ What \in {"create", "update", "remove_bundle"}
  /\ cmd.op = "bundle-add" => What = "create"
  /\ cmd.op = "bundle-remove" => What = "remove_bundle"
  /\ cmd.op = "update" \/ cmd.op = "repair" => What = "update"
BY DEF What

\* The scripts are changed by the post-processing functions, and by an administrator who
\* installs another swupd.
ScriptStep ==
  \/ script' = script
  \/ RemoveScripts /\ script' = ProcessFiles("remove").scripts
  \/ /\ Post /\ Owned(What)
     /\ \/ script' = ProcessFiles(What).scripts
        \/ Fault /\ \E f : script' = [ProcessFiles(What).scripts EXCEPT ![Base[f]] = None]
  \/ /\ Regenerate /\ Owned("regenerate") /\ Head(todo) \in RepoNames
     /\ script' = ProcessFiles("regenerate").scripts
  \/ NewTemplate

LEMMA ScriptSteps ==
  ASSUME BaseInv, [Next]_vars
  PROVE  ScriptStep
<1> USE ThirdPartyAssumption
<1>1. CASE Post
  <2>1. pc = "post"
    BY <1>1 DEF Post
  <2>2. place = cur /\ cur \in RepoNames
    BY <2>1 DEF BaseInv, CommandInv, Working
  <2>3. cur \in Names
    BY <2>2, UrlOfOne DEF BaseInv, BaseType
  <2>4. Owned(What)
    BY <2>2, <2>3, WhatIs DEF Owned, Owner
  <2>5. \/ script' = ProcessFiles(What).scripts
        \/ Fault /\ \E f : script' = [ProcessFiles(What).scripts EXCEPT ![Base[f]] = None]
    BY <1>1 DEF Post, What
  <2> QED BY <1>1, <2>4, <2>5 DEF ScriptStep
<1>2. CASE Regenerate
  <2>1. pc = "regenerate" /\ todo # <<>>
    BY <1>2 DEF Regenerate
  <2>2. todo \in Seq(RepoNames)
    BY <2>1 DEF BaseInv, TodoInv
  <2>3. Head(todo) \in RepoNames
    BY <2>1, <2>2
  <2>4. Head(todo) \in Names
    BY <2>3, UrlOfOne DEF BaseInv, BaseType
  <2>5. Owned("regenerate")
    BY <2>4 DEF Owned, Owner
  <2>6. script' = script \/ script' = ProcessFiles("regenerate").scripts
    BY <1>2 DEF Regenerate
  <2> QED BY <1>2, <2>3, <2>5, <2>6 DEF ScriptStep
<1>3. CASE \/ \E c \in Commands : StartOne(c) \/ StartBundles(c) \/ StartRepos(c)
           \/ AddRefused \/ AddSetUp \/ ImportCertificate \/ ConfirmCertificate \/ AddCore \/ AddRepo
           \/ RemoveNotFound \/ RemoveLoad \/ RemoveIni \/ RewriteIni \/ RemoveDir
  <2>1. script' = script
    BY <1>3 DEF StartOne, StartBundles, StartRepos, AddRefused, AddSetUp, ImportCertificate,
                ConfirmCertificate, AddCore, AddRepo, RemoveNotFound, RemoveLoad, RemoveIni, RewriteIni,
                RemoveDir
  <2> QED BY <2>1 DEF ScriptStep
<1>4. CASE \/ Select \/ SelectUnknown \/ NextRepo \/ SetUp \/ ProcessFails \/ AddBundleRefused
           \/ RemoveBundleRefused \/ UpToDate \/ PermissionsRefused \/ CleanRepo \/ DiagnoseRepo
           \/ CheckUpdateRepo \/ ListRepo \/ InfoRepo \/ InfoBundle
           \/ AddBundle \/ RemoveBundle \/ UpdateRepo \/ RepairRepo
           \/ End \/ Outdated \/ WriteTemplate \/ Kill \/ UNCHANGED vars
  <2>1. script' = script
    BY <1>4 DEF Select, SelectUnknown, NextRepo, SetUp, ProcessFails, AddBundleRefused,
              RemoveBundleRefused, UpToDate, PermissionsRefused, CleanRepo, DiagnoseRepo,
              CheckUpdateRepo, ListRepo, InfoRepo, InfoBundle, AddBundle, RemoveBundle,
              UpdateRepo, RepairRepo, End, Outdated, WriteTemplate, Kill
  <2> QED BY <2>1 DEF ScriptStep
<1>5. CASE \E u \in Urls : Publish(u)
  <2>1. script' = script
    BY <1>5 DEF Publish
  <2> QED BY <2>1 DEF ScriptStep
<1>6. CASE RemoveScripts \/ NewTemplate
  BY <1>6 DEF RemoveScripts, ScriptStep
<1> QED BY <1>1, <1>2, <1>3, <1>4, <1>5, <1>6 DEF Next

LEMMA ScriptsTyped ==
  ASSUME BaseInv, script \in Scripts, [Next]_vars
  PROVE  script' \in Scripts
<1>1. CASE script' = script
  BY <1>1
<1>2. ASSUME NEW what \in Whats, Owned(what) PROVE ProcessFiles(what).scripts \in Scripts
  BY <1>2, AllFiles
<1>3. Owned("remove") /\ What \in Whats /\ "regenerate" \in Whats /\ "remove" \in Whats
  BY WhatIs DEF Owned, Whats
<1>4. ASSUME NEW scripts \in Scripts, NEW f PROVE [scripts EXCEPT ![Base[f]] = None] \in Scripts
  BY DEF Scripts
<1>5. CASE NewTemplate
  <2>1. script' = [b \in Bases |-> IF script[b] = None THEN None
                        ELSE [repo |-> script[b].repo, file |-> script[b].file, fresh |-> FALSE]]
    BY <1>5 DEF NewTemplate
  <2>2. \A b \in Bases : script[b] # None => script[b] \in Wrappers
    BY DEF Scripts
  <2> QED BY <2>1, <2>2 DEF Scripts, Wrappers
<1> QED BY <1>1, <1>2, <1>3, <1>4, <1>5, ScriptSteps DEF ScriptStep

\* A step after which no call has failed yet, and that is no kill ...
SafeStep ==
  /\ BaseInv /\ ContentType /\ NamesInv /\ SourceInv /\ WholeInv
  /\ script \in Scripts /\ DiskInv
  /\ faults = FaultBudget /\ ~Fault /\ ~Kill
  /\ [Next]_vars

\* ... and one before which no command was killed either.
CalmStep == SafeStep /\ ScriptInv

LEMMA SafeSteps ==
  ASSUME RunsInv, [Next]_vars, faults' = FaultBudget, ~Kill
  PROVE  SafeStep
<1> USE ThirdPartyAssumption
<1>1. BaseInv /\ ContentType /\ NamesInv /\ SourceInv /\ WholeInv /\ script \in Scripts
  BY DEF RunsInv, ListInv
<1>2. faults \in 0..FaultBudget
  BY <1>1 DEF ContentType
<1>3. ~Fault
  BY <1>2 DEF Fault
<1>4. faults' = faults
  BY <1>1, <1>3, BudgetSteps DEF Budgets
<1>5. DiskInv
  BY <1>4 DEF RunsInv
<1> QED BY <1>1, <1>3, <1>4, <1>5 DEF SafeStep

LEMMA CalmSteps ==
  ASSUME RunsInv, [Next]_vars, Calm'
  PROVE  CalmStep
<1> USE ThirdPartyAssumption
<1>1. BaseInv /\ crashes \in 0..CrashBudget /\ crashes' = CrashBudget /\ faults' = FaultBudget
  BY DEF RunsInv, ListInv, ContentType, Calm
<1>2. ~Kill
  BY <1>1 DEF Kill
<1>3. SafeStep
  BY <1>1, <1>2, SafeSteps
<1>4. crashes' = crashes
  BY <1>1, <1>2, BudgetSteps DEF Budgets
<1>5. ScriptInv
  BY <1>1, <1>3, <1>4 DEF RunsInv, SafeStep, Calm
<1> QED BY <1>3, <1>5 DEF CalmStep

LEMMA SafeSections ==
  ASSUME SafeStep, LowerNames, pc \notin {"add_repo", "rewrite_ini"}
  PROVE  SectionSet' = SectionSet
BY SectionsStep DEF SafeStep

LEMMA CalmSections ==
  ASSUME CalmStep, LowerNames, pc \notin {"add_repo", "rewrite_ini"}
  PROVE  SectionSet' = SectionSet
BY SafeSections DEF CalmStep

\* What is right about a script stays right when its repository is not touched.
LEMMA RightfulKept ==
  ASSUME NEW w, Rightful(w),
         \A s \in SectionSet : s.name = w.repo => s \in SectionSet' /\ home'[s.name] = home[s.name]
  PROVE  Rightful(w)'
<1>1. PICK s \in SectionSet : s.name = w.repo /\ w.file \in ExportedBy(s.name, s.url)
  BY DEF Rightful
<1>2. s \in SectionSet' /\ ExportedBy(s.name, s.url)' = ExportedBy(s.name, s.url)
  BY <1>1 DEF ExportedBy
<1> QED BY <1>1, <1>2 DEF Rightful

LEMMA ScriptsKept ==
  ASSUME script \in Scripts, ScriptsFine, script' = script,
         \A w \in Wrappers : Fine(w) => Fine(w)'
  PROVE  ScriptsFine'
<1> SUFFICES ASSUME NEW b \in Bases, script'[b] # None
    PROVE  (Base[script[b].file] = b /\ Fine(script[b]))'
  BY DEF ScriptsFine
<1>1. PICK w : w = script[b]
  OBVIOUS
<1>2. w \in Wrappers /\ Base[w.file] = b /\ Fine(w) /\ w = script'[b]
  BY <1>1 DEF Scripts, ScriptsFine
<1>3. Fine(w)'
  BY <1>2
<1> QED BY <1>2, <1>3 DEF Fine, Rightful, Doomed

LEMMA DiskKept ==
  ASSUME BaseInv', DiskInv,
         \A s \in SectionSet' : /\ s \in SectionSet
                                /\ home'[s.name] = home[s.name] /\ disk'[s.name] = disk[s.name],
         pc' \notin {"add_repo", "remove_scripts"}
  PROVE  DiskInv'
<1>1. ASSUME NEW s \in SectionSet'
      PROVE  FilesOf(s.url, home'[s.name].version, home'[s.name].bundles) = disk'[s.name]
  BY <1>1 DEF DiskInv
<1>2. DOMAIN disk' = Names \union {Main}
  BY DEF BaseInv, BaseType
<1> QED BY <1>1, <1>2 DEF DiskInv

\* The steps that are about nothing that the invariant speaks of.
LEMMA Unaffected ==
  ASSUME CalmStep, BaseInv', UNCHANGED <<home, disk, script>>, SectionSet' = SectionSet,
         pc \notin {"remove_dir", "remove_scripts", "post"},
         pc' \notin Removing \union {"post", "add_repo"}
  PROVE  ScriptInv'
<1>1. ASSUME NEW w \in Wrappers, Fine(w) PROVE Fine(w)'
  <2>1. Rightful(w)
    BY <1>1 DEF Fine, Doomed
  <2>2. Rightful(w)'
    BY <2>1, RightfulKept
  <2> QED BY <2>2 DEF Fine
<1>2. ScriptsFine'
  BY <1>1, ScriptsKept DEF CalmStep, SafeStep, ScriptInv
<1> QED BY <1>2 DEF ScriptInv, Removing

\* A command that adds a repository.
LEMMA AddFacts ==
  ASSUME SafeStep, LowerNames, AddSetUp \/ AddCore
  PROVE  /\ pc \in {"add", "add_core"} /\ pc' \in {"import", "add_repo"} /\ (pc = "add_core" <=> pc' = "add_repo")
         /\ UNCHANGED <<script, cur, cmd>> /\ cur \in Names /\ cur \notin RepoNames
         /\ SectionSet' = SectionSet
         /\ \A s \in SectionSet : home'[s.name] = home[s.name] /\ disk'[s.name] = disk[s.name]
<1> USE ThirdPartyAssumption
<1>1. /\ pc \in {"add", "add_core"} /\ pc' \in {"import", "add_repo"} /\ (pc = "add_core" <=> pc' = "add_repo")
      /\ UNCHANGED <<script, cur, cmd>> /\ cur \in Names /\ cur \notin RepoNames
  <2>1. CASE AddSetUp
    BY <2>1 DEF AddSetUp, SafeStep, BaseInv, CommandInv
  <2>2. CASE AddCore
    BY <2>2 DEF AddCore, SafeStep, BaseInv, CommandInv, NamesInv, Adding
  <2> QED BY <2>1, <2>2
<1>2. SectionSet' = SectionSet
  BY <1>1, SafeSections
<1>3. \A s \in SectionSet : s.name # cur /\ s.name \in Names
  BY <1>1, SectionUrl, SectionFacts DEF SafeStep
<1>4. \A s \in SectionSet : home'[s.name] = home[s.name] /\ disk'[s.name] = disk[s.name]
  <2>1. DOMAIN home = Names /\ DOMAIN disk = Names \union {Main}
    BY DEF SafeStep, BaseInv, BaseType
  <2>2. AddCore => place = cur
    BY DEF AddCore, SafeStep, BaseInv, CommandInv, Adding
  <2> QED BY <1>3, <2>1, <2>2 DEF AddSetUp, AddCore, RemoveRepoDirectory, SafeStep
<1> QED BY <1>1, <1>2, <1>4

LEMMA DiskAdd ==
  ASSUME SafeStep, BaseInv', LowerNames, AddSetUp \/ AddCore
  PROVE  DiskInv'
<1> USE ThirdPartyAssumption
<1>1. /\ pc \in {"add", "add_core"} /\ pc' \in {"import", "add_repo"} /\ (pc = "add_core" <=> pc' = "add_repo")
      /\ UNCHANGED <<script, cur, cmd>> /\ cur \in Names
      /\ SectionSet' = SectionSet
      /\ \A s \in SectionSet : home'[s.name] = home[s.name] /\ disk'[s.name] = disk[s.name]
  BY AddFacts
<1>2. ASSUME NEW s \in SectionSet'
      PROVE  FilesOf(s.url, home'[s.name].version, home'[s.name].bundles) = disk'[s.name]
  BY <1>1, <1>2 DEF SafeStep, DiskInv
<1>3. DOMAIN disk' = Names \union {Main}
  BY DEF BaseInv, BaseType
<1>4. pc' = "add_repo" => FilesOf(cmd'.url, home'[cur'].version, home'[cur'].bundles) = disk'[cur']
  <2> SUFFICES ASSUME pc' = "add_repo"
      PROVE  FilesOf(cmd'.url, home'[cur'].version, home'[cur'].bundles) = disk'[cur']
    OBVIOUS
  <2>1. AddCore /\ pc = "add_core"
    BY <1>1 DEF AddSetUp, AddCore
  <2>2. place = cur /\ url = cmd.url /\ DOMAIN home = Names /\ DOMAIN disk = Names \union {Main}
    BY <2>1 DEF SafeStep, BaseInv, BaseType, CommandInv, Adding
  <2>3. /\ home' = [home EXCEPT ![place] = Content(latest[url], {Core})]
        /\ disk' = [disk EXCEPT ![place] = FilesOf(url, latest[url], {Core})]
    BY <2>1 DEF AddCore, SafeStep
  <2>4. /\ home'[cur'].version = latest[url] /\ home'[cur'].bundles = {Core}
        /\ disk'[cur'] = FilesOf(url, latest[url], {Core}) /\ cmd'.url = url
    BY <1>1, <2>2, <2>3 DEF Content
  <2> QED BY <2>4
<1> QED BY <1>1, <1>2, <1>3, <1>4 DEF DiskInv

LEMMA RunsAdd ==
  ASSUME CalmStep, LowerNames, AddSetUp \/ AddCore
  PROVE  ScriptInv'
<1>1. /\ pc \in {"add", "add_core"} /\ pc' \in {"import", "add_repo"}
      /\ script' = script /\ SectionSet' = SectionSet
      /\ \A s \in SectionSet : home'[s.name] = home[s.name]
  BY AddFacts DEF CalmStep
<1>2. ASSUME NEW w \in Wrappers, Fine(w) PROVE Fine(w)'
  <2>1. Rightful(w)
    BY <1>1, <1>2 DEF Fine, Doomed
  <2>2. Rightful(w)'
    BY <1>1, <2>1, RightfulKept
  <2> QED BY <2>2 DEF Fine
<1>3. ScriptsFine'
  BY <1>1, <1>2, ScriptsKept DEF CalmStep, SafeStep, ScriptInv
<1> QED BY <1>1, <1>3 DEF ScriptInv, Removing

LEMMA DiskAddRepo ==
  ASSUME SafeStep, BaseInv', LowerNames, AddRepo
  PROVE  DiskInv'
<1>1. pc = "add_repo" /\ pc' = "idle" /\ UNCHANGED <<home, disk, script>>
  BY DEF AddRepo, Finish, SafeStep
<1>2. SectionSet' = SectionSet \/ SectionSet' = SectionSet \union {NewSection}
  BY <1>1, SectionsStep DEF SafeStep
<1>3. NewSection.name = cur /\ NewSection.url = cmd.url
  BY DEF NewSection
<1>4. \A s \in SectionSet' : s \in SectionSet \/ (s.name = cur /\ s.url = cmd.url)
  BY <1>2, <1>3
<1>5. ASSUME NEW s \in SectionSet'
      PROVE  FilesOf(s.url, home'[s.name].version, home'[s.name].bundles) = disk'[s.name]
  BY <1>1, <1>4, <1>5 DEF SafeStep, DiskInv
<1> QED BY <1>1, <1>5 DEF DiskInv, BaseInv, BaseType

LEMMA RunsAddRepo ==
  ASSUME CalmStep, LowerNames, AddRepo
  PROVE  ScriptInv'
<1>1. pc = "add_repo" /\ pc' = "idle" /\ UNCHANGED <<home, disk, script>>
  BY DEF AddRepo, Finish, CalmStep, SafeStep
<1>2. SectionSet' = SectionSet \/ SectionSet' = SectionSet \union {NewSection}
  BY <1>1, SectionsStep DEF CalmStep, SafeStep
<1>3. ASSUME NEW w \in Wrappers, Fine(w) PROVE Fine(w)'
  <2>1. Rightful(w)
    BY <1>1, <1>3 DEF Fine, Doomed
  <2>2. Rightful(w)'
    BY <1>1, <1>2, <2>1, RightfulKept
  <2> QED BY <2>2 DEF Fine
<1>4. ScriptsFine'
  BY <1>1, <1>3, ScriptsKept DEF CalmStep, SafeStep, ScriptInv
<1> QED BY <1>1, <1>4 DEF ScriptInv, Removing

\* A command that removes one.
LEMMA RunsRemoveLoad ==
  ASSUME CalmStep, LowerNames, RemoveLoad, pc' = "remove_ini"
  PROVE  ScriptInv'
<1> DEFINE s0 == [name |-> cur, url |-> UrlOf(cur)]
<1>1. pc = "remove" /\ cur \in RepoNames /\ UNCHANGED <<home, disk, script, cur>>
  BY DEF RemoveLoad, Finish
<1>2. SectionSet' = SectionSet
  BY <1>1, CalmSections
<1>3. s0 \in SectionSet
  BY <1>1, ListedUrl DEF CalmStep, SafeStep
<1>4. home[cur].version > 0
  BY <1>3 DEF CalmStep, SafeStep, WholeInv, Whole
<1>5. SetRepo(cur) /\ post'.exported = ExportedBy(cur, UrlOf(cur)) \union DroppedBy(cur, UrlOf(cur))
  BY <1>4 DEF RemoveLoad, SetRepoFails, CalmStep, SafeStep, ToPost, ExportedBy, DroppedBy, Finish
<1>6. ASSUME NEW w \in Wrappers, Fine(w)
      PROVE  Fine(w)' /\ (w.repo = cur => w.file \in ExportedBy(cur, UrlOf(cur)))
  <2>1. Rightful(w)
    BY <1>1, <1>6 DEF Fine, Doomed
  <2>2. Rightful(w)'
    BY <1>1, <1>2, <2>1, RightfulKept
  <2>3. PICK s \in SectionSet : s.name = w.repo /\ w.file \in ExportedBy(s.name, s.url)
    BY <2>1 DEF Rightful
  <2>4. s.url = UrlOf(s.name)
    BY <1>1, SectionUrl DEF CalmStep, SafeStep
  <2> QED BY <2>2, <2>3, <2>4 DEF Fine
<1>7. ScriptsFine'
  BY <1>1, <1>6, ScriptsKept DEF CalmStep, SafeStep, ScriptInv
<1>8. ASSUME NEW b \in Bases, script'[b] # None, script'[b].repo = cur'
      PROVE  script'[b].file \in post'.exported
  <2>1. PICK w : w = script[b]
    OBVIOUS
  <2>2. w \in Wrappers /\ Fine(w) /\ w.repo = cur
    BY <1>1, <1>8, <2>1 DEF CalmStep, SafeStep, ScriptInv, ScriptsFine, Scripts
  <2> QED BY <1>1, <1>5, <1>6, <2>1, <2>2
<1> QED BY <1>7, <1>8 DEF ScriptInv, Removing

LEMMA RemoveFacts ==
  ASSUME SafeStep, ListInv', LowerNames, RemoveIni \/ RewriteIni \/ RemoveDir
  PROVE  /\ pc \in {"remove_ini", "rewrite_ini", "remove_dir"}
         /\ pc' \in {"rewrite_ini", "remove_dir", "remove_scripts"}
         /\ RemoveIni => pc = "remove_ini" /\ pc' = "rewrite_ini"
         /\ RewriteIni <=> pc = "rewrite_ini" /\ pc' = "remove_dir"
         /\ RemoveDir <=> pc = "remove_dir" /\ pc' = "remove_scripts"
         /\ UNCHANGED <<script, cur, post>> /\ cur \in Names
         /\ SectionSet' = IF RewriteIni THEN {s \in SectionSet : s.name # cur} ELSE SectionSet
         /\ RemoveDir \/ RewriteIni => \A s \in SectionSet' : s.name # cur
         /\ RemoveDir => RemoveRepoDirectory(cur)
         /\ \A s \in SectionSet' : home'[s.name] = home[s.name] /\ disk'[s.name] = disk[s.name]
<1> USE ThirdPartyAssumption
<1>1. /\ pc \in {"remove_ini", "rewrite_ini", "remove_dir"}
      /\ pc' \in {"rewrite_ini", "remove_dir", "remove_scripts"}
      /\ RemoveIni => pc = "remove_ini" /\ pc' = "rewrite_ini"
      /\ RewriteIni <=> pc = "rewrite_ini" /\ pc' = "remove_dir"
      /\ RemoveDir <=> pc = "remove_dir" /\ pc' = "remove_scripts"
      /\ UNCHANGED <<script, cur, post>> /\ cur \in Names
  <2>1. pc \in {"remove_ini", "rewrite_ini", "remove_dir"} /\ UNCHANGED <<script, cur, post>>
    BY DEF RemoveIni, RewriteIni, RemoveDir, SafeStep
  <2>2. cur \in Names
    BY <2>1 DEF SafeStep, BaseInv, CommandInv, Removing
  <2> QED BY <2>1, <2>2 DEF RemoveIni, RewriteIni, RemoveDir, SafeStep
<1>2. SectionSet' = IF RewriteIni THEN {s \in SectionSet : s.name # cur} ELSE SectionSet
  <2>1. CASE RewriteIni
    <3>1. faults' = FaultBudget
      BY BudgetSteps DEF SafeStep, Budgets
    <3>2. \A s \in SectionSet' : s.name # cur
      BY <1>1, <2>1, <3>1 DEF ListInv, WholeInv
    <3>3. SectionSet' = SectionSet \/ SectionSet' = {s \in SectionSet : s.name # cur}
      BY <1>1, <2>1, SectionsStep DEF SafeStep
    <3> QED BY <2>1, <3>2, <3>3
  <2>2. CASE ~RewriteIni
    BY <1>1, <2>2, SafeSections
  <2> QED BY <2>1, <2>2
<1>3. \A s \in SectionSet' : s \in SectionSet
  BY <1>2
<1>4. RemoveDir \/ RewriteIni => \A s \in SectionSet' : s.name # cur
  BY <1>1, <1>2 DEF SafeStep, WholeInv
<1>5. /\ UNCHANGED <<home, disk>> \/ (RemoveDir /\ RemoveRepoDirectory(cur))
      /\ DOMAIN home = Names /\ DOMAIN disk = Names \union {Main}
  BY DEF RemoveIni, RewriteIni, RemoveDir, SafeStep, BaseInv, BaseType
<1>6. \A s \in SectionSet' : home'[s.name] = home[s.name] /\ disk'[s.name] = disk[s.name]
  <2> TAKE s \in SectionSet'
  <2>1. s.name \in Names
    BY <1>3, SectionFacts DEF SafeStep
  <2> QED BY <1>4, <1>5, <2>1 DEF RemoveRepoDirectory
<1>7. RemoveDir => RemoveRepoDirectory(cur)
  BY DEF RemoveDir, SafeStep
<1> QED BY <1>1, <1>2, <1>4, <1>6, <1>7

LEMMA DiskRemove ==
  ASSUME SafeStep, ListInv', LowerNames, RemoveIni \/ RewriteIni \/ RemoveDir
  PROVE  DiskInv'
<1> USE ThirdPartyAssumption
<1>1. /\ pc' \in {"rewrite_ini", "remove_dir", "remove_scripts"} /\ cur' = cur /\ cur \in Names
      /\ pc' = "remove_scripts" => RemoveDir /\ RemoveRepoDirectory(cur)
      /\ \A s \in SectionSet' : s \in SectionSet
      /\ \A s \in SectionSet' : home'[s.name] = home[s.name] /\ disk'[s.name] = disk[s.name]
  BY RemoveFacts
<1>2. ASSUME NEW s \in SectionSet'
      PROVE  FilesOf(s.url, home'[s.name].version, home'[s.name].bundles) = disk'[s.name]
  BY <1>1, <1>2 DEF SafeStep, DiskInv
<1>3. pc' = "remove_scripts" => disk'[cur'] = {}
  BY <1>1 DEF RemoveRepoDirectory, SafeStep, BaseInv, BaseType
<1> QED BY <1>1, <1>2, <1>3 DEF DiskInv, ListInv, BaseInv, BaseType

LEMMA RunsRemove ==
  ASSUME CalmStep, ListInv', LowerNames, RemoveIni \/ RewriteIni \/ RemoveDir
  PROVE  ScriptInv'
<1>1. /\ pc \in {"remove_ini", "rewrite_ini", "remove_dir"}
      /\ pc' \in {"rewrite_ini", "remove_dir", "remove_scripts"}
      /\ RemoveIni => pc = "remove_ini" /\ pc' = "rewrite_ini"
      /\ RewriteIni <=> pc = "rewrite_ini" /\ pc' = "remove_dir"
      /\ RemoveDir <=> pc = "remove_dir" /\ pc' = "remove_scripts"
      /\ UNCHANGED <<script, cur, post>> /\ cur \in Names
      /\ SectionSet' = IF RewriteIni THEN {s \in SectionSet : s.name # cur} ELSE SectionSet
      /\ RemoveDir \/ RewriteIni => \A s \in SectionSet' : s.name # cur
      /\ \A s \in SectionSet' : home'[s.name] = home[s.name]
  BY RemoveFacts DEF CalmStep
<1>2. ASSUME NEW w \in Wrappers, Fine(w) PROVE Fine(w)'
  <2>1. CASE Doomed(w)
    <3>1. pc = "remove_dir" /\ w.repo = cur
      BY <1>1, <2>1 DEF Doomed
    <3>2. Doomed(w)'
      BY <1>1, <3>1 DEF Doomed
    <3> QED BY <3>2 DEF Fine
  <2>2. CASE Rightful(w) /\ (w.repo = cur => RemoveIni)
    <3>1. \A s \in SectionSet : s.name = w.repo => s \in SectionSet'
      BY <1>1, <2>2
    <3>2. Rightful(w)'
      BY <1>1, <2>2, <3>1, RightfulKept
    <3> QED BY <3>2 DEF Fine
  <2>3. CASE w.repo = cur /\ ~RemoveIni
    <3>1. Doomed(w)'
      BY <1>1, <2>3 DEF Doomed
    <3> QED BY <3>1 DEF Fine
  <2> QED BY <1>2, <2>1, <2>2, <2>3 DEF Fine
<1>3. ScriptsFine'
  BY <1>1, <1>2, ScriptsKept DEF CalmStep, SafeStep, ScriptInv
<1>4. \A b \in Bases : script'[b] # None /\ script'[b].repo = cur' => script'[b].file \in post'.exported
  <2>1. pc \in Removing
    BY <1>1 DEF Removing
  <2> QED BY <1>1, <2>1 DEF CalmStep, SafeStep, ScriptInv
<1>5. pc' = "remove_scripts" => \A s \in SectionSet' : s.name # cur'
  BY <1>1
<1> QED BY <1>1, <1>3, <1>4, <1>5 DEF ScriptInv

\* The scripts of a function that went through the files: those it made, and those that
\* were right and are not among those that go.
LEMMA ScriptsProcessed ==
  ASSUME script \in Scripts, ScriptsFine, NEW what \in Whats, Owned(what), NEW n, n = Owner(what),
         script' = ProcessFiles(what).scripts,
         \A b \in Bases : \A w \in Wrappers :
           script[b] = w /\ w # None /\ Fine(w) /\ w.file \notin Unmade(what) => Fine(w)',
         \A f \in Made(what) \intersect Files : Fine(Wrapper(n, f))'
  PROVE  ScriptsFine'
<1> SUFFICES ASSUME NEW b \in Bases, script'[b] # None
    PROVE  (Base[script[b].file] = b /\ Fine(script[b]))'
  BY DEF ScriptsFine
<1>1. PICK w : w = script'[b]
  OBVIOUS
<1>2. \/ \E f \in Made(what) : f \in Files /\ Base[f] = b /\ w = Wrapper(n, f)
      \/ w = script[b] /\ \A f \in Touched(what) \intersect Files : Base[f] # b
  BY <1>1, AllFiles
<1>3. CASE \E f \in Made(what) : f \in Files /\ Base[f] = b /\ w = Wrapper(n, f)
  <2>1. PICK f \in Made(what) : f \in Files /\ Base[f] = b /\ w = Wrapper(n, f)
    BY <1>3
  <2>2. Fine(Wrapper(n, f))'
    BY <2>1
  <2>3. Wrapper(n, f).file = f
    BY DEF Wrapper
  <2> QED BY <1>1, <2>1, <2>2, <2>3 DEF Fine, Rightful, Doomed, Wrapper
<1>4. CASE w = script[b] /\ \A f \in Touched(what) \intersect Files : Base[f] # b
  <2>1. w \in Wrappers /\ Base[w.file] = b /\ Fine(w)
    BY <1>1, <1>4 DEF Scripts, ScriptsFine
  <2>2. w.file \in Files
    BY <2>1 DEF Wrappers
  <2>3. Fine(w)'
    BY <1>1, <1>4, <2>1, <2>2 DEF Touched
  <2> QED BY <1>1, <2>1, <2>3 DEF Fine, Rightful, Doomed
<1> QED BY <1>2, <1>3, <1>4

LEMMA RunsRemoveScripts ==
  ASSUME CalmStep, LowerNames, RemoveScripts
  PROVE  ScriptInv'
<1>1. pc = "remove_scripts" /\ pc' = "idle" /\ UNCHANGED <<home, disk>>
      /\ script' = ProcessFiles("remove").scripts
  BY DEF RemoveScripts, Finish
<1>2. SectionSet' = SectionSet
  BY <1>1, CalmSections
<1>3. disk[cur] = {}
  BY <1>1 DEF CalmStep, SafeStep, DiskInv
<1>4. Unmade("remove") = post.exported /\ Made("remove") = {}
  BY <1>3 DEF Unmade, Made
<1>5. ASSUME NEW b \in Bases, NEW w \in Wrappers, script[b] = w, w # None, Fine(w),
             w.file \notin post.exported
      PROVE  Fine(w)'
  <2>1. w.repo # cur
    BY <1>1, <1>5 DEF CalmStep, SafeStep, ScriptInv, Removing
  <2>2. Rightful(w)
    BY <1>5, <2>1 DEF Fine, Doomed
  <2>3. Rightful(w)'
    BY <1>1, <1>2, <2>2, RightfulKept
  <2> QED BY <2>3 DEF Fine
<1>6. Owned("remove") /\ "remove" \in Whats
  BY DEF Owned, Whats
<1>7. PICK n : n = Owner("remove")
  OBVIOUS
<1>8. ScriptsFine'
  BY <1>1, <1>4, <1>5, <1>6, <1>7, ScriptsProcessed DEF CalmStep, SafeStep, ScriptInv
<1> QED BY <1>1, <1>8 DEF ScriptInv, Removing

\* The scripts after the files of a repository were changed.
LEMMA RunsPost ==
  ASSUME CalmStep, LowerNames, Post
  PROVE  ScriptInv'
<1> USE ThirdPartyAssumption
<1> DEFINE s0 == [name |-> cur, url |-> url]
<1>1. pc = "post" /\ pc' \in {"select", "next"} /\ UNCHANGED <<home, disk>>
  BY DEF Post, Done
<1>2. SectionSet' = SectionSet
  BY <1>1, CalmSections
<1>3. cur \in RepoNames /\ place = cur /\ url = UrlOf(cur)
  BY <1>1 DEF CalmStep, SafeStep, BaseInv, CommandInv, Working
<1>4. s0 \in SectionSet
  BY <1>1, <1>3, ListedUrl DEF CalmStep, SafeStep
<1>5. Owned(What) /\ What \in Whats /\ Owner(What) = cur
  <2>1. cur \in Names
    BY <1>3, UrlOfOne DEF CalmStep, SafeStep, BaseInv, BaseType
  <2> QED BY <1>3, <2>1, WhatIs DEF Owned, Owner, Whats
<1>6. script' = ProcessFiles(What).scripts
  BY DEF Post, What, CalmStep, SafeStep
<1>7. ASSUME NEW w \in Wrappers, Fine(w), w.file \notin Unmade(What) PROVE Fine(w)'
  <2>1. Rightful(w)
    BY <1>1, <1>7 DEF Fine, Doomed
  <2>2. Rightful(w)'
    BY <1>1, <1>2, <2>1, RightfulKept
  <2> QED BY <2>2 DEF Fine
<1>8. PICK n : n = cur
  OBVIOUS
<1>9. ASSUME NEW f \in Made(What) PROVE Fine(Wrapper(n, f))'
  <2>1. f \in ExportedBy(s0.name, s0.url)
    BY <1>1, <1>9 DEF CalmStep, SafeStep, ScriptInv
  <2>2. Rightful(Wrapper(n, f))
    BY <1>4, <1>8, <2>1 DEF Rightful, Wrapper
  <2>3. Rightful(Wrapper(n, f))'
    BY <1>1, <1>2, <2>2, RightfulKept
  <2> QED BY <2>3 DEF Fine
<1>10. PICK what : what = What
  OBVIOUS
<1>11. ScriptsFine'
  BY <1>5, <1>6, <1>7, <1>8, <1>9, <1>10, ScriptsProcessed DEF CalmStep, SafeStep, ScriptInv
<1> QED BY <1>1, <1>11 DEF ScriptInv, Removing

LEMMA RunsRegenerate ==
  ASSUME CalmStep, LowerNames, Regenerate
  PROVE  ScriptInv'
<1>1. pc = "regenerate" /\ pc' = "regenerate" /\ UNCHANGED <<home, disk>>
  BY DEF Regenerate
<1>2. SectionSet' = SectionSet
  BY <1>1, CalmSections
<1>3. ASSUME NEW w \in Wrappers, Fine(w) PROVE Fine(w)'
  <2>1. Rightful(w)
    BY <1>1, <1>3 DEF Fine, Doomed
  <2>2. Rightful(w)'
    BY <1>1, <1>2, <2>1, RightfulKept
  <2> QED BY <2>2 DEF Fine
<1>4. CASE script' = script
  <2>1. ScriptsFine'
    BY <1>3, <1>4, ScriptsKept DEF CalmStep, SafeStep, ScriptInv
  <2> QED BY <1>1, <2>1 DEF ScriptInv, Removing
<1>5. CASE /\ Owned("regenerate") /\ Head(todo) \in RepoNames
           /\ script' = ProcessFiles("regenerate").scripts
  <2>1. PICK n : n = Head(todo)
    OBVIOUS
  <2> DEFINE s0 == [name |-> n, url |-> UrlOf(n)]
  <2>2. s0 \in SectionSet
    BY <1>1, <1>5, <2>1, ListedUrl DEF CalmStep, SafeStep
  <2>3. Owner("regenerate") = n /\ "regenerate" \in Whats
    BY <2>1 DEF Owner, Whats
  <2>4. ASSUME NEW f \in Made("regenerate") PROVE Fine(Wrapper(n, f))'
    <3>1. f \in ExportedBy(s0.name, s0.url)
      <4>1. PICK s : s = s0
        OBVIOUS
      <4>2. disk[n] = FilesOf(UrlOf(n), home[n].version, home[n].bundles)
        BY <2>2, <4>1 DEF CalmStep, SafeStep, DiskInv
      <4>3. DroppedBy(n, UrlOf(n)) \intersect disk[n] = {}
        BY <4>2, Exporting DEF DroppedBy
      <4> QED BY <2>1, <2>4, <4>3 DEF Made
    <3>2. Rightful(Wrapper(n, f))
      BY <2>2, <3>1 DEF Rightful, Wrapper
    <3>3. Rightful(Wrapper(n, f))'
      BY <1>1, <1>2, <3>2, RightfulKept
    <3> QED BY <3>3 DEF Fine
  <2>5. ScriptsFine'
    BY <1>3, <1>5, <2>3, <2>4, ScriptsProcessed DEF CalmStep, SafeStep, ScriptInv
  <2> QED BY <1>1, <2>5 DEF ScriptInv, Removing
<1>6. ScriptStep /\ pc \notin {"remove_scripts", "post"}
  BY <1>1, ScriptSteps DEF CalmStep, SafeStep
<1>7. ~RemoveScripts /\ ~Post
  BY <1>6 DEF RemoveScripts, Post
<1>8. ~NewTemplate
  BY <1>1 DEF NewTemplate, Idle, CalmStep, SafeStep, BaseInv, CommandInv
<1> QED BY <1>4, <1>5, <1>6, <1>7, <1>8 DEF ScriptStep

LEMMA RunsNewTemplate ==
  ASSUME CalmStep, LowerNames, NewTemplate
  PROVE  ScriptInv'
<1>1. pc = "idle" /\ pc' = "idle" /\ UNCHANGED <<home, disk>>
  BY DEF NewTemplate, Idle, CalmStep, SafeStep, BaseInv, CommandInv
<1>2. SectionSet' = SectionSet
  BY <1>1, CalmSections
<1>3. ScriptsFine'
  <2> SUFFICES ASSUME NEW b \in Bases, script'[b] # None
      PROVE  (Base[script[b].file] = b /\ Fine(script[b]))'
    BY DEF ScriptsFine
  <2>1. PICK w, v : w = script'[b] /\ v = script[b]
    OBVIOUS
  <2>2. v # None /\ w = [repo |-> v.repo, file |-> v.file, fresh |-> FALSE]
    BY <2>1 DEF NewTemplate
  <2>3. Base[v.file] = b /\ Fine(v)
    BY <2>1, <2>2 DEF CalmStep, SafeStep, ScriptInv, ScriptsFine
  <2>4. Rightful(w)
    BY <1>1, <2>2, <2>3 DEF Fine, Doomed, Rightful
  <2>5. Rightful(w)'
    BY <1>1, <1>2, <2>4, RightfulKept
  <2>6. Base[w.file] = b
    BY <2>2, <2>3
  <2> QED BY <2>1, <2>5, <2>6 DEF Fine, Rightful, Doomed
<1> QED BY <1>1, <1>3 DEF ScriptInv, Removing

\* The files of a repository are changed: what it exports afterwards, and what it did.
Exports == Exported(url, Version, Installed)

\* What the functions make and remove after the files of bundles were changed.
LEMMA WhatNext ==
  ASSUME pc = "process", UNCHANGED <<cmd, cur, place>>, place = cur
  PROVE  /\ cmd.op = "bundle-add" => Made(What)' = post'.exported
         /\ cmd.op = "bundle-remove" =>
              /\ Made(What)' = {}
              /\ Unmade(What)' = post'.unexported \union (post'.exported \ disk'[cur])
         /\ cmd.op = "update" \/ cmd.op = "repair" =>
              /\ Made(What)' = post'.exported \intersect disk'[cur]
              /\ Unmade(What)' = (post'.exported \intersect post'.deleted) \ disk'[cur]
<1>1. CASE cmd.op = "bundle-add"
  <2>1. What' = "create"
    BY <1>1 DEF What
  <2> QED BY <1>1, <2>1 DEF Made
<1>2. CASE cmd.op = "bundle-remove"
  <2>1. What' = "remove_bundle"
    BY <1>2 DEF What
  <2> QED BY <1>2, <2>1 DEF Made, Unmade
<1>3. CASE cmd.op = "update" \/ cmd.op = "repair"
  <2>1. What' = "update"
    BY <1>3 DEF What
  <2> QED BY <1>3, <2>1 DEF Made, Unmade
<1> QED BY <1>1, <1>2, <1>3

LEMMA WorkedOn ==
  ASSUME SafeStep, LowerNames, AddBundle \/ RemoveBundle \/ UpdateRepo \/ RepairRepo
  PROVE  /\ pc = "process" /\ pc' = "post" /\ UNCHANGED <<script, cmd, cur, place, url, template>>
         /\ \A n \in Names : n # cur => home'[n] = home[n] /\ disk'[n] = disk[n]
         /\ disk'[cur] = FilesOf(url, Version, Installed)'
         /\ ExportsKept =>
              /\ Made(What)' \subseteq Exports'
              /\ Exports \subseteq Exports' \union Unmade(What)'
              /\ \A f \in Exports' : \/ f \in Exports
                                     \/ script[Base[f]] = None
                                     \/ What' = "update" /\ f \in Made("update")'
<1>1. pc = "process" /\ pc' = "post" /\ UNCHANGED <<script, cmd, cur, place, url, template>>
  BY DEF AddBundle, RemoveBundle, UpdateRepo, RepairRepo
<1>2. /\ cur \in RepoNames /\ cur \in Names /\ place = cur /\ url = UrlOf(cur) /\ url \in Urls
      /\ Version = home[cur].version /\ Installed = home[cur].bundles
      /\ Version \in DOMAIN Catalog[url] /\ Version \in Nat /\ Version > 0
      /\ Installed \subseteq AllBundles
      /\ [name |-> cur, url |-> url] \in SectionSet
  BY <1>1, WorkFacts DEF SafeStep
<1>3. DOMAIN home = Names /\ DOMAIN disk = Names \union {Main}
  BY DEF SafeStep, BaseInv, BaseType
<1>4. \A n \in Names : n # cur => home'[n] = home[n] /\ disk'[n] = disk[n]
  BY <1>2, <1>3 DEF AddBundle, RemoveBundle, UpdateRepo, RepairRepo
<1>5. disk[cur] = FilesOf(url, Version, Installed)
  BY <1>2 DEF SafeStep, DiskInv
<1>6. Version' = home'[cur].version /\ Installed' = home'[cur].bundles
  BY <1>1, <1>2 DEF Version, Installed
<1> DEFINE Scripted == /\ Made(What)' \subseteq Exports'
                       /\ Exports \subseteq Exports' \union Unmade(What)'
                       /\ \A f \in Exports' : \/ f \in Exports
                                              \/ script[Base[f]] = None
                                              \/ What' = "update" /\ f \in Made("update")'
           Goal == /\ disk'[cur] = FilesOf(url, Version, Installed)'
                   /\ ExportsKept => Scripted
<1>7. ASSUME NEW v, NEW bundles, home'[cur] = Content(v, bundles)
      PROVE  /\ FilesOf(url, Version, Installed)' = FilesOf(url, v, bundles)
             /\ Exports' = Exported(url, v, bundles)
  BY <1>1, <1>6, <1>7 DEF Content, Exports
<1>8. ASSUME ExportsKept, NEW bundles \in SUBSET AllBundles, NEW some \in SUBSET bundles
      PROVE  Exported(url, Version, some) \subseteq Exported(url, Version, bundles)
  BY <1>2, <1>8 DEF ExportsKept
<1> SUFFICES Goal
  BY <1>1, <1>4
<1>9. CASE AddBundle
  <2> DEFINE b == Head(todo)
  <2>1. /\ cmd.op = "bundle-add" /\ b \in BundlesOf(url, Version)
        /\ home'[cur] = Content(Version, Installed \union {b})
        /\ disk'[cur] = disk[cur] \union FilesOf(url, Version, {b})
        /\ post' = ToPost(Exported(url, Version, {b}), {}, {})
        /\ \A f \in Exported(url, Version, {b}) : script[Base[f]] = None
    BY <1>2, <1>3, <1>9 DEF AddBundle
  <2> HIDE DEF b
  <2>2. /\ FilesOf(url, Version, Installed)' = FilesOf(url, Version, Installed \union {b})
        /\ Exports' = Exported(url, Version, Installed \union {b})
    BY <1>7, <2>1
  <2>3. /\ FilesOf(url, Version, Installed \union {b})
             = FilesOf(url, Version, Installed) \union FilesOf(url, Version, {b})
        /\ Exported(url, Version, Installed \union {b})
             \subseteq Exported(url, Version, Installed) \union Exported(url, Version, {b})
    <3>1. PICK u, v, had : u = url /\ v = Version /\ had = Installed
      OBVIOUS
    <3>2. u \in Urls /\ v \in DOMAIN Catalog[u]
      BY <1>2, <3>1
    <3>3. /\ FilesOf(u, v, had \union {b}) = FilesOf(u, v, had) \union FilesOf(u, v, {b})
          /\ Exported(u, v, had \union {b}) \subseteq Exported(u, v, had) \union Exported(u, v, {b})
      BY <3>2, BundleFiles
    <3> QED BY <3>1, <3>3
  <2>4. Made(What)' = Exported(url, Version, {b})
    BY <1>1, <1>2, <2>1, WhatNext DEF ToPost
  <2>5. ASSUME ExportsKept
        PROVE  Exported(url, Version, {b}) \subseteq Exports' /\ Exports \subseteq Exports'
    <3>1. b \in AllBundles
      BY <1>2, <2>1, CatalogFacts
    <3>2. PICK all : all = Installed \union {b}
      OBVIOUS
    <3>3. all \in SUBSET AllBundles /\ {b} \in SUBSET all /\ Installed \in SUBSET all
      BY <1>2, <3>1, <3>2
    <3> QED BY <1>8, <2>2, <2>5, <3>2, <3>3 DEF Exports
  <2> QED BY <1>5, <2>1, <2>2, <2>3, <2>4, <2>5 DEF Exports
<1>10. CASE RemoveBundle
  <2> DEFINE b == Head(todo)
             kept == FilesOf(url, Version, Installed \ {b})
             gone == FilesOf(url, Version, {b}) \ kept
             fewer == Exported(url, Version, Installed \ {b})
  <2>1. /\ cmd.op = "bundle-remove"
        /\ home'[cur] = Content(Version, Installed \ {b})
        /\ disk'[cur] = disk[cur] \ gone
    BY <1>2, <1>3, <1>10 DEF RemoveBundle, SafeStep
  <2>2. /\ Exported(url, Version, {b}) \intersect gone \subseteq post'.exported
        /\ (FilesOf(url, Version, {b}) \intersect kept) \ fewer \subseteq post'.unexported
    BY <1>10 DEF RemoveBundle, ToPost
  <2>3. FilesOf(url, Version, Installed)' = kept /\ Exports' = fewer
    BY <1>7, <2>1
  <2> HIDE DEF b
  <2>4. /\ kept \subseteq FilesOf(url, Version, Installed)
        /\ FilesOf(url, Version, Installed) \subseteq kept \union FilesOf(url, Version, {b})
        /\ Exports \subseteq fewer \union Exported(url, Version, {b})
        /\ Exported(url, Version, {b}) \subseteq FilesOf(url, Version, {b})
    <3>1. PICK u, v, had : u = url /\ v = Version /\ had = Installed
      OBVIOUS
    <3>2. u \in Urls /\ v \in DOMAIN Catalog[u]
      BY <1>2, <3>1
    <3>3. /\ FilesOf(u, v, had \ {b}) \subseteq FilesOf(u, v, had)
          /\ FilesOf(u, v, had) \subseteq FilesOf(u, v, had \ {b}) \union FilesOf(u, v, {b})
          /\ Exported(u, v, had) \subseteq Exported(u, v, had \ {b}) \union Exported(u, v, {b})
      BY <3>2, BundleFiles
    <3>4. Exported(u, v, {b}) \subseteq FilesOf(u, v, {b})
      BY Exporting
    <3> QED BY <3>1, <3>3, <3>4 DEF Exports
  <2>5. ExportsKept => fewer \subseteq Exports
    <3>1. Installed \ {b} \in SUBSET Installed
      OBVIOUS
    <3> QED BY <1>2, <1>8, <3>1 DEF Exports
  <2>6. Made(What)' = {} /\ Unmade(What)' = post'.unexported \union (post'.exported \ disk'[cur])
    BY <1>1, <1>2, <2>1, WhatNext
  <2>7. disk'[cur] = kept
    BY <1>5, <2>1, <2>4
  <2>8. Exports \subseteq fewer \union Unmade(What)'
    BY <2>2, <2>4, <2>6, <2>7
  <2> HIDE DEF kept, fewer, gone
  <2> QED BY <2>3, <2>5, <2>6, <2>7, <2>8
<1>11. CASE UpdateRepo
  <2> DEFINE new == latest[url]
             old == Version
             had == Installed
             changed == UpdateList(url, old, new, had, disk[place])
             after == FilesOf(url, new, had)
             Flag(f) == Entry(url, IF f \in Listed(url, new, had) THEN new ELSE old, had, f).exported
  <2>1. /\ cmd.op = "update" /\ new > old
        /\ home'[cur] = Content(new, had)
        /\ disk'[cur] = (disk[cur] \ (changed \ after)) \union (changed \ (changed \ after))
        /\ post' = ToPost({f \in changed : Flag(f)}, changed \ after, {})
    BY <1>2, <1>3, <1>11 DEF UpdateRepo
  <2>2. /\ new \in DOMAIN Catalog[url] /\ old \in DOMAIN Catalog[url] /\ url \in Urls /\ old < new
        /\ had \in SUBSET AllBundles /\ disk[place] = disk[cur] /\ disk[cur] = FilesOf(url, old, had)
    BY <1>2, <1>5, <2>1, CatalogFacts DEF SafeStep, ContentType
  <2>3. after = FilesOf(url, Version, Installed)' /\ Exports' = Exported(url, new, had)
    BY <1>7, <2>1
  <2>4. Exports = Exported(url, old, had)
    BY DEF Exports
  <2>5. ASSUME NEW f
        PROVE  /\ f \in changed => f \in Listed(url, new, had) \/ f \in Listed(url, old, had)
               /\ f \in disk[cur] /\ f \notin after => f \in changed
               /\ f \in after /\ f \notin disk[cur] => f \in changed
               /\ f \in after /\ f \in disk[cur] => f \in changed \/ SameContent(url, old, new, had, f)
    BY <2>2, UpdateBrings
  <2>6. /\ Made(What)' = {f \in changed : Flag(f)} \intersect disk'[cur]
        /\ Unmade(What)' = ({f \in changed : Flag(f)} \intersect (changed \ after)) \ disk'[cur]
        /\ What' = "update"
    BY <1>1, <1>2, <2>1, WhatNext DEF ToPost, What
  <2> HIDE DEF changed, new, old, had, Flag
  <2>7. disk'[cur] = after
    BY <2>1, <2>5
  <2>8. /\ Exported(url, new, had) = {f \in after : Entry(url, new, had, f).exported}
        /\ Exported(url, old, had) = {f \in disk[cur] : Entry(url, old, had, f).exported}
        /\ after \subseteq Listed(url, new, had)
    BY <2>2, Exporting DEF Exported
  <2> HIDE DEF after
  <2>9. \A f : f \in Listed(url, new, had) => Flag(f) = Entry(url, new, had, f).exported
    BY DEF Flag
  <2>10. \A f : f \notin Listed(url, new, had) => Flag(f) = Entry(url, old, had, f).exported
    BY DEF Flag
  <2>11. Made(What)' \subseteq Exports'
    BY <2>3, <2>6, <2>7, <2>8, <2>9
  <2>12. ASSUME ExportsKept, NEW f \in Exports, f \notin Exports' PROVE f \in Unmade(What)'
    <3>1. f \in disk[cur] /\ Entry(url, old, had, f).exported
      BY <2>4, <2>8
    <3>2. f \in Listed(url, new, had) => Entry(url, new, had, f).exported
      BY <2>2, <2>4, <2>12 DEF ExportsKept
    <3>3. f \notin after
      BY <2>3, <2>8, <2>12, <3>2
    <3>4. f \in changed /\ Flag(f)
      BY <2>5, <2>9, <2>10, <3>1, <3>2, <3>3
    <3> QED BY <2>6, <2>7, <3>3, <3>4
  <2>13. ASSUME ExportsKept, NEW f \in Exports', f \notin Exports PROVE f \in Made(What)'
    <3>1. f \in after /\ f \in Listed(url, new, had) /\ Entry(url, new, had, f).exported
      BY <2>3, <2>8
    <3>2. f \in disk[cur] => ~SameContent(url, old, new, had, f)
      BY <2>2, <2>3, <2>4, <2>13 DEF ExportsKept
    <3>3. f \in changed /\ Flag(f)
      BY <2>5, <2>9, <3>1, <3>2
    <3> QED BY <2>6, <2>7, <3>1, <3>3
  <2>14. Made("update")' = Made(What)'
    BY <2>6
  <2> QED BY <2>3, <2>6, <2>7, <2>11, <2>12, <2>13, <2>14
<1>12. CASE RepairRepo
  <2>1. /\ cmd.op = "repair" /\ UNCHANGED home
        /\ disk'[cur] = (disk[cur] \ Deleted(url, Version, Installed)) \union FilesOf(url, Version, Installed)
        /\ post'.exported = Exports \union DeletedExports(url, Version, Installed)
    BY <1>2, <1>3, <1>12 DEF RepairRepo, ToPost, Exports
  <2>2. Version' = Version /\ Installed' = Installed
    BY <1>2, <1>6, <2>1
  <2>3. FilesOf(url, Version, Installed)' = FilesOf(url, Version, Installed) /\ Exports' = Exports
    BY <1>1, <2>2 DEF Exports
  <2>4. disk'[cur] = FilesOf(url, Version, Installed)
    BY <1>5, <2>1
  <2>5. Made(What)' = post'.exported \intersect disk'[cur]
    BY <1>1, <1>2, <2>1, WhatNext
  <2>6. Made(What)' \subseteq Exports
    BY <2>1, <2>4, <2>5, Exporting
  <2> QED BY <2>3, <2>4, <2>6
<1> QED BY <1>9, <1>10, <1>11, <1>12

\* The files of a repository were changed.
LEMMA DiskWork ==
  ASSUME SafeStep, BaseInv', LowerNames, AddBundle \/ RemoveBundle \/ UpdateRepo \/ RepairRepo
  PROVE  DiskInv'
<1>1. /\ pc = "process" /\ pc' = "post" /\ UNCHANGED <<cur, place, url>>
      /\ \A n \in Names : n # cur => home'[n] = home[n] /\ disk'[n] = disk[n]
      /\ disk'[cur] = FilesOf(url, Version, Installed)'
  BY WorkedOn
<1>2. SectionSet' = SectionSet
  BY <1>1, SafeSections
<1>3. place = cur /\ url = UrlOf(cur)
  BY <1>1, WorkFacts DEF SafeStep
<1>4. Version' = home'[cur].version /\ Installed' = home'[cur].bundles
  BY <1>1, <1>3 DEF Version, Installed
<1>5. \A s \in SectionSet : s.name \in Names /\ (s.name = cur => s.url = url)
  BY <1>1, <1>3, SectionUrl, SectionFacts DEF SafeStep
<1>6. ASSUME NEW s \in SectionSet'
      PROVE  FilesOf(s.url, home'[s.name].version, home'[s.name].bundles) = disk'[s.name]
  <2>1. CASE s.name = cur
    BY <1>1, <1>2, <1>4, <1>5, <1>6, <2>1
  <2>2. CASE s.name # cur
    BY <1>1, <1>2, <1>5, <1>6, <2>2 DEF SafeStep, DiskInv
  <2> QED BY <2>1, <2>2
<1> QED BY <1>1, <1>6 DEF DiskInv, BaseInv, BaseType

LEMMA RunsWork ==
  ASSUME CalmStep, LowerNames, ExportsKept, AddBundle \/ RemoveBundle \/ UpdateRepo \/ RepairRepo
  PROVE  ScriptInv'
<1>1. /\ pc = "process" /\ pc' = "post" /\ UNCHANGED <<script, cmd, cur, place, url>>
      /\ \A n \in Names : n # cur => home'[n] = home[n]
      /\ Made(What)' \subseteq Exports'
      /\ Exports \subseteq Exports' \union Unmade(What)'
  BY WorkedOn DEF CalmStep
<1>2. SectionSet' = SectionSet
  BY <1>1, CalmSections
<1>3. /\ cur \in RepoNames /\ place = cur /\ url = UrlOf(cur)
      /\ Version = home[cur].version /\ Installed = home[cur].bundles
      /\ [name |-> cur, url |-> url] \in SectionSet
  BY <1>1, WorkFacts DEF CalmStep, SafeStep
<1>4. Version' = home'[cur].version /\ Installed' = home'[cur].bundles
  BY <1>1, <1>3 DEF Version, Installed
<1>5. \A s \in SectionSet : s.name \in Names /\ (s.name = cur => s.url = url)
  BY <1>1, <1>3, SectionUrl, SectionFacts DEF CalmStep, SafeStep
<1>6. Exports = ExportedBy(cur, url) /\ Exports' = Exported(url, home'[cur].version, home'[cur].bundles)
  BY <1>1, <1>3, <1>4 DEF Exports, ExportedBy
<1>7. ASSUME NEW w \in Wrappers, Fine(w) PROVE Fine(w)'
  <2>1. Rightful(w)
    BY <1>1, <1>7 DEF Fine, Doomed
  <2>2. CASE w.repo # cur
    <3>1. \A s \in SectionSet : s.name = w.repo => s \in SectionSet' /\ home'[s.name] = home[s.name]
      BY <1>1, <1>2, <1>5, <2>2
    <3>2. Rightful(w)'
      BY <2>1, <3>1, RightfulKept
    <3> QED BY <3>2 DEF Fine
  <2>3. CASE w.repo = cur
    <3>1. w.file \in Exports
      BY <1>5, <1>6, <2>1, <2>3 DEF Rightful
    <3>2. CASE w.file \in Exports'
      <4> DEFINE s0 == [name |-> cur, url |-> url]
      <4>1. PICK s : s = s0
        OBVIOUS
      <4>2. s \in SectionSet' /\ s.name = w.repo /\ s.name = cur /\ s.url = url
        BY <1>1, <1>2, <1>3, <2>3, <4>1
      <4>3. w.file \in ExportedBy(s.name, s.url)'
        BY <1>1, <1>6, <3>2, <4>2 DEF ExportedBy
      <4>4. Rightful(w)'
        BY <4>2, <4>3 DEF Rightful
      <4> QED BY <4>4 DEF Fine
    <3>3. CASE w.file \in Unmade(What)'
      <4>1. Doomed(w)'
        BY <1>1, <2>3, <3>3 DEF Doomed
      <4> QED BY <4>1 DEF Fine
    <3> QED BY <1>1, <3>1, <3>2, <3>3
  <2> QED BY <2>2, <2>3
<1>8. ScriptsFine'
  BY <1>1, <1>7, ScriptsKept DEF CalmStep, SafeStep, ScriptInv
<1>9. Made(What)' \subseteq ExportedBy(cur, url)'
  BY <1>1, <1>6 DEF ExportedBy
<1> QED BY <1>1, <1>8, <1>9 DEF ScriptInv, Removing

\* The steps that touch neither what repositories have nor the scripts.
Others ==
  \/ \E c \in Commands : StartOne(c) \/ StartBundles(c) \/ StartRepos(c)
  \/ AddRefused \/ ImportCertificate \/ ConfirmCertificate
  \/ RemoveNotFound \/ (RemoveLoad /\ pc' # "remove_ini")
  \/ Select \/ SelectUnknown \/ NextRepo \/ SetUp \/ ProcessFails \/ AddBundleRefused
  \/ RemoveBundleRefused \/ UpToDate \/ PermissionsRefused \/ CleanRepo \/ DiagnoseRepo
  \/ CheckUpdateRepo \/ ListRepo \/ InfoRepo \/ InfoBundle
  \/ End \/ Outdated \/ WriteTemplate \/ \E u \in Urls : Publish(u)

LEMMA OtherFacts ==
  ASSUME SafeStep, LowerNames, Others
  PROVE  /\ UNCHANGED <<home, disk, script>> /\ SectionSet' = SectionSet
         /\ pc \notin {"remove_dir", "remove_scripts", "post", "add_repo", "rewrite_ini"}
         /\ pc' \notin Removing \union {"post", "add_repo"}
<1> DEFINE Ours == /\ UNCHANGED <<home, disk, script>>
                   /\ pc \notin {"remove_dir", "remove_scripts", "post", "add_repo", "rewrite_ini"}
                   /\ pc' \notin Removing \union {"post", "add_repo"}
<1>1. cmd = None => pc = "idle"
  BY DEF SafeStep, BaseInv, CommandInv
<1>2. ASSUME NEW c \in Commands, StartOne(c) \/ StartBundles(c) \/ StartRepos(c) PROVE Ours
  BY <1>1, <1>2 DEF StartOne, StartBundles, StartRepos, Idle, Removing
<1>3. ASSUME NEW u \in Urls, Publish(u) PROVE Ours
  BY <1>1, <1>3 DEF Publish, Idle, Removing
<1>4. ASSUME AddRefused \/ ImportCertificate \/ ConfirmCertificate \/ RemoveNotFound
             \/ (RemoveLoad /\ pc' # "remove_ini")
      PROVE  Ours
  BY <1>4 DEF AddRefused, ImportCertificate, ConfirmCertificate, RemoveNotFound, RemoveLoad, Finish, Removing
<1>5. ASSUME Select \/ SelectUnknown \/ NextRepo \/ SetUp
      PROVE  Ours
  BY <1>5 DEF Select, SelectUnknown, NextRepo, SetUp, Done, Finish, Removing
<1>6. ASSUME \/ ProcessFails \/ AddBundleRefused
             \/ RemoveBundleRefused \/ UpToDate \/ PermissionsRefused \/ CleanRepo \/ DiagnoseRepo
             \/ CheckUpdateRepo \/ ListRepo \/ InfoRepo \/ InfoBundle
      PROVE  Ours
  BY <1>6 DEF ProcessFails, AddBundleRefused, RemoveBundleRefused, UpToDate, PermissionsRefused,
              CleanRepo, DiagnoseRepo, CheckUpdateRepo, ListRepo, InfoRepo, InfoBundle, Done, Removing
<1>7. ASSUME End \/ Outdated \/ WriteTemplate PROVE Ours
  BY <1>7 DEF End, Outdated, WriteTemplate, Finish, Removing
<1> HIDE DEF Ours
<1>8. Ours
  BY <1>2, <1>3, <1>4, <1>5, <1>6, <1>7 DEF Others
<1>9. SectionSet' = SectionSet
  BY <1>8, SafeSections DEF Ours
<1> QED BY <1>8, <1>9 DEF Ours

LEMMA RunsOthers ==
  ASSUME CalmStep, BaseInv', LowerNames, Others
  PROVE  ScriptInv'
BY OtherFacts, Unaffected DEF CalmStep

\* And those that work on the scripts, or are about to.
ScriptWork == (RemoveLoad /\ pc' = "remove_ini") \/ RemoveScripts \/ Post \/ Regenerate \/ NewTemplate

LEMMA ScriptWorkFacts ==
  ASSUME SafeStep, LowerNames, ScriptWork
  PROVE  /\ UNCHANGED <<home, disk>> /\ SectionSet' = SectionSet
         /\ pc' \in {"remove_ini", "idle", "select", "next", "regenerate"}
<1>1. /\ UNCHANGED <<home, disk>> /\ pc \notin {"add_repo", "rewrite_ini"}
      /\ pc' \in {"remove_ini", "idle", "select", "next", "regenerate"}
  BY DEF ScriptWork, RemoveLoad, RemoveScripts, Post, Regenerate, NewTemplate, Finish, Done, Idle,
         SafeStep, BaseInv, CommandInv
<1> QED BY <1>1, SafeSections

\* As long as no call fails the binaries of listed repositories are on disk, wherever a
\* command is killed.
LEMMA DiskStep ==
  ASSUME RunsInv, ListInv', LowerNames, [Next]_vars, faults' = FaultBudget
  PROVE  DiskInv'
<1>1. BaseInv /\ NamesInv /\ BaseInv'
  BY DEF RunsInv, ListInv
<1>2. CASE Kill
  <2>1. pc' = "idle" /\ UNCHANGED <<home, disk>> /\ faults = FaultBudget
    BY <1>2 DEF Kill, Finish
  <2>2. SectionSet' \subseteq SectionSet
    BY <1>1, <1>2, SectionsStep DEF Kill, AddRepo, RewriteIni, Finish
  <2> QED BY <1>1, <2>1, <2>2, DiskKept DEF RunsInv
<1>3. CASE ~Kill
  <2>1. SafeStep
    BY <1>3, SafeSteps
  <2>2. CASE UNCHANGED vars
    <3>1. SectionSet' = SectionSet
      BY <2>2 DEF SectionSet, SectionList
    <3> QED BY <2>1, <2>2, <3>1 DEF SafeStep, DiskInv
  <2>3. CASE AddSetUp \/ AddCore \/ AddRepo
    BY <1>1, <2>1, <2>3, DiskAdd, DiskAddRepo
  <2>4. CASE RemoveIni \/ RewriteIni \/ RemoveDir
    BY <2>1, <2>4, DiskRemove
  <2>5. CASE AddBundle \/ RemoveBundle \/ UpdateRepo \/ RepairRepo
    BY <1>1, <2>1, <2>5, DiskWork
  <2>6. CASE Others \/ ScriptWork
    <3>1. UNCHANGED <<home, disk>> /\ SectionSet' = SectionSet /\ pc' \notin {"add_repo", "remove_scripts"}
      BY <2>1, <2>6, OtherFacts, ScriptWorkFacts DEF Removing
    <3> QED BY <1>1, <2>1, <3>1, DiskKept DEF SafeStep
  <2> QED BY <1>3, <2>2, <2>3, <2>4, <2>5, <2>6 DEF Next, Others, ScriptWork
<1> QED BY <1>2, <1>3

LEMMA RunsStutter ==
  ASSUME CalmStep, UNCHANGED vars
  PROVE  ScriptInv'
<1>1. SectionSet' = SectionSet
  BY DEF SectionSet, SectionList
<1>2. What' = What
  BY DEF What
<1>3. UNCHANGED <<Made(What), Unmade(What)>>
  BY <1>2 DEF Made, Unmade, UrlOf, Repos
<1>4. ASSUME NEW w \in Wrappers, Fine(w) PROVE Fine(w)'
  <2>1. CASE Rightful(w)
    BY <1>1, <2>1, RightfulKept DEF Fine
  <2>2. CASE Doomed(w)
    BY <1>3, <2>2 DEF Fine, Doomed
  <2> QED BY <1>4, <2>1, <2>2 DEF Fine
<1>5. ScriptsFine'
  BY <1>4, ScriptsKept DEF CalmStep, SafeStep, ScriptInv
<1>6. ExportedBy(cur, url)' = ExportedBy(cur, url)
  BY DEF ExportedBy
<1> QED BY <1>1, <1>3, <1>5, <1>6 DEF CalmStep, SafeStep, ScriptInv

LEMMA RunsInit ==
  ASSUME Init
  PROVE  RunsInv
<1>1. ListInv
  BY ListInit
<1>2. script \in Scripts /\ \A b \in Bases : script[b] = None
  BY DEF Init, Scripts
<1>3. SectionSet = {} /\ pc = "idle"
  BY DEF Init, SectionSet, SectionList
<1>4. DiskInv
  BY <1>3 DEF Init, DiskInv
<1>5. ScriptInv
  BY <1>2, <1>3 DEF ScriptInv, ScriptsFine, Removing
<1> QED BY <1>1, <1>2, <1>4, <1>5 DEF RunsInv

LEMMA RunsNext ==
  ASSUME RunsInv, LowerNames, ExportsKept, [Next]_vars
  PROVE  RunsInv'
<1>1. ListInv'
  BY ListNext DEF RunsInv
<1>2. BaseInv /\ BaseInv'
  BY <1>1 DEF RunsInv, ListInv
<1>3. script' \in Scripts
  BY <1>2, ScriptsTyped DEF RunsInv
<1>4. faults' = FaultBudget => DiskInv'
  BY <1>1, DiskStep
<1>5. ASSUME Calm' PROVE ScriptInv'
  <2>1. CalmStep
    BY <1>5, CalmSteps
  <2>2. CASE UNCHANGED vars
    BY <2>1, <2>2, RunsStutter
  <2>3. CASE AddSetUp \/ AddCore \/ AddRepo
    BY <2>1, <2>3, RunsAdd, RunsAddRepo
  <2>4. CASE RemoveIni \/ RewriteIni \/ RemoveDir
    BY <1>1, <2>1, <2>4, RunsRemove
  <2>5. CASE AddBundle \/ RemoveBundle \/ UpdateRepo \/ RepairRepo
    BY <2>1, <2>5, RunsWork
  <2>6. CASE Others
    BY <1>2, <2>1, <2>6, RunsOthers
  <2>7. CASE ScriptWork
    BY <2>1, <2>7, RunsRemoveLoad, RunsRemoveScripts, RunsPost, RunsRegenerate, RunsNewTemplate DEF ScriptWork
  <2>8. ~Kill
    BY <2>1 DEF CalmStep, SafeStep
  <2> QED BY <2>2, <2>3, <2>4, <2>5, <2>6, <2>7, <2>8 DEF Next, Others, ScriptWork
<1> QED BY <1>1, <1>3, <1>4, <1>5 DEF RunsInv

\* The invariant of the scripts.
THEOREM RunsInvariance == LowerNames /\ ExportsKept => (Spec => []RunsInv)
<1> SUFFICES ASSUME LowerNames, ExportsKept PROVE Spec => []RunsInv
  OBVIOUS
<1>1. Init => RunsInv
  BY RunsInit
<1>2. RunsInv /\ [Next]_vars => RunsInv'
  BY RunsNext
<1> QED BY <1>1, <1>2, PTL DEF Spec

\* ScriptsRun: between commands every wrapper script runs a binary that is on disk, as
\* long as no call failed and no command was killed (3rd_party_repos.c,
\* third_party_create_wrapper_script, third_party_update_wrapper_script,
\* third_party_remove_binary).
THEOREM ScriptsAllRun == LowerNames => (Spec => []ScriptsRun)
<1> SUFFICES ASSUME LowerNames PROVE Spec => []ScriptsRun
  OBVIOUS
<1>1. CASE ExportsKept
  <2>1. RunsInv => ScriptsRun
    <3> SUFFICES ASSUME RunsInv, Idle, Calm, NEW b \in Bases, script[b] # None
        PROVE  script[b].file \in disk[script[b].repo]
      BY DEF ScriptsRun, Calm
    <3>1. pc = "idle"
      BY DEF RunsInv, ListInv, BaseInv, CommandInv, Idle
    <3>2. Rightful(script[b])
      BY <3>1 DEF RunsInv, ScriptInv, ScriptsFine, Fine, Doomed
    <3>3. PICK s \in SectionSet : s.name = script[b].repo /\ script[b].file \in ExportedBy(s.name, s.url)
      BY <3>2 DEF Rightful
    <3>4. FilesOf(s.url, home[s.name].version, home[s.name].bundles) = disk[s.name]
      BY DEF RunsInv, DiskInv, Calm
    <3>5. ExportedBy(s.name, s.url) \subseteq FilesOf(s.url, home[s.name].version, home[s.name].bundles)
      BY Exporting DEF ExportedBy
    <3> QED BY <3>3, <3>4, <3>5
  <2>2. Spec => []RunsInv
    BY <1>1, RunsInvariance
  <2> QED BY <2>1, <2>2, PTL
<1>2. CASE ~ExportsKept
  <2>1. ScriptsRun
    BY <1>2 DEF ScriptsRun
  <2> QED BY <2>1, PTL
<1> QED BY <1>1, <1>2

----------------------------------------------------------------------------
(* The template tells the truth.                                           *)

\* 3rd-party add installs os-core with bundle_add, whose post-processing does nothing:
\* binaries that os-core exports get no script, and the one of an earlier repository of
\* that name may be there.
CoreExportsNothing ==
  \A u \in Urls : \A v \in DOMAIN Catalog[u] : Exported(u, v, {Core}) = {}

\* No call failed, and one command at most was killed.
OneKill == faults = FaultBudget /\ crashes + 1 >= CrashBudget

\* A script of a swupd with another template.
Stale(w) == w # None /\ ~w.fresh

\* A script that the update of the files of its repository is about to write.
Due(w) == pc = "post" /\ What = "update" /\ w.repo = cur /\ w.file \in Made("update")

\* The template on disk says that no script of an exported binary is stale; while scripts
\* are made again it does not say so, and those that are stale are of repositories that
\* are still to be worked on.
FreshScripts == \A b \in Bases : Stale(script[b]) /\ Rightful(script[b]) => Due(script[b])
Awaited == \A b \in Bases : Stale(script[b]) /\ Rightful(script[b]) =>
                              \E i \in DOMAIN todo : todo[i] = script[b].repo
FreshInv ==
  /\ template => FreshScripts
  /\ pc = "regenerate" => ~template /\ Awaited

TruthInv ==
  /\ \A b \in Bases : script[b] # None => Base[script[b].file] = b
  /\ pc = "add_repo" => home[cur].bundles \subseteq {Core}
  /\ OneKill => FreshInv
  /\ Calm /\ template => \A b \in Bases : ~Stale(script[b])

\* What a step leaves of a script: none, a fresh one, or what there was.
NoneOlder ==
  \A b \in Bases : \/ script'[b] = None
                   \/ script'[b].fresh /\ Base[script'[b].file] = b
                   \/ script'[b] = script[b]

LEMMA ScriptsAfter ==
  ASSUME BaseInv, script \in Scripts, [Next]_vars, script' = script \/ ~NewTemplate
  PROVE  NoneOlder
<1> SUFFICES ASSUME NEW b \in Bases
    PROVE  \/ script'[b] = None
           \/ script'[b].fresh /\ Base[script'[b].file] = b
           \/ script'[b] = script[b]
  BY DEF NoneOlder
<1>1. ASSUME NEW what \in Whats, Owned(what), NEW w, w = ProcessFiles(what).scripts[b]
      PROVE  w = None \/ (w.fresh /\ Base[w.file] = b) \/ w = script[b]
  <2>1. \/ w = None
        \/ \E f \in Made(what) : f \in Files /\ Base[f] = b /\ w = Wrapper(Owner(what), f)
        \/ w = script[b]
    BY <1>1, AllFiles
  <2> QED BY <2>1 DEF Wrapper
<1>2. Owned("remove") /\ What \in Whats /\ "regenerate" \in Whats /\ "remove" \in Whats
  BY WhatIs DEF Owned, Whats
<1>3. ASSUME NEW what \in Whats, Owned(what), NEW f,
             script' = [ProcessFiles(what).scripts EXCEPT ![Base[f]] = None]
      PROVE  script'[b] = None \/ script'[b] = ProcessFiles(what).scripts[b]
  <2>1. ProcessFiles(what).scripts \in Scripts
    BY <1>3, AllFiles
  <2> QED BY <1>3, <2>1 DEF Scripts
<1> QED BY <1>1, <1>2, <1>3, ScriptSteps DEF ScriptStep

\* Which scripts are rightful is not changed when no section comes, and none exports more.
Narrower ==
  \A s \in SectionSet' : \/ s \in SectionSet /\ ExportedBy(s.name, s.url)' \subseteq ExportedBy(s.name, s.url)
                         \/ ExportedBy(s.name, s.url)' = {}

LEMMA RightfulBefore ==
  ASSUME Narrower, NEW w, Rightful(w)'
  PROVE  Rightful(w)
<1>1. PICK s \in SectionSet' : s.name = w.repo /\ w.file \in ExportedBy(s.name, s.url)'
  BY DEF Rightful
<1> QED BY <1>1 DEF Narrower, Rightful

LEMMA SameNarrower ==
  ASSUME SectionSet' \subseteq SectionSet, UNCHANGED home
  PROVE  Narrower
BY DEF Narrower, ExportedBy

\* Nothing is stale that was not.
LEMMA FreshKept ==
  ASSUME script \in Scripts, NoneOlder, FreshScripts, pc # "post",
         \A b \in Bases : \A w \in Wrappers : script[b] = w /\ Stale(w) /\ Rightful(w)' => Rightful(w) \/ Due(w)'
  PROVE  FreshScripts'
<1> SUFFICES ASSUME NEW b \in Bases, Stale(script'[b]), Rightful(script[b])'
    PROVE  Due(script[b])'
  BY DEF FreshScripts, Stale
<1>1. PICK w : w = script'[b]
  OBVIOUS
<1>2. Stale(w) /\ Rightful(w)'
  BY <1>1 DEF Rightful
<1>3. w = script[b]
  BY <1>1, <1>2 DEF NoneOlder, Stale
<1>4. w \in Wrappers
  BY <1>2, <1>3 DEF Scripts, Stale
<1>5. Rightful(w) => FALSE
  BY <1>2, <1>3 DEF FreshScripts, Due
<1>6. Due(w)'
  BY <1>2, <1>3, <1>4, <1>5
<1> QED BY <1>1, <1>6 DEF Due

\* Adding and removing repositories, and what touches neither content nor scripts.
LEMMA FreshElse ==
  ASSUME SafeStep, ListInv', TruthInv, FreshScripts, LowerNames, CoreExportsNothing,
         \/ AddSetUp \/ AddCore \/ AddRepo \/ RemoveIni \/ RewriteIni \/ RemoveDir \/ RemoveScripts
         \/ RemoveLoad \/ Others
  PROVE  FreshScripts'
<1>1. /\ BaseInv /\ NamesInv /\ SourceInv /\ WholeInv /\ script \in Scripts /\ [Next]_vars
      /\ faults = FaultBudget
  BY DEF SafeStep
<1>2. CASE AddSetUp \/ AddCore
  <2>1. /\ pc # "post" /\ pc # "idle" /\ SectionSet' = SectionSet
        /\ \A s \in SectionSet : home'[s.name] = home[s.name]
    BY <1>2, AddFacts
  <2>2. Narrower
    BY <2>1 DEF Narrower, ExportedBy
  <2>3. NoneOlder
    BY <1>1, <2>1, ScriptsAfter DEF NewTemplate, Idle, BaseInv, CommandInv
  <2> QED BY <1>1, <2>1, <2>2, <2>3, RightfulBefore, FreshKept
<1>3. CASE AddRepo
  <2>1. pc = "add_repo" /\ UNCHANGED home
    BY <1>3 DEF AddRepo, SafeStep
  <2>2. SectionSet' = SectionSet \/ SectionSet' = SectionSet \union {NewSection}
    BY <1>1, <2>1, SectionsStep DEF SafeStep
  <2>3. cmd.url \in Urls
    BY <1>1, <2>1, ThirdPartyAssumption DEF BaseInv, CommandInv, Adding
  <2>4. home[cur].bundles = {Core} /\ home[cur].version \in DOMAIN Catalog[cmd.url]
    <3>1. home[cur].version > 0 /\ Core \in home[cur].bundles
      BY <1>1, <2>1 DEF WholeInv, Whole
    <3>2. home[cur].version \in {0} \union DOMAIN Catalog[cmd.url]
      BY <1>1, <2>1 DEF SourceInv, FromUrl
    <3>3. home[cur].bundles \subseteq {Core}
      BY <2>1 DEF TruthInv
    <3> QED BY <3>1, <3>2, <3>3
  <2>5. PICK r : r = NewSection
    OBVIOUS
  <2>6. ExportedBy(r.name, r.url)' = {}
    <3>1. r.name = cur /\ r.url = cmd.url
      BY <2>5 DEF NewSection
    <3>2. ExportedBy(r.name, r.url) = {}
      BY <2>3, <2>4, <3>1 DEF ExportedBy, CoreExportsNothing
    <3> QED BY <2>1, <3>2 DEF ExportedBy
  <2>7. Narrower
    <3> SUFFICES ASSUME NEW s \in SectionSet'
        PROVE  \/ s \in SectionSet /\ ExportedBy(s.name, s.url)' \subseteq ExportedBy(s.name, s.url)
               \/ ExportedBy(s.name, s.url)' = {}
      BY DEF Narrower
    <3>1. CASE s \in SectionSet
      BY <2>1, <3>1 DEF ExportedBy
    <3>2. CASE s \notin SectionSet
      <4>1. s = r
        BY <2>2, <2>5, <3>2
      <4> QED BY <2>6, <4>1
    <3> QED BY <3>1, <3>2
  <2>8. NoneOlder
    BY <1>1, <2>1, ScriptsAfter DEF NewTemplate, Idle, BaseInv, CommandInv
  <2> QED BY <1>1, <2>1, <2>7, <2>8, RightfulBefore, FreshKept
<1>4. CASE RemoveIni \/ RewriteIni \/ RemoveDir
  <2>1. /\ pc # "post" /\ pc # "idle"
        /\ \A s \in SectionSet' : s \in SectionSet /\ home'[s.name] = home[s.name]
    BY <1>4, RemoveFacts
  <2>2. Narrower
    BY <2>1 DEF Narrower, ExportedBy
  <2>3. NoneOlder
    BY <1>1, <2>1, ScriptsAfter DEF NewTemplate, Idle, BaseInv, CommandInv
  <2> QED BY <1>1, <2>1, <2>2, <2>3, RightfulBefore, FreshKept
<1>5. CASE Others \/ RemoveScripts \/ RemoveLoad
  <2>1. /\ pc # "post" /\ UNCHANGED home /\ SectionSet' = SectionSet
        /\ script' = script \/ pc = "remove_scripts"
    <3>1. CASE Others
      BY <3>1, OtherFacts
    <3>2. CASE RemoveScripts \/ (RemoveLoad /\ pc' = "remove_ini")
      BY <3>2, ScriptWorkFacts DEF ScriptWork, RemoveScripts, RemoveLoad
    <3>3. CASE RemoveLoad /\ pc' # "remove_ini"
      BY <3>3, OtherFacts DEF Others
    <3> QED BY <1>5, <3>1, <3>2, <3>3
  <2>2. Narrower
    BY <2>1, SameNarrower
  <2>3. NoneOlder
    BY <1>1, <2>1, ScriptsAfter DEF NewTemplate, Idle, BaseInv, CommandInv
  <2> QED BY <1>1, <2>1, <2>2, <2>3, RightfulBefore, FreshKept
<1> QED BY <1>2, <1>3, <1>4, <1>5

\* The files of bundles: a binary that is exported now and was not had no script when a
\* bundle was added, and is due to have one written when the repository was updated.
LEMMA FreshWork ==
  ASSUME SafeStep, TruthInv, FreshScripts, LowerNames, ExportsKept,
         AddBundle \/ RemoveBundle \/ UpdateRepo \/ RepairRepo
  PROVE  FreshScripts'
<1>1. BaseInv /\ NamesInv /\ script \in Scripts /\ [Next]_vars
  BY DEF SafeStep
<1>2. /\ pc = "process" /\ pc' = "post" /\ UNCHANGED <<script, cmd, cur, place, url>>
      /\ \A n \in Names : n # cur => home'[n] = home[n]
      /\ \A f \in Exports' : \/ f \in Exports
                             \/ script[Base[f]] = None
                             \/ What' = "update" /\ f \in Made("update")'
  BY WorkedOn
<1>3. SectionSet' = SectionSet
  BY <1>2, SafeSections
<1>4. /\ place = cur /\ url = UrlOf(cur)
      /\ Version = home[cur].version /\ Installed = home[cur].bundles
  BY <1>2, WorkFacts DEF SafeStep
<1>5. Version' = home'[cur].version /\ Installed' = home'[cur].bundles
  BY <1>2, <1>4 DEF Version, Installed
<1>6. \A s \in SectionSet : s.name \in Names /\ (s.name = cur => s.url = url)
  BY <1>1, <1>2, <1>4, SectionUrl, SectionFacts
<1>7. ASSUME NEW b \in Bases, NEW w \in Wrappers, script[b] = w, Stale(w), Rightful(w)'
      PROVE  Rightful(w) \/ Due(w)'
  <2>1. PICK s \in SectionSet' : s.name = w.repo /\ w.file \in ExportedBy(s.name, s.url)'
    BY <1>7 DEF Rightful
  <2>2. CASE s.name # cur
    <3>1. ExportedBy(s.name, s.url)' = ExportedBy(s.name, s.url)
      BY <1>2, <1>3, <1>6, <2>2 DEF ExportedBy
    <3> QED BY <1>3, <2>1, <3>1 DEF Rightful
  <2>3. CASE s.name = cur
    <3>1. w.file \in Exports'
      BY <1>2, <1>3, <1>5, <1>6, <2>1, <2>3 DEF ExportedBy, Exports
    <3>2. CASE w.file \in Exports
      <4>1. w.file \in ExportedBy(s.name, s.url)
        BY <1>3, <1>4, <1>6, <2>3, <3>2 DEF ExportedBy, Exports
      <4> QED BY <1>3, <2>1, <4>1 DEF Rightful
    <3>3. CASE script[Base[w.file]] = None
      <4>1. w # None
        BY <1>7 DEF Stale
      <4> QED BY <1>7, <3>3, <4>1 DEF TruthInv
    <3>4. CASE What' = "update" /\ w.file \in Made("update")'
      BY <1>2, <2>1, <2>3, <3>4 DEF Due
    <3> QED BY <1>2, <3>1, <3>2, <3>3, <3>4
  <2> QED BY <2>2, <2>3
<1>8. NoneOlder
  BY <1>1, <1>2, ScriptsAfter
<1> QED BY <1>1, <1>2, <1>7, <1>8, FreshKept

\* After the files of an update, the scripts that were due are written.
LEMMA FreshPost ==
  ASSUME SafeStep, TruthInv, FreshScripts, LowerNames, Post
  PROVE  FreshScripts'
<1> USE ThirdPartyAssumption
<1>1. pc = "post" /\ UNCHANGED home /\ script' = ProcessFiles(What).scripts
  BY DEF Post, What, SafeStep
<1>2. BaseInv /\ script \in Scripts /\ SectionSet' = SectionSet
  BY <1>1, SafeSections DEF SafeStep
<1>3. place = cur /\ cur \in RepoNames
  BY <1>1, <1>2 DEF BaseInv, CommandInv, Working
<1>4. Owned(What) /\ What \in Whats
  <2>1. cur \in Names
    BY <1>2, <1>3, UrlOfOne DEF BaseInv, BaseType
  <2> QED BY <1>3, <2>1, WhatIs DEF Owned, Owner, Whats
<1> SUFFICES ASSUME NEW b \in Bases, Stale(script'[b]), Rightful(script[b])'
    PROVE  FALSE
  BY DEF FreshScripts, Stale
<1>5. PICK w : w = script'[b]
  OBVIOUS
<1>6. Stale(w) /\ Rightful(w)'
  BY <1>5 DEF Rightful
<1>7. w = script[b] /\ \A f \in Touched(What) \intersect Files : Base[f] # b
  <2>1. \/ w = None
        \/ \E f \in Made(What) : f \in Files /\ Base[f] = b /\ w = Wrapper(Owner(What), f)
        \/ w = script[b] /\ \A f \in Touched(What) \intersect Files : Base[f] # b
    BY <1>1, <1>2, <1>4, <1>5, AllFiles
  <2> QED BY <1>6, <2>1 DEF Stale, Wrapper
<1>8. w \in Wrappers /\ Base[w.file] = b
  BY <1>2, <1>6, <1>7 DEF Scripts, Stale, TruthInv
<1>9. Rightful(w)
  BY <1>1, <1>2, <1>6, SameNarrower, RightfulBefore
<1>10. What = "update" /\ w.file \in Made("update")
  BY <1>6, <1>7, <1>9 DEF FreshScripts, Due
<1>11. w.file \in Touched(What) \intersect Files
  BY <1>8, <1>10 DEF Touched, Wrappers
<1> QED BY <1>7, <1>8, <1>11

\* The scripts of one repository are made again: those of the others are still awaited.
LEMMA FreshRegenerate ==
  ASSUME SafeStep, TruthInv, Awaited, LowerNames, Regenerate
  PROVE  Awaited'
<1> USE ThirdPartyAssumption
<1>1. pc = "regenerate" /\ todo # <<>> /\ UNCHANGED home /\ todo' = Tail(todo)
  BY DEF Regenerate
<1>2. BaseInv /\ NamesInv /\ script \in Scripts /\ SectionSet' = SectionSet
  BY <1>1, SafeSections DEF SafeStep
<1>3. todo \in Seq(RepoNames)
  BY <1>1, <1>2 DEF BaseInv, TodoInv
<1>4. PICK n : n = Head(todo)
  OBVIOUS
<1>5. n \in RepoNames /\ n \in Names
  <2>1. n \in RepoNames
    BY <1>1, <1>3, <1>4
  <2> QED BY <1>2, <2>1, UrlOfOne DEF BaseInv, BaseType
<1>6. /\ [name |-> n, url |-> UrlOf(n)] \in SectionSet
      /\ \A s \in SectionSet : s.name = n => s.url = UrlOf(n)
  BY <1>1, <1>2, <1>5, ListedUrl, SectionUrl
<1>7. home[n].version > 0
  <2>1. PICK s : s = [name |-> n, url |-> UrlOf(n)]
    OBVIOUS
  <2>2. s \in SectionSet /\ s.name = n
    BY <1>6, <2>1
  <2> QED BY <2>2 DEF SafeStep, WholeInv, Whole
<1>8. script' = ProcessFiles("regenerate").scripts
  BY <1>4, <1>7 DEF Regenerate, SetRepoFails, SafeStep
<1>9. Owned("regenerate") /\ "regenerate" \in Whats
  BY <1>4, <1>5 DEF Owned, Owner, Whats
<1> SUFFICES ASSUME NEW b \in Bases, Stale(script'[b]), Rightful(script[b])'
    PROVE  \E i \in DOMAIN todo' : todo'[i] = script'[b].repo
  BY DEF Awaited, Stale
<1>10. PICK w : w = script'[b]
  OBVIOUS
<1>11. Stale(w) /\ Rightful(w)'
  BY <1>10 DEF Rightful
<1>12. w = script[b] /\ \A f \in Touched("regenerate") \intersect Files : Base[f] # b
  <2>1. \/ w = None
        \/ \E f \in Made("regenerate") : f \in Files /\ Base[f] = b /\ w = Wrapper(Owner("regenerate"), f)
        \/ w = script[b] /\ \A f \in Touched("regenerate") \intersect Files : Base[f] # b
    BY <1>2, <1>8, <1>9, <1>10, AllFiles
  <2> QED BY <1>11, <2>1 DEF Stale, Wrapper
<1>13. w \in Wrappers /\ Base[w.file] = b
  BY <1>2, <1>11, <1>12 DEF Scripts, Stale, TruthInv
<1>14. Rightful(w)
  BY <1>1, <1>2, <1>11, SameNarrower, RightfulBefore
<1>15. PICK i \in DOMAIN todo : todo[i] = w.repo
  BY <1>11, <1>12, <1>14 DEF Awaited
<1>16. w.repo # n
  <2> SUFFICES ASSUME w.repo = n PROVE FALSE
    OBVIOUS
  <2>1. PICK s \in SectionSet : s.name = w.repo /\ w.file \in ExportedBy(s.name, s.url)
    BY <1>14 DEF Rightful
  <2>2. s.name = n /\ s.url = UrlOf(n)
    BY <1>6, <2>1
  <2>3. w.file \in Exported(UrlOf(n), home[n].version, home[n].bundles)
    BY <2>1, <2>2 DEF ExportedBy
  <2>4. FilesOf(s.url, home[s.name].version, home[s.name].bundles) = disk[s.name]
    BY DEF SafeStep, DiskInv
  <2>5. w.file \in disk[n]
    BY <2>2, <2>3, <2>4, Exporting
  <2>6. w.file \in Touched("regenerate")
    BY <1>4, <2>3, <2>5 DEF Touched, Made, ExportedBy
  <2> QED BY <1>12, <1>13, <2>6 DEF Wrappers
<1>17. i # 1
  BY <1>1, <1>3, <1>4, <1>15, <1>16
<1>18. i - 1 \in DOMAIN Tail(todo) /\ Tail(todo)[i - 1] = todo[i]
  BY <1>1, <1>3, <1>15, <1>17
<1> QED BY <1>1, <1>10, <1>15, <1>18


\* Only an update that finds an old template makes scripts again; only at the end of that,
\* and with a new swupd, the template changes.
LEMMA TemplateKept ==
  ASSUME BaseInv, Next, ~Outdated, ~Regenerate, ~WriteTemplate, ~NewTemplate
  PROVE  template' = template /\ pc' # "regenerate"
<1>1. CASE \E c \in Commands : StartOne(c) \/ StartBundles(c) \/ StartRepos(c)
  BY <1>1 DEF StartOne, StartBundles, StartRepos
<1>2. CASE \/ AddRefused \/ AddSetUp \/ ImportCertificate \/ ConfirmCertificate \/ AddCore \/ AddRepo
  BY <1>2 DEF AddRefused, AddSetUp, ImportCertificate, ConfirmCertificate, AddCore, AddRepo, Finish
<1>3. CASE RemoveNotFound \/ RemoveLoad \/ RemoveIni \/ RewriteIni \/ RemoveDir \/ RemoveScripts
  BY <1>3 DEF RemoveNotFound, RemoveLoad, RemoveIni, RewriteIni, RemoveDir, RemoveScripts, Finish
<1>4. CASE \/ Select \/ SelectUnknown \/ NextRepo \/ SetUp \/ ProcessFails \/ AddBundleRefused
           \/ RemoveBundleRefused \/ UpToDate \/ PermissionsRefused \/ Post \/ CleanRepo \/ DiagnoseRepo
           \/ CheckUpdateRepo \/ ListRepo \/ InfoRepo \/ InfoBundle
  BY <1>4 DEF Select, SelectUnknown, NextRepo, SetUp, ProcessFails, AddBundleRefused,
              RemoveBundleRefused, UpToDate, PermissionsRefused, Post, CleanRepo, DiagnoseRepo,
              CheckUpdateRepo, ListRepo, InfoRepo, InfoBundle, Finish, Done
<1>5. CASE AddBundle \/ RemoveBundle \/ UpdateRepo \/ RepairRepo \/ End \/ Kill
  BY <1>5 DEF AddBundle, RemoveBundle, UpdateRepo, RepairRepo, End, Kill, Finish
<1>6. CASE \E u \in Urls : Publish(u)
  BY <1>6 DEF Publish, Idle, BaseInv, CommandInv
<1> QED BY <1>1, <1>2, <1>3, <1>4, <1>5, <1>6 DEF Next

\* The template is found to be old: every repository is to be worked on.
LEMMA FreshOutdated ==
  ASSUME SafeStep, LowerNames, Outdated
  PROVE  FreshInv'
<1>1. /\ pc = "next" /\ ~template /\ template' = template /\ UNCHANGED home
      /\ todo' = NamesInOrder
  BY DEF Outdated
<1>2. BaseInv /\ NamesInv /\ SectionSet' = SectionSet
  BY <1>1, SafeSections DEF SafeStep
<1>3. ASSUME NEW w, Rightful(w)
      PROVE  \E i \in DOMAIN todo' : todo'[i] = w.repo
  <2>1. PICK s \in SectionSet : s.name = w.repo
    BY <1>3 DEF Rightful
  <2>2. s.name \in RepoNames
    BY <1>1, <1>2, SectionUrl
  <2>3. PICK i \in DOMAIN Repos : Repos[i].name = s.name
    BY <2>2 DEF RepoNames
  <2> QED BY <1>1, <2>1, <2>3 DEF NamesInOrder
<1>4. Awaited'
  <2> SUFFICES ASSUME NEW b \in Bases, Rightful(script[b])'
      PROVE  \E i \in DOMAIN todo' : todo'[i] = script'[b].repo
    BY DEF Awaited
  <2>1. PICK w : w = script'[b]
    OBVIOUS
  <2>2. Rightful(w)'
    BY <2>1 DEF Rightful
  <2>3. Rightful(w)
    BY <1>1, <1>2, <2>2, SameNarrower, RightfulBefore
  <2> QED BY <1>3, <2>1, <2>3
<1> QED BY <1>1, <1>4 DEF FreshInv

\* The scripts of all repositories are made again, and the template says so.
LEMMA FreshTemplate ==
  ASSUME SafeStep, LowerNames, Awaited, WriteTemplate
  PROVE  FreshInv'
<1>1. /\ pc = "regenerate" /\ pc' = "idle" /\ todo = <<>> /\ UNCHANGED <<home, script>>
  BY DEF WriteTemplate, Finish
<1>2. SectionSet' = SectionSet
  BY <1>1, SafeSections
<1>3. ASSUME NEW b \in Bases, Stale(script'[b]), Rightful(script[b])'
      PROVE  FALSE
  <2>1. PICK w : w = script'[b]
    OBVIOUS
  <2>2. Rightful(w)'
    BY <1>3, <2>1 DEF Rightful
  <2>3. Rightful(w)
    BY <1>1, <1>2, <2>2, SameNarrower, RightfulBefore
  <2> QED BY <1>1, <1>3, <2>1, <2>3 DEF Awaited
<1>4. FreshScripts'
  BY <1>3 DEF FreshScripts, Stale
<1> QED BY <1>1, <1>4 DEF FreshInv

LEMMA FreshNext ==
  ASSUME RunsInv, ListInv', TruthInv, LowerNames, ExportsKept, CoreExportsNothing, [Next]_vars,
         OneKill'
  PROVE  FreshInv'
<1>1. BaseInv /\ ContentType /\ Budgets
  <2>1. BaseInv /\ ContentType
    BY DEF RunsInv, ListInv
  <2> QED BY <2>1, BudgetSteps
<1>2. faults' = FaultBudget
  BY DEF OneKill
<1>3. CASE Kill
  <2>1. Calm
    BY <1>1, <1>2, <1>3, ThirdPartyAssumption DEF Kill, Calm, OneKill, ContentType
  <2>2. template' = template /\ script' = script /\ pc' = "idle"
    BY <1>3 DEF Kill, Finish
  <2>3. template' => FreshScripts'
    BY <2>1, <2>2 DEF TruthInv, FreshScripts, Stale
  <2> QED BY <2>2, <2>3 DEF FreshInv
<1>4. CASE ~Kill
  <2>1. SafeStep
    BY <1>2, <1>4, SafeSteps
  <2>2. FreshInv
    BY <1>1, <1>4, <2>1 DEF SafeStep, Budgets, OneKill, TruthInv
  <2>3. CASE UNCHANGED vars
    <3>1. SectionSet' = SectionSet /\ UNCHANGED home
      BY <2>3 DEF SectionSet, SectionList
    <3>2. ASSUME NEW w, Rightful(w)' PROVE Rightful(w)
      BY <3>1, <3>2, SameNarrower, RightfulBefore
    <3>3. ASSUME NEW w, Due(w) PROVE Due(w)'
      BY <2>3, <3>3 DEF Due, What, Made
    <3>4. ASSUME FreshScripts PROVE FreshScripts'
      <4> SUFFICES ASSUME NEW b \in Bases, Stale(script'[b]), Rightful(script[b])'
          PROVE  Due(script[b])'
        BY DEF FreshScripts, Stale
      <4>1. PICK w : w = script'[b] /\ w = script[b]
        BY <2>3
      <4>2. Rightful(w)'
        BY <4>1 DEF Rightful
      <4>3. Due(w)'
        BY <3>2, <3>3, <3>4, <4>1, <4>2 DEF FreshScripts
      <4> QED BY <4>1, <4>3 DEF Due
    <3>5. ASSUME Awaited PROVE Awaited'
      <4> SUFFICES ASSUME NEW b \in Bases, Stale(script'[b]), Rightful(script[b])'
          PROVE  \E i \in DOMAIN todo' : todo'[i] = script'[b].repo
        BY DEF Awaited, Stale
      <4>1. PICK w : w = script'[b] /\ w = script[b]
        BY <2>3
      <4>2. Rightful(w)'
        BY <4>1 DEF Rightful
      <4> QED BY <2>3, <3>2, <3>5, <4>1, <4>2 DEF Awaited
    <3> QED BY <2>2, <2>3, <3>4, <3>5 DEF FreshInv
  <2>4. CASE Regenerate
    <3>1. pc = "regenerate" /\ template' = template
      BY <2>4 DEF Regenerate
    <3> QED BY <2>1, <2>2, <2>4, <3>1, FreshRegenerate DEF FreshInv
  <2>5. CASE WriteTemplate
    BY <2>1, <2>2, <2>5, FreshTemplate DEF FreshInv, WriteTemplate
  <2>6. CASE Outdated
    BY <2>1, <2>6, FreshOutdated
  <2>7. CASE NewTemplate
    BY <1>1, <2>7 DEF NewTemplate, FreshInv, Idle, BaseInv, CommandInv
  <2>8. CASE Next /\ ~Regenerate /\ ~WriteTemplate /\ ~Outdated /\ ~NewTemplate
    <3>1. template' = template /\ pc' # "regenerate"
      BY <1>1, <2>8, TemplateKept
    <3>2. ASSUME FreshScripts PROVE FreshScripts'
      <4>1. CASE \/ AddSetUp \/ AddCore \/ AddRepo \/ RemoveIni \/ RewriteIni \/ RemoveDir
                 \/ RemoveScripts \/ RemoveLoad \/ Others
        BY <2>1, <3>2, <4>1, FreshElse
      <4>2. CASE AddBundle \/ RemoveBundle \/ UpdateRepo \/ RepairRepo
        BY <2>1, <3>2, <4>2, FreshWork
      <4>3. CASE Post
        BY <2>1, <3>2, <4>3, FreshPost
      <4> QED BY <1>4, <2>8, <4>1, <4>2, <4>3 DEF Next, Others
    <3> QED BY <2>2, <3>1, <3>2 DEF FreshInv
  <2> QED BY <2>3, <2>4, <2>5, <2>6, <2>7, <2>8
<1> QED BY <1>3, <1>4

\* As long as nothing failed and nothing was killed, no script at all is stale when the
\* template says so: not even one that no exported binary has any more.
LEMMA CalmTemplate ==
  ASSUME RunsInv, TruthInv, LowerNames, [Next]_vars, Calm', template'
  PROVE  \A b \in Bases : ~Stale(script'[b])
<1>1. CalmStep
  BY CalmSteps
<1>2. BaseInv /\ script \in Scripts /\ Calm /\ ScriptsFine
  <2>1. BaseInv /\ ContentType
    BY DEF RunsInv, ListInv
  <2>2. Budgets
    BY <2>1, BudgetSteps
  <2> QED BY <1>1, <2>1, <2>2 DEF CalmStep, SafeStep, Budgets, Calm, ScriptInv
<1>3. ~NewTemplate
  BY DEF NewTemplate
<1>4. CASE template
  <2>1. NoneOlder
    BY <1>2, <1>3, ScriptsAfter
  <2> QED BY <1>2, <1>4, <2>1 DEF NoneOlder, TruthInv, Stale
<1>5. CASE ~template
  <2>1. Next
    BY <1>5 DEF vars, disks
  <2>2. WriteTemplate
    BY <1>2, <1>3, <1>5, <2>1, TemplateKept DEF Outdated, Regenerate, disks
  <2>3. pc = "regenerate" /\ todo = <<>> /\ UNCHANGED script
    BY <2>2 DEF WriteTemplate
  <2>4. Awaited
    BY <1>2, <2>3, ThirdPartyAssumption DEF Calm, OneKill, TruthInv, FreshInv
  <2>5. ASSUME NEW b \in Bases, Stale(script[b]) PROVE Rightful(script[b])
    BY <1>2, <2>3, <2>5 DEF ScriptsFine, Fine, Doomed, Stale
  <2> QED BY <2>3, <2>4, <2>5 DEF Awaited
<1> QED BY <1>4, <1>5

LEMMA TruthInit ==
  ASSUME Init
  PROVE  TruthInv
BY DEF Init, TruthInv, FreshInv, Calm

LEMMA TruthNext ==
  ASSUME RunsInv, RunsInv', TruthInv, LowerNames, ExportsKept, CoreExportsNothing, [Next]_vars
  PROVE  TruthInv'
<1>1. BaseInv /\ ContentType /\ script \in Scripts /\ ListInv'
  BY DEF RunsInv, ListInv
<1>2. ASSUME NEW b \in Bases, script'[b] # None PROVE Base[script'[b].file] = b
  <2>1. CASE NewTemplate
    <3>1. script'[b].file = script[b].file /\ script[b] # None
      BY <1>2, <2>1 DEF NewTemplate
    <3> QED BY <3>1 DEF TruthInv
  <2>2. CASE ~NewTemplate
    <3>1. NoneOlder
      BY <1>1, <2>2, ScriptsAfter
    <3> QED BY <1>2, <3>1 DEF NoneOlder, TruthInv
  <2> QED BY <2>1, <2>2
<1>3. ASSUME pc' = "add_repo" PROVE home'[cur'].bundles \subseteq {Core}
  <2>1. CASE UNCHANGED vars
    BY <1>3, <2>1 DEF TruthInv
  <2>2. CASE Next
    <3>1. AddCore
      BY <1>1, <1>3, <2>2, ArrivalSteps DEF Arrivals
    <3>2. cur \in Names /\ place = cur /\ cur' = cur
      BY <1>1, <3>1, ThirdPartyAssumption DEF AddCore, BaseInv, CommandInv, Adding
    <3>3. DOMAIN home = Names
      BY <1>1 DEF BaseInv, BaseType
    <3> QED BY <3>1, <3>2, <3>3 DEF AddCore, RemoveRepoDirectory, Content, NoContent
  <2> QED BY <2>1, <2>2
<1>4. OneKill' => FreshInv'
  BY <1>1, FreshNext
<1>5. Calm' /\ template' => \A b \in Bases : ~Stale(script'[b])
  BY CalmTemplate
<1> QED BY <1>2, <1>3, <1>4, <1>5 DEF TruthInv, Stale

\* The invariant, without a bound on repositories, bundles or users: as long as at most one
\* command is killed, the template is never ahead of the scripts.
THEOREM TruthInvariance == LowerNames /\ ExportsKept /\ CoreExportsNothing => (Spec => []TruthInv)
<1> SUFFICES ASSUME LowerNames, ExportsKept, CoreExportsNothing PROVE Spec => []TruthInv
  OBVIOUS
<1>1. Init => TruthInv
  BY TruthInit
<1>2. RunsInv /\ RunsInv' /\ TruthInv /\ [Next]_vars => TruthInv'
  BY TruthNext
<1>3. Spec => []RunsInv
  BY RunsInvariance
<1> QED BY <1>1, <1>2, <1>3, PTL DEF Spec

\* TemplateTellsTruth: between commands the template on disk speaks for the script of every
\* binary that a listed repository exports, as long as no call failed and one command at
\* most was killed (3rd_party_repos.c, third_party_update_wrapper_script and
\* regenerate_all_wrapper_scripts), for all catalogs in which os-core exports nothing.
THEOREM TemplateIsTrue == LowerNames /\ CoreExportsNothing => (Spec => []TemplateTellsTruth)
<1> SUFFICES ASSUME LowerNames, CoreExportsNothing PROVE Spec => []TemplateTellsTruth
  OBVIOUS
<1>1. CASE ExportsKept
  <2>1. RunsInv /\ TruthInv => TemplateTellsTruth
    <3> SUFFICES ASSUME RunsInv, TruthInv, Idle, template, OneKill, NEW b \in Bases, script[b] # None,
                        NEW n, n = script[b].repo, n \in RepoNames,
                        script[b].file \in Exported(UrlOf(n), home[n].version, home[n].bundles)
        PROVE  script[b].fresh
      BY DEF TemplateTellsTruth, OneKill
    <3>1. BaseInv /\ NamesInv /\ pc = "idle"
      BY DEF RunsInv, ListInv, BaseInv, CommandInv, Idle
    <3>2. PICK s \in SectionSet : s.name = n /\ s.url = UrlOf(n)
      BY <3>1, ListedUrl
    <3>3. Rightful(script[b])
      BY <3>2 DEF Rightful, ExportedBy
    <3> QED BY <3>1, <3>3 DEF TruthInv, FreshInv, FreshScripts, Stale, Due
  <2>2. Spec => []RunsInv
    BY <1>1, RunsInvariance
  <2>3. Spec => []TruthInv
    BY <1>1, TruthInvariance
  <2> QED BY <2>1, <2>2, <2>3, PTL
<1>2. CASE ~ExportsKept
  <2>1. TemplateTellsTruth
    BY <1>2 DEF TemplateTellsTruth
  <2> QED BY <2>1, PTL
<1> QED BY <1>1, <1>2
=============================================================================

--------------------------- MODULE UpdateRunProofs ---------------------------
(***************************************************************************)
(* What an update makes of a system, for any releases that keep to what    *)
(* ReleaseAssumption asks of them, any files and options, and any number   *)
(* of failures, kills, publications and mirror commands; and that a run    *)
(* which none of these disturbs ends with the newest release.              *)
(***************************************************************************)
EXTENDS UpdateRun, FiniteSetTheorems, WellFoundedInduction, TLAPS

USE DEF world, disk, cached, setup, versions, loading, installing, ending, vars

----------------------------------------------------------------------------
(* The inductive invariant.                                                *)

\* The releases are those of the beginning.
CatalogInv ==
  /\ Len(catalog) \in Nat /\ 1 \in Versions /\ Versions = 1..Len(catalog)
  /\ \A v \in Versions : IsRelease(catalog[v], Len(catalog))
  /\ ReleasesRise(catalog) /\ ChangesTold(catalog)

\* What TypeOK does not tell of the variables.
Commands == [add : {"version", "content"}] \union [remove : {"version", "content"}]
TypeInv ==
  /\ "main" \in certs /\ mirror \in Seq(Commands)
  /\ sys \in [Files -> Int] /\ sys["release"] \in {Altered} \union Versions
  /\ current \in Nat /\ updates \in Seq(Files)

\* From the comparison of the versions to the installation, the run goes from the version
\* the system has to a newer one.
Going == {"retrieve", "verify", "packs", "list", "download", "stage", "install"}
GoingInv ==
  pc \in Going =>
    /\ current \in Versions /\ server \in Versions /\ current < server
    /\ \/ sys["release"] = current
       \/ pc = "install" /\ sys["release"] = HashOf(server, "release")

\* Once there is a list, a file that is not on it is as the new version has it, but for
\* suspects; and os-release is no exception.
ListInv ==
  pc \in {"download", "stage", "install"} =>
    \A f \in Files : \/ f \in Updated
                     \/ sys[f] = HashOf(server, f)
                     \/ f \in suspects /\ f # "release"

\* What is to be installed has been staged and verified.
StagedInv ==
  pc \in {"stage", "install"} =>
    \A f \in Updated : HashOf(server, f) # Absent => staged[f] = Copy(f, TRUE)

\* The files that were put in place are those of the new version.
InstalledInv ==
  /\ pc \in {"download", "stage"} => next = 1
  /\ pc = "install" =>
       /\ Updated \subseteq suspects
       /\ ~errors => \A i \in DOMAIN updates :
                       i < next => sys[updates[i]] = HashOf(server, updates[i])

\* But for suspects, the disk has the files of a version, and that one's os-release.
ContentInv ==
  \E v \in Versions :
    /\ sys["release"] \in {Altered, HashOf(v, "release")}
    /\ \A f \in Files \ suspects : sys[f] = HashOf(v, f)

UInv == /\ CatalogInv /\ TypeOK /\ TypeInv /\ GoingInv
        /\ ListInv /\ StagedInv /\ InstalledInv /\ ContentInv

----------------------------------------------------------------------------
(* Releases and versions.                                                  *)

\* A set of version numbers that is not empty has a least one and a greatest one.
LEMMA LeastVersion ==
  ASSUME NEW T \in SUBSET Nat, T # {}
  PROVE  \E x \in T : \A y \in T : x <= y
<1> DEFINE R == {ss \in Nat \X Nat : ss[1] < ss[2]}
<1>1. IsWellFoundedOn(R, Nat)
  BY NatLessThanWellFounded DEF OpToRel
<1> HIDE DEF R
<1>2. PICK x \in T : \A y \in T : ~(<<y, x>> \in R)
  BY <1>1, WFMin
<1>3. \A y \in T : x <= y
  <2> TAKE y \in T
  <2>1. ~(<<y, x>> \in R)
    BY <1>2
  <2>2. ~(y < x)
    BY <2>1 DEF R
  <2> QED BY <2>2
<1> QED BY <1>3

LEMMA GreatestVersion ==
  ASSUME NEW n \in Nat, NEW T \in SUBSET (1..n), T # {}
  PROVE  \E x \in T : \A y \in T : y <= x
<1> DEFINE D == {n - y : y \in T}
<1>0. \A y \in T : n - y \in Nat
  OBVIOUS
<1>1. D \in SUBSET Nat /\ D # {}
  BY <1>0
<1>2. PICK d \in D : \A e \in D : d <= e
  BY <1>1, LeastVersion
<1>3. PICK x \in T : d = n - x
  OBVIOUS
<1>4. ASSUME NEW y \in T PROVE y <= x
  <2>1. n - y \in D
    OBVIOUS
  <2>2. d <= n - y
    BY <1>2, <2>1
  <2> QED BY <1>3, <2>2
<1> QED BY <1>4

\* get_version finds a version that the server has, or none.
LEMMA FoundVersion ==
  ASSUME CatalogInv, published \in [Servers -> Versions],
         NEW s \in Servers, NEW format, NEW after \in Int
  PROVE  GetVersion(s, format, after) \in {-1} \union Versions
<1> DEFINE all == Listed(s, format)
           newer == {v \in all : v > after}
<1>1. published[s] \in 1..Len(catalog) /\ Len(catalog) \in Nat
  BY DEF CatalogInv
<1>2. all \in SUBSET (1..published[s]) /\ newer \in SUBSET all
  BY DEF Listed
<1>3. all \subseteq Versions
  BY <1>1, <1>2 DEF CatalogInv
<1>4. GetVersion(s, format, after) =
        IF all = {} THEN -1
        ELSE IF after < 0 \/ newer = {} THEN Greatest(all) ELSE Least(newer)
  BY DEF GetVersion
<1> HIDE DEF all, newer
<1>5. ASSUME all # {} PROVE Greatest(all) \in all
  <2>1. published[s] \in Nat
    BY <1>1
  <2>2. \E x \in all : \A y \in all : y <= x
    BY <1>2, <1>5, <2>1, GreatestVersion
  <2> QED BY <2>2 DEF Greatest
<1>6. newer # {} => Least(newer) \in newer
  <2>1. newer \in SUBSET Nat
    BY <1>1, <1>2
  <2> QED BY <2>1, LeastVersion DEF Least
<1> QED BY <1>2, <1>3, <1>4, <1>5, <1>6

\* check_versions answers with a version that there is.
LEMMA CheckedVersion ==
  ASSUME CatalogInv, TypeOK, TypeInv, NEW i \in BOOLEAN, CheckVersions(i).ret = "ok"
  PROVE  CheckVersions(i).server \in 0..Len(catalog)
<1> DEFINE found == GetVersion(urls.version, fmt, IF i THEN sys["release"] ELSE -1)
<1>1. /\ urls.version \in Servers /\ sys["release"] \in Int /\ opts.requested \in Nat
      /\ published \in [Servers -> Versions]
  BY UpdateAssumption DEF TypeOK, TypeInv, CatalogInv, Altered
<1>2. found \in {-1} \union Versions
  BY <1>1, FoundVersion
<1>3. CheckVersions(i) =
        IF sys["release"] < 0 THEN [ret |-> "current_version_unknown", server |-> found]
        ELSE IF found < 0 THEN [ret |-> "server_connection", server |-> found]
        ELSE IF opts.requested = 0 THEN [ret |-> "ok", server |-> found]
        ELSE IF opts.requested < sys["release"] THEN [ret |-> "invalid_option", server |-> found]
        ELSE [ret |-> "ok", server |-> IF opts.requested < found THEN opts.requested ELSE found]
  BY DEF CheckVersions
<1> HIDE DEF found
<1>4. found >= 0 /\ CheckVersions(i).server \in {found, opts.requested}
      /\ CheckVersions(i).server <= found
  BY <1>1, <1>2, <1>3 DEF CatalogInv
<1> QED BY <1>1, <1>2, <1>4 DEF CatalogInv

LEMMA Hashes ==
  ASSUME CatalogInv
  PROVE  /\ \A v \in Versions, f \in Files : HashOf(v, f) \in Nat /\ ChangeOf(v, f) \in Nat
         /\ \A v \in Versions : HashOf(v, "release") \in Versions
BY DEF CatalogInv, IsRelease, HashOf, ChangeOf

----------------------------------------------------------------------------
(* The beginning.                                                          *)

LEMMA InitInv ==
  ASSUME Init
  PROVE  UInv
<1>1. PICK w \in Worlds :
        /\ catalog = w.catalog /\ certs = w.certs
        /\ published = w.published /\ etc = w.etc /\ mirror = <<>>
        /\ sys = [f \in Files |-> IF f \in w.altered THEN Altered ELSE HashOf(1, f)]
        /\ suspects = w.altered
        /\ statev = 1
        /\ cache = [k \in Kinds |-> [v \in Versions |-> "none"]]
        /\ staged = [f \in Files |-> [hash |-> Absent, good |-> FALSE]]
        /\ deltas = {} /\ packs = {}
        /\ pc = "idle" /\ opts = (CHOOSE o \in Options : TRUE) /\ fmt = HashOf(1, "format")
        /\ urls = DefaultUrls(w.etc) /\ cert = "main"
        /\ current = 0 /\ server = 0 /\ load = 1 /\ retried = FALSE
        /\ updates = <<>> /\ next = 1 /\ errors = FALSE
        /\ again = FALSE /\ triggers = FALSE /\ ret = "none" /\ calm = FALSE
  BY DEF Init
<1>2. /\ w.catalog \in Seq(Range(w.catalog)) /\ w.catalog # <<>>
      /\ \A v \in DOMAIN w.catalog : IsRelease(w.catalog[v], Len(w.catalog))
      /\ w.published \in [Servers -> DOMAIN w.catalog]
      /\ w.certs \subseteq Certificates /\ "main" \in w.certs
      /\ w.etc \subseteq {"version", "content"} /\ w.altered \subseteq Files
      /\ ReleasesRise(w.catalog) /\ ChangesTold(w.catalog)
  BY UpdateAssumption, ReleaseAssumption
<1>3. CatalogInv
  BY <1>1, <1>2 DEF CatalogInv, Versions
<1>4. TypeOK
  <2>1. /\ published \in [Servers -> Versions] /\ DOMAIN sys = Files /\ DOMAIN staged = Files
        /\ cache \in [Kinds -> [Versions -> {"none", "good", "bad"}]]
    BY <1>1, <1>2 DEF Versions
  <2>2. urls \in [version : Servers, content : Servers]
    BY <1>1 DEF DefaultUrls, Servers
  <2>3. opts \in Options
    BY <1>1, UpdateAssumption
  <2>4. load \in DOMAIN Loads
    BY <1>1 DEF Loads
  <2>5. updates = <<>> /\ Updated = {}
    BY <1>1 DEF Updated
  <2>6. /\ certs \subseteq Certificates /\ etc \subseteq {"version", "content"}
        /\ suspects \subseteq Files /\ statev \in {Unreadable} \union Versions /\ cert \in certs
        /\ packs \subseteq Versions \X Versions
    BY <1>1, <1>2, <1>3 DEF CatalogInv
  <2>7. /\ pc \in ControlPoints /\ retried \in BOOLEAN /\ errors \in BOOLEAN
        /\ again \in BOOLEAN /\ triggers \in BOOLEAN /\ calm \in BOOLEAN
    BY <1>1 DEF ControlPoints
  <2>8. /\ current <= Len(catalog) /\ server \in 0..Len(catalog)
        /\ next \in 1..Len(updates) + 1
    BY <1>1, <1>3 DEF CatalogInv
  <2> QED BY <2>1, <2>2, <2>3, <2>4, <2>5, <2>6, <2>7, <2>8 DEF TypeOK
<1>5. TypeInv
  <2>1. \A f \in Files : sys[f] \in {Altered, HashOf(1, f)}
    BY <1>1
  <2>2. sys \in [Files -> Int] /\ sys["release"] \in {Altered} \union Versions
    BY <1>1, <1>3, <2>1, Hashes, UpdateAssumption DEF CatalogInv, Altered
  <2> QED BY <1>1, <1>2, <2>2 DEF TypeInv
<1>6. ContentInv
  BY <1>1, <1>3, UpdateAssumption DEF ContentInv, CatalogInv
<1> QED BY <1>1, <1>3, <1>4, <1>5, <1>6
        DEF UInv, GoingInv, Going, ListInv, StagedInv, InstalledInv

----------------------------------------------------------------------------
(* The types are kept.                                                     *)

LEMMA ReleasesFixed ==
  ASSUME [Next]_vars
  PROVE  catalog' = catalog /\ certs' = certs
BY DEF Next, RunStep, Start, HandleMirrorIfStale, UnsetMirror, GoToVersion, Retrieve, VerifyMom,
       VerifyBundle, DownloadPacks, CreateUpdateList, DownloadFullfiles, StageFiles, InstallFile,
       Record, PostUpdateScripts, Finish, Crash, Publish, MirrorStart, MirrorStep, TriggersDone

LEMMA CatalogStep ==
  ASSUME CatalogInv, [Next]_vars
  PROVE  /\ CatalogInv' /\ Versions' = Versions
         /\ \A v, f : HashOf(v, f)' = HashOf(v, f)
<1>1. catalog' = catalog
  BY ReleasesFixed
<1> QED BY <1>1 DEF CatalogInv, Versions, HashOf

\* The servers and the mirror configuration.
LEMMA WorldStep ==
  ASSUME UInv, [Next]_vars
  PROVE  /\ published' \in [Servers -> Versions] /\ etc' \subseteq {"version", "content"}
         /\ mirror' \in Seq(Commands)
<1>1. /\ published \in [Servers -> Versions] /\ etc \subseteq {"version", "content"}
      /\ mirror \in Seq(Commands) /\ Len(catalog) \in Nat /\ Versions = 1..Len(catalog)
  BY DEF UInv, TypeOK, TypeInv, CatalogInv
<1>2. CASE Publish
  <2>1. PICK s \in Servers :
          /\ published[s] < (IF s = "mirror" THEN published["upstream"] ELSE Len(catalog))
          /\ published' = [published EXCEPT ![s] = @ + 1]
    BY <1>2 DEF Publish
  <2>2. published["upstream"] \in Versions /\ published[s] \in Versions
    BY <1>1 DEF Servers
  <2>3. published[s] + 1 \in Versions
    BY <1>1, <2>1, <2>2
  <2> QED BY <1>1, <1>2, <2>1, <2>3 DEF Publish
<1>3. CASE MirrorStart
  <2>1. /\ [add |-> "version"] \in Commands /\ [add |-> "content"] \in Commands
        /\ [remove |-> "version"] \in Commands /\ [remove |-> "content"] \in Commands
    BY DEF Commands
  <2>2. SetMirrorUrl \in Seq(Commands) /\ UnsetMirrorUrl \in Seq(Commands)
    BY <2>1 DEF SetMirrorUrl, UnsetMirrorUrl
  <2> QED BY <1>1, <1>3, <2>2 DEF MirrorStart
<1>4. CASE MirrorStep
  <2>1. Head(mirror) \in Commands /\ Tail(mirror) \in Seq(Commands)
    BY <1>1, <1>4 DEF MirrorStep
  <2>2. etc' \subseteq {"version", "content"}
    <3> DEFINE h == Head(mirror)
    <3>1. etc' = IF "add" \in DOMAIN h THEN etc \union {h.add} ELSE etc \ {h.remove}
      BY <1>4 DEF MirrorStep
    <3>2. "add" \in DOMAIN h => h.add \in {"version", "content"}
      BY <2>1 DEF Commands
    <3> QED BY <1>1, <3>1, <3>2
  <2> QED BY <1>1, <1>4, <2>1, <2>2 DEF MirrorStep
<1>5. CASE UnsetMirror
  BY <1>1, <1>5 DEF UnsetMirror
<1>6. CASE ~(Publish \/ MirrorStart \/ MirrorStep \/ UnsetMirror)
  BY <1>1, <1>6
     DEF Next, RunStep, Start, HandleMirrorIfStale, GoToVersion, Retrieve, VerifyMom,
         VerifyBundle, DownloadPacks, CreateUpdateList, DownloadFullfiles, StageFiles,
         InstallFile, Record, PostUpdateScripts, Finish, Crash, TriggersDone
<1> QED BY <1>2, <1>3, <1>4, <1>5, <1>6

\* The options, the addresses and the certificate of the run.
LEMMA SetupStep ==
  ASSUME UInv, [Next]_vars
  PROVE  /\ opts' \in Options /\ urls' \in [version : Servers, content : Servers]
         /\ cert' \in certs
<1>1. /\ opts \in Options /\ urls \in [version : Servers, content : Servers]
      /\ cert \in certs /\ "main" \in certs /\ certs \subseteq Certificates
  BY DEF UInv, TypeOK, TypeInv
<1>2. \A S : DefaultUrls(S) \in [version : Servers, content : Servers]
  BY DEF DefaultUrls, Servers
<1>3. CASE Start
  BY <1>1, <1>2, <1>3 DEF Start, Globals
<1>4. CASE UnsetMirror
  BY <1>1, <1>2, <1>4 DEF UnsetMirror
<1>5. CASE VerifyMom
  <2>1. \A v, m, s, c : c \in certs => SignatureVerify(v, m, s, c).cert \in certs
    BY <1>1 DEF SignatureVerify, UseAltCert, Other, Certificates
  <2>2. \A s, d : MomSignatureVerify(s, d).cert \in certs
    BY <1>1, <2>1 DEF MomSignatureVerify
  <2> QED BY <1>1, <1>5, <2>2 DEF VerifyMom
<1>6. CASE Finish
  BY <1>1, <1>2, <1>6 DEF Finish, Globals, Gone
<1>7. CASE Crash
  BY <1>1, <1>7 DEF Crash, Gone
<1>8. CASE ~(Start \/ UnsetMirror \/ VerifyMom \/ Finish \/ Crash)
  BY <1>1, <1>8
     DEF Next, RunStep, HandleMirrorIfStale, GoToVersion, Retrieve, VerifyBundle, DownloadPacks,
         CreateUpdateList, DownloadFullfiles, StageFiles, InstallFile, Record,
         PostUpdateScripts, Publish, MirrorStart, MirrorStep, TriggersDone
<1> QED BY <1>3, <1>4, <1>5, <1>6, <1>7, <1>8

\* Where the run is.
LEMMA PointStep ==
  ASSUME UInv, [Next]_vars
  PROVE  pc' \in ControlPoints
<1>1. pc \in ControlPoints
  BY DEF UInv, TypeOK
<1>2. CASE Start \/ HandleMirrorIfStale \/ UnsetMirror \/ GoToVersion
  BY <1>1, <1>2 DEF Start, Globals, HandleMirrorIfStale, UnsetMirror, GoToVersion, Stop,
                    ControlPoints
<1>3. CASE Retrieve \/ VerifyMom \/ VerifyBundle
  BY <1>1, <1>3 DEF Retrieve, VerifyMom, VerifyBundle, NextLoad, TryAgain, NotLoaded, Stop,
                    ControlPoints
<1>4. CASE DownloadPacks \/ CreateUpdateList \/ DownloadFullfiles
  BY <1>1, <1>4 DEF DownloadPacks, CreateUpdateList, DownloadFullfiles, Stop, ControlPoints
<1>5. CASE StageFiles \/ InstallFile \/ Record \/ PostUpdateScripts
  BY <1>1, <1>5 DEF StageFiles, InstallFile, Record, PostUpdateScripts, Stop, ControlPoints
<1>6. CASE Finish \/ Crash
  BY <1>1, <1>6 DEF Finish, Crash, Globals, Gone, ControlPoints
<1>7. CASE Publish \/ MirrorStart \/ MirrorStep \/ TriggersDone \/ UNCHANGED vars
  BY <1>1, <1>7 DEF Publish, MirrorStart, MirrorStep, TriggersDone
<1> QED BY <1>2, <1>3, <1>4, <1>5, <1>6, <1>7 DEF Next, RunStep

\* A list in the order of the names has what it is made of, and nothing else.
LEMMA OrderedList ==
  ASSUME NEW S \in SUBSET Files, NEW s \in InOrder(S)
  PROVE  s \in Seq(Files) /\ {s[i] : i \in DOMAIN s} = S
<1> DEFINE n == Cardinality(S)
<1>1. n \in Nat
  <2>1. IsFiniteSet(DOMAIN FileOrder)
    BY FS_Interval, UpdateAssumption
  <2>2. Files = Range(FileOrder)
    BY DEF Files, Range
  <2>3. FileOrder \in Surjection(DOMAIN FileOrder, Files)
    BY <2>2, UpdateAssumption DEF Files, Surjection
  <2>4. IsFiniteSet(Files)
    BY <2>1, <2>3, FS_Surjection
  <2> QED BY <2>4, FS_Subset, FS_CardinalityType
<1>2. /\ s \in [1..n -> S]
      /\ \A f \in S : \E i \in 1..n : s[i] = f
  BY DEF InOrder, Bijection, Injection, Surjection
<1> HIDE DEF n
<1>3. s \in Seq(Files) /\ DOMAIN s = 1..n
  BY <1>1, <1>2
<1> QED BY <1>2, <1>3

\* The list of files to install and where the installation is in it.
LEMMA UpdatesStep ==
  ASSUME UInv, [Next]_vars
  PROVE  /\ updates' \in Seq(Files) /\ Updated' \subseteq Files
         /\ next' \in 1..Len(updates') + 1
<1>1. updates \in Seq(Files) /\ Len(updates) \in Nat /\ next \in 1..Len(updates) + 1
  BY DEF UInv, TypeOK, TypeInv
<1>2. CASE CreateUpdateList
  <2>1. updates' \in InOrder({f \in Files : InUpdateList(f)}) /\ next' = 1
    BY <1>2 DEF CreateUpdateList
  <2>2. updates' \in Seq(Files) /\ Len(updates') \in Nat
    BY <2>1, OrderedList
  <2> QED BY <2>1, <2>2 DEF Updated
<1>3. CASE InstallFile
  <2>1. updates' = updates /\ next' = next + 1 /\ next <= Len(updates)
    BY <1>3 DEF InstallFile
  <2> QED BY <1>1, <2>1 DEF Updated
<1>4. CASE Gone
  BY <1>4 DEF Gone, Updated
<1>5. CASE updates' = updates /\ next' = next
  BY <1>1, <1>5 DEF Updated
<1>6. ASSUME ~CreateUpdateList, ~InstallFile, ~Gone
      PROVE  updates' = updates /\ next' = next
  BY <1>6
     DEF Next, RunStep, Start, HandleMirrorIfStale, UnsetMirror, GoToVersion, Retrieve,
         VerifyMom, VerifyBundle, DownloadPacks, DownloadFullfiles, StageFiles, Record,
         PostUpdateScripts, Publish, MirrorStart, MirrorStep, TriggersDone, Finish, Crash
<1> QED BY <1>2, <1>3, <1>4, <1>5, <1>6

\* Which manifest is being loaded.
LEMMA LoadStep ==
  ASSUME UInv, [Next]_vars
  PROVE  load' \in DOMAIN Loads'
<1>1. load \in 1..4
  BY DEF UInv, TypeOK, Loads
<1>2. DOMAIN Loads' = 1..4 /\ Len(Loads) = 4
  BY DEF Loads
<1>3. load' \in {1, load} \/ NextLoad
  BY DEF Next, RunStep, Start, HandleMirrorIfStale, UnsetMirror, GoToVersion, Retrieve,
         VerifyMom, VerifyBundle, TryAgain, DownloadPacks, CreateUpdateList, DownloadFullfiles,
         StageFiles, InstallFile, Record, PostUpdateScripts, Finish, Crash, Gone, Globals,
         Publish, MirrorStart, MirrorStep, TriggersDone
<1>4. ASSUME NextLoad PROVE load' \in 1..4
  <2>1. load' = load \/ (load # 4 /\ load' = load + 1)
    BY <1>2, <1>4 DEF NextLoad
  <2> QED BY <1>1, <2>1
<1>5. load' \in 1..4
  BY <1>1, <1>3, <1>4
<1> QED BY <1>2, <1>5

\* What is said of a run, or of the command.
LEMMA FlagsStep ==
  ASSUME UInv, [Next]_vars
  PROVE  /\ retried' \in BOOLEAN /\ again' \in BOOLEAN /\ errors' \in BOOLEAN
         /\ triggers' \in BOOLEAN /\ calm' \in BOOLEAN
<1>1. /\ retried \in BOOLEAN /\ again \in BOOLEAN /\ errors \in BOOLEAN
      /\ triggers \in BOOLEAN /\ calm \in BOOLEAN
  BY DEF UInv, TypeOK
<1>2. CASE Start \/ HandleMirrorIfStale \/ UnsetMirror \/ GoToVersion
  BY <1>1, <1>2 DEF Start, Globals, HandleMirrorIfStale, UnsetMirror, GoToVersion, Trouble,
                    NoTrouble
<1>3. CASE Retrieve
  BY <1>1, <1>3 DEF Retrieve, Trouble, NoTrouble
<1>4. CASE VerifyMom
  <2>1. /\ calm' \in BOOLEAN
        /\ again' = again /\ triggers' = triggers /\ errors' = errors
    BY <1>1, <1>4 DEF VerifyMom, Trouble, NoTrouble
  <2>2. NextLoad \/ TryAgain
    BY <1>4 DEF VerifyMom
  <2> QED BY <1>1, <2>1, <2>2 DEF NextLoad, TryAgain
<1>5. CASE VerifyBundle
  BY <1>1, <1>5 DEF VerifyBundle, NextLoad, TryAgain
<1>6. CASE DownloadPacks \/ CreateUpdateList \/ DownloadFullfiles
  BY <1>1, <1>6 DEF DownloadPacks, CreateUpdateList, DownloadFullfiles, Trouble, NoTrouble
<1>7. CASE StageFiles \/ InstallFile \/ Record
  BY <1>1, <1>7 DEF StageFiles, InstallFile, Record, Trouble, NoTrouble
<1>8. CASE PostUpdateScripts
  <2>1. \A b \in BOOLEAN : TriggersLeft(b) \in BOOLEAN
    BY UpdateAssumption DEF TriggersLeft
  <2>2. \A b \in BOOLEAN : UpdateOnceMore(b) \in BOOLEAN
    BY DEF UpdateOnceMore
  <2>3. \E b \in BOOLEAN : again' = UpdateOnceMore(b) /\ triggers' = TriggersLeft(UpdateOnceMore(b))
    BY <1>8 DEF PostUpdateScripts
  <2>4. calm' \in BOOLEAN /\ errors' = errors /\ retried' = retried
    BY <1>1, <1>8 DEF PostUpdateScripts, Trouble, NoTrouble
  <2> QED BY <2>1, <2>2, <2>3, <2>4, <1>1
<1>9. CASE Finish
  BY <1>1, <1>9 DEF Finish, Gone, Globals
<1>10. CASE Crash
  BY <1>1, <1>10 DEF Crash, Gone, Trouble
<1>11. CASE Publish \/ MirrorStart \/ MirrorStep \/ TriggersDone \/ UNCHANGED vars
  BY <1>1, <1>11 DEF Publish, MirrorStart, MirrorStep, TriggersDone, Trouble
<1> QED BY <1>2, <1>3, <1>4, <1>5, <1>6, <1>7, <1>8, <1>9, <1>10, <1>11 DEF Next, RunStep

----------------------------------------------------------------------------
(* The versions and the disk.                                              *)

\* A file is put in place with the hash the new version has for it, or not at all.
LEMMA FileInstalled ==
  ASSUME UInv, InstallFile
  PROVE  LET f == updates[next]
         IN /\ next \in DOMAIN updates /\ f \in Files /\ f \in Updated
            /\ pc = "install" /\ pc' = "install"
            /\ \/ sys' = [sys EXCEPT ![f] = HashOf(server, f)] /\ errors' = errors
               \/ sys' = sys /\ errors' = TRUE
<1> DEFINE f == updates[next]
<1>1. next \in DOMAIN updates /\ f \in Files /\ f \in Updated
  <2>1. updates \in Seq(Files) /\ next \in 1..Len(updates) + 1 /\ Len(updates) \in Nat
    BY DEF UInv, TypeOK, TypeInv
  <2>2. next <= Len(updates)
    BY DEF InstallFile
  <2> QED BY <2>1, <2>2 DEF Updated
<1>2. pc = "install" /\ pc' = "install"
  BY DEF InstallFile
<1>3. HashOf(server, f) # Absent => staged[f] = [hash |-> HashOf(server, f), good |-> TRUE]
  BY <1>1, <1>2 DEF UInv, StagedInv, Copy
<1>4. \/ /\ sys' = [sys EXCEPT ![f] = IF HashOf(server, f) = Absent THEN Absent
                                      ELSE IF staged[f].good THEN staged[f].hash
                                      ELSE Altered]
         /\ errors' = errors
      \/ sys' = sys /\ errors' = TRUE
  BY DEF InstallFile
<1>5. (IF HashOf(server, f) = Absent THEN Absent
       ELSE IF staged[f].good THEN staged[f].hash ELSE Altered) = HashOf(server, f)
  BY <1>3
<1> QED BY <1>1, <1>2, <1>4, <1>5

LEMMA DiskFixed ==
  ASSUME [Next]_vars
  PROVE  /\ ~InstallFile => sys' = sys
         /\ ~StageFiles /\ ~Record => suspects' = suspects
         /\ ~Record /\ ~Crash => statev' = statev
BY DEF Next, RunStep, Start, HandleMirrorIfStale, UnsetMirror, GoToVersion, Retrieve, VerifyMom,
       VerifyBundle, DownloadPacks, CreateUpdateList, DownloadFullfiles, StageFiles, InstallFile,
       Record, PostUpdateScripts, Finish, Crash, Publish, MirrorStart, MirrorStep, TriggersDone

\* A run that goes on is one that went on already, between the same versions, or that has
\* just compared them.
LEMMA GoesOn ==
  ASSUME [Next]_vars, pc' \in Going
  PROVE  \/ /\ pc \in Going /\ current' = current /\ server' = server
            /\ pc' = "install" \/ pc # "install"
         \/ /\ GoToVersion /\ pc' = "retrieve" /\ current' = sys["release"]
            /\ \E i \in {opts.incremental} :
                 /\ CheckVersions(i).ret = "ok" /\ CheckVersions(i).server > sys["release"]
                 /\ server' = CheckVersions(i).server
<1>1. CASE Start \/ HandleMirrorIfStale \/ UnsetMirror
  BY <1>1 DEF Start, Globals, HandleMirrorIfStale, UnsetMirror, Going
<1>2. CASE GoToVersion
  BY <1>2 DEF GoToVersion, Stop, Going
<1>3. CASE Retrieve
  BY <1>3 DEF Retrieve, NotLoaded, Stop, Going
<1>4. CASE VerifyMom \/ VerifyBundle
  BY <1>4 DEF VerifyMom, VerifyBundle, NextLoad, TryAgain, NotLoaded, Stop, Going
<1>5. CASE DownloadPacks \/ CreateUpdateList \/ DownloadFullfiles
  BY <1>5 DEF DownloadPacks, CreateUpdateList, DownloadFullfiles, Stop, Going
<1>6. CASE StageFiles \/ InstallFile \/ Record \/ PostUpdateScripts
  BY <1>6 DEF StageFiles, InstallFile, Record, PostUpdateScripts, Stop, Going
<1>7. CASE Finish \/ Crash
  BY <1>7 DEF Finish, Crash, Globals, Gone, Going
<1>8. CASE Publish \/ MirrorStart \/ MirrorStep \/ TriggersDone \/ UNCHANGED vars
  BY <1>8 DEF Publish, MirrorStart, MirrorStep, TriggersDone
<1> QED BY <1>1, <1>2, <1>3, <1>4, <1>5, <1>6, <1>7, <1>8 DEF Next, RunStep

\* check_versions lets a run go on only from a version there is to a newer one there is.
LEMMA NewerVersion ==
  ASSUME UInv, CheckVersions(opts.incremental).ret = "ok",
         CheckVersions(opts.incremental).server > sys["release"]
  PROVE  /\ sys["release"] \in Versions
         /\ CheckVersions(opts.incremental).server \in Versions
<1>1. /\ opts.incremental \in BOOLEAN /\ sys["release"] \in {-1} \union Versions
      /\ Len(catalog) \in Nat /\ Versions = 1..Len(catalog)
  BY UpdateAssumption DEF UInv, TypeOK, TypeInv, CatalogInv, Altered
<1>2. CheckVersions(opts.incremental).server \in 0..Len(catalog)
  BY <1>1, CheckedVersion DEF UInv
<1>3. sys["release"] >= 0
  BY <1>1 DEF CheckVersions
<1> QED BY <1>1, <1>2, <1>3

LEMMA GoingStep ==
  ASSUME UInv, [Next]_vars
  PROVE  /\ GoingInv'
         /\ current' \in Nat /\ current' <= Len(catalog)' /\ server' \in 0..Len(catalog)'
<1>1. /\ catalog' = catalog /\ Versions' = Versions /\ Versions = 1..Len(catalog)
      /\ Len(catalog) \in Nat /\ \A v, f : HashOf(v, f)' = HashOf(v, f)
  BY CatalogStep, ReleasesFixed DEF UInv, CatalogInv
<1>2. current \in Nat /\ current <= Len(catalog) /\ server \in 0..Len(catalog)
  BY DEF UInv, TypeOK, TypeInv
<1>3. ASSUME pc' \in Going
      PROVE  /\ current' \in Versions /\ server' \in Versions /\ current' < server'
             /\ \/ sys'["release"] = current'
                \/ pc' = "install" /\ sys'["release"] = HashOf(server', "release")
  <2>1. CASE pc \in Going /\ current' = current /\ server' = server
    <3>1. /\ current \in Versions /\ server \in Versions /\ current < server
          /\ \/ sys["release"] = current
             \/ pc = "install" /\ sys["release"] = HashOf(server, "release")
      BY <2>1 DEF UInv, GoingInv
    <3>2. CASE InstallFile
      <4>1. sys \in [Files -> Int] /\ "release" \in Files
        BY UpdateAssumption DEF UInv, TypeInv
      <4>2. /\ pc' = "install"
            /\ sys'["release"] \in {sys["release"], HashOf(server, "release")}
        BY <3>2, <4>1, FileInstalled
      <4> QED BY <2>1, <3>1, <4>2
    <3>3. CASE ~InstallFile
      BY <1>3, <2>1, <3>1, <3>3, DiskFixed, GoesOn DEF GoToVersion
    <3> QED BY <3>2, <3>3
  <2>2. CASE ~(pc \in Going /\ current' = current /\ server' = server)
    <3>1. /\ GoToVersion /\ current' = sys["release"]
          /\ CheckVersions(opts.incremental).ret = "ok"
          /\ CheckVersions(opts.incremental).server > sys["release"]
          /\ server' = CheckVersions(opts.incremental).server
      BY <1>3, <2>2, GoesOn
    <3>2. sys' = sys
      BY <3>1, DiskFixed DEF GoToVersion, InstallFile
    <3>3. current' \in Versions /\ server' \in Versions
      BY <3>1, NewerVersion
    <3> QED BY <3>1, <3>2, <3>3
  <2> QED BY <2>1, <2>2
<1>4. GoingInv'
  BY <1>1, <1>3 DEF GoingInv, HashOf
<1>5. current' \in Nat /\ current' <= Len(catalog) /\ server' \in 0..Len(catalog)
  <2>1. CASE pc' \in Going
    BY <1>1, <1>3, <2>1
  <2>2. ASSUME pc' \notin Going
        PROVE  <<current', server'>> = <<current, server>> \/ <<current', server'>> = <<0, 0>>
    BY <2>2
       DEF Next, RunStep, Start, HandleMirrorIfStale, UnsetMirror, GoToVersion, Stop, Retrieve,
           VerifyMom, VerifyBundle, DownloadPacks, CreateUpdateList, DownloadFullfiles,
           StageFiles, InstallFile, Record, PostUpdateScripts, Finish, Crash, Gone, Globals,
           Publish, MirrorStart, MirrorStep, TriggersDone, Going
  <2> QED BY <1>1, <1>2, <2>1, <2>2
<1> QED BY <1>1, <1>4, <1>5

\* The manifest that is being loaded is one of a release.
LEMMA LoadedManifest ==
  ASSUME UInv, pc \in {"retrieve", "verify"}
  PROVE  Kind \in Kinds /\ Version \in Versions
<1>1. current \in Versions /\ server \in Versions
  BY DEF UInv, GoingInv, Going
<1>2. load \in 1..4
  BY DEF UInv, TypeOK, Loads
<1> QED BY <1>1, <1>2 DEF Kind, Version, Loads, Kinds

LEMMA CacheStep ==
  ASSUME UInv, [Next]_vars
  PROVE  cache' \in [Kinds -> [Versions -> {"none", "good", "bad"}]]
<1> DEFINE Caches == [Kinds -> [Versions -> {"none", "good", "bad"}]]
<1>1. cache \in Caches
  BY DEF UInv, TypeOK
<1>2. \A k \in Kinds, v \in Versions, x \in {"none", "good", "bad"} :
        [cache EXCEPT ![k][v] = x] \in Caches
  BY <1>1
<1>3. ASSUME Kind \in Kinds, Version \in Versions, TryAgain PROVE cache' \in Caches
  <2>1. CASE cache' = cache
    BY <1>1, <2>1
  <2>2. CASE cache' # cache
    <3>1. cache' = [k \in Kinds |-> IF k = Kind \/ (Kind = "mom" /\ k = "sig")
                                    THEN [cache[k] EXCEPT ![Version] = "none"] ELSE cache[k]]
      BY <1>3, <2>2 DEF TryAgain
    <3>2. \A k \in Kinds : /\ cache[k] \in [Versions -> {"none", "good", "bad"}]
                           /\ [cache[k] EXCEPT ![Version] = "none"]
                                \in [Versions -> {"none", "good", "bad"}]
      BY <1>1, <1>3
    <3> QED BY <3>1, <3>2
  <2> QED BY <2>1, <2>2
<1>4. CASE Retrieve
  <2>1. Kind \in Kinds /\ Version \in Versions
    BY <1>4, LoadedManifest DEF Retrieve
  <2>2. \/ cache' = cache
        \/ \E x \in {"good", "bad"} : cache' = [cache EXCEPT ![Kind][Version] = x]
    BY <1>4 DEF Retrieve
  <2> QED BY <1>1, <1>2, <2>1, <2>2
<1>5. CASE VerifyMom
  <2>1. Kind \in Kinds /\ Version \in Versions /\ "sig" \in Kinds
    BY <1>5, LoadedManifest DEF VerifyMom, Kinds
  <2>2. CASE TryAgain
    BY <1>3, <2>1, <2>2
  <2>3. CASE ~TryAgain
    <3>1. \E x \in {"good", "bad", "none", cache["sig"][Version]} :
            cache' = [cache EXCEPT !["sig"][Version] = x]
      BY <1>5, <2>3 DEF VerifyMom
    <3>2. cache["sig"][Version] \in {"none", "good", "bad"}
      BY <1>1, <2>1
    <3> QED BY <1>2, <2>1, <3>1, <3>2
  <2> QED BY <2>2, <2>3
<1>6. CASE VerifyBundle
  <2>1. Kind \in Kinds /\ Version \in Versions
    BY <1>6, LoadedManifest DEF VerifyBundle
  <2>2. cache' = cache \/ TryAgain
    BY <1>6 DEF VerifyBundle
  <2> QED BY <1>1, <1>3, <2>1, <2>2
<1>7. CASE Finish
  <2>1. cache' = cache \/ CleanCachedir
    BY <1>7 DEF Finish
  <2>2. ASSUME CleanCachedir PROVE cache' \in Caches
    <3> DEFINE keep(v) == /\ v \in {sys["release"], sys["release"] - 1}
                          /\ cache["mom"][sys["release"]] # "none"
    <3>1. cache' = [k \in Kinds |-> [v \in Versions |->
                     IF keep(v) THEN cache[k][v] ELSE "none"]]
      BY <2>2 DEF CleanCachedir
    <3> HIDE DEF keep
    <3>2. \A k \in Kinds, v \in Versions : cache[k][v] \in {"none", "good", "bad"}
      BY <1>1
    <3> QED BY <3>1, <3>2
  <2> QED BY <1>1, <2>1, <2>2
<1>8. CASE Crash
  <2>1. cache' # cache => /\ pc = "retrieve"
                          /\ cache' = [cache EXCEPT ![Kind][Version] = "bad"]
    BY <1>8 DEF Crash
  <2>2. pc = "retrieve" => Kind \in Kinds /\ Version \in Versions
    BY LoadedManifest
  <2> QED BY <1>1, <1>2, <2>1, <2>2
<1>9. ASSUME ~Retrieve, ~VerifyMom, ~VerifyBundle, ~Finish, ~Crash PROVE cache' = cache
  BY <1>9
     DEF Next, RunStep, Start, HandleMirrorIfStale, UnsetMirror, GoToVersion, DownloadPacks,
         CreateUpdateList, DownloadFullfiles, StageFiles, InstallFile, Record,
         PostUpdateScripts, Publish, MirrorStart, MirrorStep, TriggersDone
<1> QED BY <1>1, <1>4, <1>5, <1>6, <1>7, <1>8, <1>9

\* What is staged is staged of the files, and packs are named by two releases.
LEMMA DownloadStep ==
  ASSUME UInv, [Next]_vars
  PROVE  DOMAIN staged' = Files /\ packs' \subseteq Versions \X Versions
<1>1. DOMAIN staged = Files /\ packs \subseteq Versions \X Versions
  BY DEF UInv, TypeOK
<1>2. CASE DownloadPacks
  <2>1. current \in Versions /\ server \in Versions
    BY <1>2 DEF DownloadPacks, UInv, GoingInv, Going
  <2>2. packs' = packs \/ packs' = packs \union {<<current, server>>}
    BY <1>2 DEF DownloadPacks
  <2>3. staged' = staged \/ \E S, good : staged' = Stage(S, good)
    BY <1>2 DEF DownloadPacks
  <2> QED BY <1>1, <2>1, <2>2, <2>3 DEF Stage
<1>3. CASE CreateUpdateList
  BY <1>1, <1>3 DEF CreateUpdateList
<1>4. CASE DownloadFullfiles
  <2>1. \E S, good : staged' = Stage(S, good)
    BY <1>4 DEF DownloadFullfiles
  <2> QED BY <1>1, <1>4, <2>1 DEF DownloadFullfiles, Stage
<1>5. CASE Finish
  BY <1>1, <1>5 DEF Finish, CleanCachedir
<1>6. CASE Crash
  <2>1. staged' = staged \/ \E S, good : staged' = Stage(S, good)
    BY <1>6 DEF Crash
  <2> QED BY <1>1, <1>6, <2>1 DEF Crash, Stage
<1>7. ASSUME ~DownloadPacks, ~CreateUpdateList, ~DownloadFullfiles, ~Finish, ~Crash
      PROVE  staged' = staged /\ packs' = packs
  BY <1>7
     DEF Next, RunStep, Start, HandleMirrorIfStale, UnsetMirror, GoToVersion, Retrieve,
         VerifyMom, VerifyBundle, StageFiles, InstallFile, Record, PostUpdateScripts, Publish,
         MirrorStart, MirrorStep, TriggersDone
<1> QED BY <1>1, <1>2, <1>3, <1>4, <1>5, <1>6, <1>7

\* The disk.
LEMMA DiskStep ==
  ASSUME UInv, [Next]_vars
  PROVE  /\ sys' \in [Files -> Int] /\ sys'["release"] \in {Altered} \union Versions
         /\ suspects' \subseteq Files /\ statev' \in {Unreadable} \union Versions
<1>1. /\ sys \in [Files -> Int] /\ sys["release"] \in {Altered} \union Versions
      /\ suspects \subseteq Files /\ statev \in {Unreadable} \union Versions
      /\ Updated \subseteq Files
      /\ "release" \in Files
  BY UpdateAssumption DEF UInv, TypeOK, TypeInv
<1>2. sys' \in [Files -> Int] /\ sys'["release"] \in {Altered} \union Versions
  <2>1. CASE InstallFile
    <3> DEFINE f == updates[next]
    <3>1. pc = "install" /\ f \in Files
      BY <2>1, FileInstalled
    <3>2. sys' = [sys EXCEPT ![f] = HashOf(server, f)] \/ sys' = sys
      BY <2>1, FileInstalled
    <3>3. server \in Versions
      BY <3>1 DEF UInv, GoingInv, Going
    <3>4. HashOf(server, f) \in Int /\ HashOf(server, "release") \in Versions
      BY <3>1, <3>3, Hashes DEF UInv
    <3> HIDE DEF f
    <3> QED BY <1>1, <3>1, <3>2, <3>4
  <2>2. CASE ~InstallFile
    BY <1>1, <2>2, DiskFixed
  <2> QED BY <2>1, <2>2
<1>3. suspects' \subseteq Files /\ statev' \in {Unreadable} \union Versions
  <2>1. CASE StageFiles
    BY <1>1, <2>1 DEF StageFiles
  <2>2. CASE Record
    <3>1. server \in Versions
      BY <2>2 DEF Record, UInv, GoingInv, Going
    <3>2. /\ statev' \in {statev, Unreadable, server}
          /\ suspects' \in {suspects, suspects \ Updated}
      BY <2>2 DEF Record
    <3> QED BY <1>1, <3>1, <3>2
  <2>3. CASE Crash
    <3>1. /\ suspects' = suspects
          /\ statev' = statev \/ (pc = "install" /\ statev' \in {Unreadable, server})
      BY <2>3 DEF Crash
    <3>2. pc = "install" => server \in Versions
      BY DEF UInv, GoingInv, Going
    <3> QED BY <1>1, <3>1, <3>2
  <2>4. CASE ~StageFiles /\ ~Record /\ ~Crash
    BY <1>1, <2>4, DiskFixed
  <2> QED BY <2>1, <2>2, <2>3, <2>4
<1> QED BY <1>2, <1>3

LEMMA TypeStep ==
  ASSUME UInv, [Next]_vars
  PROVE  TypeOK' /\ TypeInv'
<1>1. /\ catalog' = catalog /\ certs' = certs /\ Versions' = Versions
      /\ certs \subseteq Certificates /\ "main" \in certs
  BY ReleasesFixed, CatalogStep DEF UInv, TypeOK, TypeInv
<1>2. DOMAIN sys' = Files
  BY DiskStep
<1>3. TypeOK'
  BY <1>1, <1>2, WorldStep, SetupStep, PointStep, UpdatesStep, LoadStep, FlagsStep, GoingStep,
     CacheStep, DownloadStep, DiskStep
     DEF TypeOK
<1>4. TypeInv'
  BY <1>1, WorldStep, DiskStep, GoingStep, UpdatesStep DEF TypeInv
<1> QED BY <1>3, <1>4

----------------------------------------------------------------------------
(* The list, what is staged and what is in place.                          *)

Listing == {"download", "stage", "install"}

\* A run that has a list has just made it, or had it already.
LEMMA ListKept ==
  ASSUME UInv, [Next]_vars, pc' \in Listing
  PROVE  \/ CreateUpdateList
         \/ /\ pc \in Listing /\ updates' = updates /\ Updated' = Updated
            /\ server' = server /\ server \in Versions
            /\ \A f : HashOf(server, f)' = HashOf(server, f)
            /\ suspects \subseteq suspects'
            /\ StageFiles \/ suspects' = suspects
            /\ pc' \in {"stage", "install"} =>
                 \/ DownloadFullfiles /\ pc = "download"
                 \/ pc \in {"stage", "install"} /\ staged' = staged
            /\ pc' = "install" => pc = "install" \/ StageFiles
            /\ pc' \in {"download", "stage"} => pc \in {"download", "stage"}
            /\ ~InstallFile => next' = next /\ errors' = errors /\ sys' = sys
<1>1. \/ CreateUpdateList
      \/ /\ pc \in Listing /\ updates' = updates /\ server' = server
         /\ StageFiles \/ suspects' = suspects
         /\ pc' \in {"stage", "install"} =>
              \/ DownloadFullfiles /\ pc = "download"
              \/ pc \in {"stage", "install"} /\ staged' = staged
         /\ pc' = "install" => pc = "install" \/ StageFiles
         /\ pc' \in {"download", "stage"} => pc \in {"download", "stage"}
         /\ ~InstallFile => next' = next /\ errors' = errors
  <2>1. CASE Start \/ HandleMirrorIfStale \/ UnsetMirror \/ GoToVersion
    BY <2>1 DEF Start, Globals, HandleMirrorIfStale, UnsetMirror, GoToVersion, Stop, Listing
  <2>2. CASE Retrieve
    BY <2>2 DEF Retrieve, NotLoaded, Stop, Listing
  <2>3. CASE VerifyMom \/ VerifyBundle
    BY <2>3 DEF VerifyMom, VerifyBundle, NextLoad, TryAgain, NotLoaded, Stop, Listing
  <2>4. CASE DownloadPacks \/ CreateUpdateList \/ DownloadFullfiles
    BY <2>4 DEF DownloadPacks, DownloadFullfiles, Stop, Listing
  <2>5. CASE StageFiles \/ InstallFile \/ Record \/ PostUpdateScripts
    BY <2>5 DEF StageFiles, InstallFile, Record, PostUpdateScripts, Stop, Listing
  <2>6. CASE Finish \/ Crash
    BY <2>6 DEF Finish, Crash, Globals, Gone, Listing
  <2>7. CASE Publish \/ MirrorStart \/ MirrorStep \/ TriggersDone \/ UNCHANGED vars
    BY <2>7 DEF Publish, MirrorStart, MirrorStep, TriggersDone, Listing
  <2> QED BY <2>1, <2>2, <2>3, <2>4, <2>5, <2>6, <2>7 DEF Next, RunStep
<1>2. pc \in Listing => server \in Versions
  BY DEF UInv, GoingInv, Going, Listing
<1>3. server' = server => \A f : HashOf(server, f)' = HashOf(server, f)
  BY ReleasesFixed DEF HashOf
<1>4. updates' = updates => Updated' = Updated
  BY DEF Updated
<1>5. StageFiles => suspects \subseteq suspects'
  BY DEF StageFiles
<1>6. ~InstallFile => sys' = sys
  BY DiskFixed
<1> QED BY <1>1, <1>2, <1>3, <1>4, <1>5, <1>6

\* A file that create_update_list leaves out is as the new version has it.
LEMMA LeftOut ==
  ASSUME UInv, pc = "list", NEW f \in Files, ~InUpdateList(f)
  PROVE  sys[f] = HashOf(server, f) \/ (f \in suspects /\ f # "release")
<1>1. PICK v \in Versions :
        /\ sys["release"] \in {Altered, HashOf(v, "release")}
        /\ \A g \in Files \ suspects : sys[g] = HashOf(v, g)
  BY DEF UInv, ContentInv
<1>2. /\ current \in Versions /\ server \in Versions /\ current < server
      /\ sys["release"] = current /\ Versions = 1..Len(catalog) /\ Len(catalog) \in Nat
  BY DEF UInv, GoingInv, Going, CatalogInv
<1>3. HashOf(v, "release") = current
  BY <1>1, <1>2 DEF Altered
<1>4. \/ HashOf(v, f) = HashOf(server, f)
      \/ HashOf(server, f) = Absent /\ HashOf(current, f) # Absent
      \/ /\ HashOf(server, f) # Absent
         /\ HashOf(current, f) = Absent \/ ChangeOf(server, f) > ChangeOf(current, f)
  <2>1. ChangesTold(catalog) /\ Versions = DOMAIN catalog
    BY DEF UInv, CatalogInv, Versions
  <2> QED BY <1>2, <1>3, <2>1 DEF ChangesTold, HashOf, ChangeOf
<1>5. HashOf(v, f) = HashOf(server, f) \/ sys[f] = HashOf(server, f)
  BY <1>4 DEF InUpdateList, InstalledAndVerified
<1> QED BY <1>1, <1>2, <1>3, <1>5

LEMMA ListStep ==
  ASSUME UInv, [Next]_vars
  PROVE  ListInv'
<1> SUFFICES ASSUME pc' \in Listing, NEW f \in Files, ~(f \in Updated')
             PROVE  \/ sys'[f] = HashOf(server, f)'
                    \/ f \in suspects' /\ f # "release"
  BY DEF ListInv, Listing
<1>1. CASE CreateUpdateList
  <2>1. updates' \in InOrder({g \in Files : InUpdateList(g)})
    BY <1>1 DEF CreateUpdateList
  <2>2. Updated' = {g \in Files : InUpdateList(g)}
    BY <2>1, OrderedList DEF Updated
  <2>3. sys[f] = HashOf(server, f) \/ (f \in suspects /\ f # "release")
    BY <1>1, <2>2, LeftOut DEF CreateUpdateList
  <2> QED BY <1>1, <2>3 DEF CreateUpdateList, HashOf
<1>2. CASE ~CreateUpdateList
  <2>1. /\ pc \in Listing /\ Updated' = Updated /\ suspects \subseteq suspects'
        /\ \A g : HashOf(server, g)' = HashOf(server, g)
    BY <1>2, ListKept
  <2>2. sys[f] = HashOf(server, f) \/ (f \in suspects /\ f # "release")
    BY <2>1 DEF UInv, ListInv, Listing
  <2>3. sys'[f] = sys[f]
    <3>1. CASE InstallFile
      <4>1. updates[next] \in Updated /\ sys \in [Files -> Int]
        BY <3>1, FileInstalled DEF UInv, TypeInv
      <4>2. f # updates[next]
        BY <2>1, <4>1
      <4> QED BY <3>1, <4>1, <4>2, FileInstalled
    <3>2. CASE ~InstallFile
      BY <3>2, DiskFixed
    <3> QED BY <3>1, <3>2
  <2> QED BY <2>1, <2>2, <2>3
<1> QED BY <1>1, <1>2

LEMMA StagedStep ==
  ASSUME UInv, [Next]_vars
  PROVE  StagedInv'
<1> SUFFICES ASSUME pc' \in {"stage", "install"}, NEW f \in Updated', HashOf(server, f)' # Absent
             PROVE  staged'[f] = [hash |-> HashOf(server, f)', good |-> TRUE]
  BY DEF StagedInv, Copy
<1>1. ~CreateUpdateList
  BY DEF CreateUpdateList
<1>2. /\ Updated' = Updated /\ f \in Updated
      /\ \A g : HashOf(server, g)' = HashOf(server, g)
      /\ \/ DownloadFullfiles /\ pc = "download"
         \/ pc \in {"stage", "install"} /\ staged' = staged
  BY <1>1, ListKept DEF Listing
<1>3. f \in Files
  BY <1>2 DEF UInv, TypeOK
<1>4. CASE DownloadFullfiles
  <2>1. staged' = Stage(Wanted, TRUE)
    BY <1>4 DEF DownloadFullfiles, Stop
  <2>2. staged'[f] = IF f \in Wanted THEN Copy(f, TRUE) ELSE staged[f]
    BY <1>3, <2>1 DEF Stage
  <2>3. f \notin Wanted => staged[f] = Copy(f, TRUE)
    BY <1>2, <1>3 DEF Wanted, FilesOf, GetCachedFullfile
  <2> QED BY <1>2, <2>2, <2>3 DEF Copy
<1>5. CASE ~DownloadFullfiles
  BY <1>2, <1>5 DEF UInv, StagedInv, Copy
<1> QED BY <1>4, <1>5

LEMMA InstalledStep ==
  ASSUME UInv, [Next]_vars
  PROVE  InstalledInv'
<1>1. ASSUME pc' \in {"download", "stage"} PROVE next' = 1
  <2>1. CASE CreateUpdateList
    BY <2>1 DEF CreateUpdateList
  <2>2. CASE ~CreateUpdateList
    <3>1. pc \in {"download", "stage"} /\ ~InstallFile
      BY <1>1, <2>2, ListKept DEF Listing, InstallFile
    <3> QED BY <1>1, <2>2, <3>1, ListKept DEF Listing, UInv, InstalledInv
  <2> QED BY <2>1, <2>2
<1>2. ASSUME pc' = "install"
      PROVE  /\ Updated' \subseteq suspects'
             /\ ~errors' => \A i \in DOMAIN updates' :
                              i < next' => sys'[updates'[i]] = HashOf(server, updates[i])'
  <2>1. /\ ~CreateUpdateList /\ pc \in Listing
        /\ updates' = updates /\ Updated' = Updated
        /\ \A g : HashOf(server, g)' = HashOf(server, g)
        /\ suspects \subseteq suspects' /\ (pc = "install" \/ StageFiles)
        /\ ~InstallFile => next' = next /\ errors' = errors /\ sys' = sys
    BY <1>2, ListKept DEF Listing, CreateUpdateList
  <2>2. CASE StageFiles
    <3>1. suspects' = suspects \union Updated /\ ~InstallFile /\ pc = "stage"
      BY <1>2, <2>2 DEF StageFiles, Stop, InstallFile
    <3>2. next' = 1 /\ DOMAIN updates' = 1..Len(updates')
      BY <2>1, <3>1 DEF UInv, InstalledInv, TypeInv
    <3> QED BY <2>1, <3>1, <3>2
  <2>3. CASE pc = "install" /\ ~InstallFile
    BY <2>1, <2>3 DEF UInv, InstalledInv
  <2>4. CASE pc = "install" /\ InstallFile
    <3>1. Updated \subseteq suspects
      BY <2>4 DEF UInv, InstalledInv
    <3>2. ASSUME ~errors', NEW i \in DOMAIN updates, i < next'
          PROVE  sys'[updates[i]] = HashOf(server, updates[i])
      <4>1. /\ next \in DOMAIN updates /\ updates[next] \in Files
            /\ sys' = [sys EXCEPT ![updates[next]] = HashOf(server, updates[next])]
            /\ ~errors
        <5>1. /\ next \in DOMAIN updates /\ updates[next] \in Files
              /\ \/ /\ sys' = [sys EXCEPT ![updates[next]] = HashOf(server, updates[next])]
                    /\ errors' = errors
                 \/ errors' = TRUE
          BY <2>4, FileInstalled
        <5> QED BY <3>2, <5>1
      <4>2. /\ next' = next + 1 /\ updates \in Seq(Files) /\ DOMAIN updates = 1..Len(updates)
            /\ next \in Nat /\ sys \in [Files -> Int] /\ updates[i] \in Files
        BY <2>4, <3>2 DEF InstallFile, UInv, TypeOK, TypeInv
      <4>3. CASE updates[i] = updates[next]
        BY <4>1, <4>2, <4>3
      <4>4. CASE updates[i] # updates[next]
        <5>1. i < next
          BY <3>2, <4>2, <4>4
        <5>2. sys[updates[i]] = HashOf(server, updates[i])
          BY <2>4, <3>2, <4>1, <5>1 DEF UInv, InstalledInv
        <5> QED BY <4>1, <4>2, <4>4, <5>2
      <4> QED BY <4>3, <4>4
    <3> QED BY <2>1, <3>1, <3>2
  <2> QED BY <2>1, <2>2, <2>3, <2>4
<1> QED BY <1>1, <1>2 DEF InstalledInv

\* Whatever happens, the disk has the files of a version, but for suspects.
LEMMA ContentStep ==
  ASSUME UInv, [Next]_vars
  PROVE  ContentInv'
<1>1. PICK v \in Versions :
        /\ sys["release"] \in {Altered, HashOf(v, "release")}
        /\ \A f \in Files \ suspects : sys[f] = HashOf(v, f)
  BY DEF UInv, ContentInv
<1>2. /\ Versions' = Versions /\ \A w, f : HashOf(w, f)' = HashOf(w, f)
      /\ sys \in [Files -> Int] /\ "release" \in Files
  BY CatalogStep, UpdateAssumption DEF UInv, TypeInv
<1>3. ASSUME NEW w \in Versions,
             sys'["release"] \in {Altered, HashOf(w, "release")},
             \A f \in Files \ suspects' : sys'[f] = HashOf(w, f)
      PROVE  ContentInv'
  <2>1. \A f : HashOf(w, f)' = HashOf(w, f)
    BY <1>2
  <2> QED BY <1>2, <1>3, <2>1 DEF ContentInv
<1>4. CASE InstallFile
  <2> DEFINE f == updates[next]
  <2>1. /\ pc = "install" /\ f \in Files /\ f \in Updated
        /\ \/ sys' = [sys EXCEPT ![f] = HashOf(server, f)]
           \/ sys' = sys
    BY <1>4, FileInstalled
  <2>2. suspects' = suspects /\ Updated \subseteq suspects /\ server \in Versions
    BY <1>4, <2>1 DEF InstallFile, UInv, InstalledInv, GoingInv, Going
  <2> HIDE DEF f
  <2>3. CASE sys'["release"] = sys["release"]
    BY <1>1, <1>2, <1>3, <2>1, <2>2, <2>3
  <2>4. CASE sys'["release"] # sys["release"]
    <3>1. f = "release" /\ sys' = [sys EXCEPT ![f] = HashOf(server, f)]
      BY <1>2, <2>1, <2>4
    <3>2. \A g \in Files \ suspects : sys[g] = HashOf(server, g)
      BY <2>1, <2>2 DEF UInv, ListInv
    <3>3. \A g \in Files \ suspects' : sys'[g] = HashOf(server, g)
      BY <1>2, <2>1, <2>2, <3>1, <3>2
    <3>4. sys'["release"] = HashOf(server, "release")
      BY <1>2, <3>1
    <3> QED BY <1>3, <2>2, <3>3, <3>4
  <2> QED BY <2>3, <2>4
<1>5. CASE StageFiles
  <2>1. sys' = sys /\ suspects \subseteq suspects'
    BY <1>5 DEF StageFiles
  <2> QED BY <1>1, <1>3, <2>1
<1>6. CASE Record
  <2>1. sys' = sys
    BY <1>6 DEF Record
  <2>2. CASE suspects' = suspects
    BY <1>1, <1>3, <2>1, <2>2
  <2>3. CASE suspects' # suspects
    <3>1. /\ pc = "install" /\ ~errors /\ next > Len(updates) /\ suspects' = suspects \ Updated
          /\ server \in Versions
      BY <1>6, <2>3 DEF Record, UInv, GoingInv, Going
    <3>2. \A f \in Updated : sys[f] = HashOf(server, f)
      <4>1. \A i \in DOMAIN updates : i < next => sys[updates[i]] = HashOf(server, updates[i])
        BY <3>1 DEF UInv, InstalledInv
      <4>2. \A i \in DOMAIN updates : i < next
        BY <3>1 DEF UInv, TypeInv, TypeOK
      <4> QED BY <4>1, <4>2 DEF Updated
    <3>3. \A f \in Files \ suspects' : sys[f] = HashOf(server, f)
      BY <3>1, <3>2 DEF UInv, ListInv
    <3>4. sys["release"] = HashOf(server, "release")
      BY <1>2, <3>1, <3>2 DEF UInv, ListInv
    <3> QED BY <1>3, <2>1, <3>1, <3>3, <3>4
  <2> QED BY <2>2, <2>3
<1>7. CASE ~InstallFile /\ ~StageFiles /\ ~Record
  BY <1>1, <1>3, <1>7, DiskFixed
<1> QED BY <1>4, <1>5, <1>6, <1>7

----------------------------------------------------------------------------
(* The theorems.                                                           *)

THEOREM Invariance == Spec => []UInv
<1>1. UInv /\ [Next]_vars => UInv'
  BY CatalogStep, TypeStep, GoingStep, ListStep, StagedStep, InstalledStep, ContentStep DEF UInv
<1> QED BY <1>1, InitInv, PTL DEF Spec

\* Every variable of an update keeps its type, the cache, the list of files and the
\* position in it among them (cmds/update.c execute_update_extra).
THEOREM TypeCorrect == Spec => []TypeOK
<1>1. UInv => TypeOK
  BY DEF UInv
<1> QED BY <1>1, Invariance, PTL

\* Once a run is over and says that all is well, only files of an installation that was cut
\* short are not those of the version the system is at, however many runs were killed, and
\* whatever the servers and the cache brought (cmds/update.c create_update_list).
THEOREM SuspectsOnly == Spec => []OnlySuspectsLeft
<1>1. UInv => OnlySuspectsLeft
  BY DEF UInv, ContentInv, OnlySuspectsLeft
<1> QED BY <1>1, Invariance, PTL

\* What an update puts in place is what the version it announced says, and it never goes
\* back to an older version (cmds/update.c check_versions, rename_all_files_to_final).
THEOREM Announced == Spec => OnlyAnnounced
<1>1. ASSUME UInv, [Next]_vars, NEW f \in Files, sys'[f] # sys[f]
      PROVE  sys'[f] = HashOf(server, f) /\ sys'["release"] >= sys["release"]
  <2>1. InstallFile
    BY <1>1, DiskFixed
  <2> DEFINE g == updates[next]
  <2>2. /\ pc = "install" /\ g \in Files
        /\ sys' = [sys EXCEPT ![g] = HashOf(server, g)]
    BY <1>1, <2>1, FileInstalled
  <2>3. /\ sys \in [Files -> Int] /\ "release" \in Files
        /\ current \in Versions /\ server \in Versions /\ current < server
        /\ sys["release"] \in {current, HashOf(server, "release")}
    BY <1>1, <2>2, UpdateAssumption DEF UInv, TypeInv, GoingInv, Going
  <2> HIDE DEF g
  <2>4. f = g
    BY <1>1, <2>2, <2>3
  <2>5. HashOf(server, "release") >= current /\ HashOf(server, "release") \in Int
    <3>1. ReleasesRise(catalog) /\ Versions = DOMAIN catalog
      BY <1>1 DEF UInv, CatalogInv, Versions
    <3>2. HashOf(server, "release") \in Nat
      BY <1>1, <2>3, Hashes DEF UInv
    <3> QED BY <2>3, <3>1, <3>2 DEF ReleasesRise, HashOf
  <2>6. sys'["release"] \in {sys["release"], HashOf(server, "release")}
    BY <2>2, <2>3
  <2>7. current \in Nat
    BY <1>1, <2>3 DEF UInv, CatalogInv
  <2> QED BY <2>2, <2>3, <2>4, <2>5, <2>6, <2>7
<1>2. UInv /\ [Next]_vars =>
        [\A f \in Files : sys'[f] # sys[f] =>
           sys'[f] = HashOf(server, f) /\ sys'["release"] >= sys["release"]]_vars
  BY <1>1
<1> QED BY <1>2, Invariance, PTL DEF Spec, OnlyAnnounced

----------------------------------------------------------------------------
(* A run that nothing disturbs reaches the newest release.                 *)

\* The server is in order, and the run goes wherever there is to go.
Well == Served /\ opts.requested = 0 /\ sys["release"] # Altered

\* The server has nothing newer for the format of the system.
NoNewer == GetVersion(urls.version, sys["format"], -1) <= sys["release"]

\* Up to the installation, the format is the one read at the start.
BeforeInstall == {"mirror", "unset_content", "unset_version", "versions", "retrieve", "verify",
                  "packs", "list", "download", "stage"}
FormatRead == pc \in BeforeInstall => fmt = sys["format"]

\* The server has the version the run goes to, and names no greater one.
Sought ==
  /\ pc \in Going => server <= published[urls.version]
  /\ pc \in Going \union {"post"} /\ ~opts.incremental /\ opts.requested = 0 =>
       server = GetVersion(urls.version, fmt, -1)

\* The second attempt at a manifest finds it gone from the cache, and then as the server
\* has it.
SecondAttempt ==
  /\ pc = "retrieve" /\ retried => cache[Kind][Version] = "none"
  /\ pc = "verify" /\ retried => cache[Kind][Version] = "good"

\* No file fails, and then the version files agree.
NothingFails ==
  /\ pc \in {"download", "stage", "install"} => ~errors
  /\ pc = "post" => statev = server /\ sys["release"] = HashOf(server, "release")

\* The run ends well, and where there is nothing newer.
EndsWell ==
  pc \in {"clean", "idle"} /\ Well =>
    /\ ret = "ok"
    /\ again => VersionFilesConsistent
    /\ ~again /\ ~opts.download => NoNewer

\* What a run that nothing disturbs meets.
CalmInv == FormatRead /\ Sought /\ SecondAttempt /\ NothingFails /\ EndsWell

NewestInv ==
  /\ FormatsFollow(catalog)
  /\ pc # "clean" => ~again
  /\ calm => CalmInv

\* The releases of the beginning are in this order, and stay so.
ReleasesFollow == \A w \in Worlds : FormatsFollow(w.catalog)
\* The latest file names the greatest release of its format, and get_version answers with
\* one that is newer than the version given, if there is any.
LEMMA FoundIsListed ==
  ASSUME CatalogInv, published \in [Servers -> Versions],
         NEW s \in Servers, NEW format, NEW after \in Int
  PROVE  LET all == Listed(s, format)
             newest == GetVersion(s, format, -1)
             found == GetVersion(s, format, after)
         IN /\ all \subseteq 1..published[s] /\ published[s] \in 1..Len(catalog)
            /\ all = {} => found = -1 /\ newest = -1
            /\ all # {} => /\ found \in all /\ newest \in all
                           /\ \A v \in all : v <= newest
                           /\ found <= after => newest = found
<1> DEFINE all == Listed(s, format)
           newer == {v \in all : v > after}
           newer1 == {v \in all : v > -1}
<1>1. published[s] \in 1..Len(catalog) /\ Len(catalog) \in Nat /\ published[s] \in Nat
  BY DEF CatalogInv
<1>2. all \in SUBSET (1..published[s]) /\ newer \in SUBSET all
  BY DEF Listed
<1>3. /\ GetVersion(s, format, after) =
           IF all = {} THEN -1
           ELSE IF after < 0 \/ newer = {} THEN Greatest(all) ELSE Least(newer)
      /\ GetVersion(s, format, -1) = IF all = {} THEN -1 ELSE Greatest(all)
  BY DEF GetVersion
<1>11. all \subseteq Nat
  BY <1>1, <1>2
<1>4. newer # {} => \A v \in newer : v > after
  OBVIOUS
<1>5. newer = {} => \A v \in all : ~(v > after)
  OBVIOUS
<1> HIDE DEF all, newer
<1>6. ASSUME all # {} PROVE Greatest(all) \in all /\ \A v \in all : v <= Greatest(all)
  <2>1. \E x \in all : \A y \in all : y <= x
    BY <1>1, <1>2, <1>6, GreatestVersion
  <2> QED BY <2>1 DEF Greatest
<1>7. newer # {} => Least(newer) \in newer
  <2>1. newer \in SUBSET Nat
    BY <1>1, <1>2
  <2> QED BY <2>1, LeastVersion DEF Least
<1>8. CASE all = {}
  BY <1>1, <1>2, <1>3, <1>8 DEF all
<1>9. CASE all # {} /\ (after < 0 \/ newer = {})
  BY <1>1, <1>2, <1>3, <1>6, <1>9 DEF all
<1>10. CASE all # {} /\ ~(after < 0 \/ newer = {})
  <2>1. /\ GetVersion(s, format, after) = Least(newer) /\ Least(newer) \in newer
        /\ GetVersion(s, format, -1) = Greatest(all)
    BY <1>3, <1>7, <1>10
  <2>2. Least(newer) \in all
    BY <1>2, <2>1
  <2>3. Least(newer) > after
    BY <1>4, <2>1
  <2>4. Least(newer) \in Nat
    BY <1>11, <2>2
  <2>5. GetVersion(s, format, after) \in all /\ ~(GetVersion(s, format, after) <= after)
    BY <2>1, <2>2, <2>3, <2>4
  <2> QED BY <1>1, <1>2, <1>6, <1>10, <2>1, <2>5 DEF all
<1> QED BY <1>8, <1>9, <1>10

\* What a calm run meets does not depend on what the step leaves alone.
LEMMA WellFrame ==
  ASSUME UNCHANGED <<catalog, certs, published, sys, urls, opts>>
  PROVE  (Well' <=> Well) /\ (NoNewer' <=> NoNewer)
<1>1. \A s, format, after : GetVersion(s, format, after)' = GetVersion(s, format, after)
  BY DEF GetVersion, Listed
<1>2. /\ urls' = urls /\ sys' = sys /\ opts' = opts /\ published' = published /\ catalog' = catalog
      /\ certs' = certs
  OBVIOUS
<1>3. NoNewer' <=> NoNewer
  BY <1>1, <1>2 DEF NoNewer
<1>4. Served' <=> Served
  <2>1. GetVersion(urls.version, sys["format"], -1)' = GetVersion(urls.version, sys["format"], -1)
    BY <1>1, <1>2
  <2> QED BY <1>2, <2>1 DEF Served, Versions, HashOf
<1> QED BY <1>2, <1>3, <1>4 DEF Well

\* Where the system and the server agree that there is nothing newer, there is nothing
\* newer of another format either.
LEMMA NothingNewer ==
  ASSUME UInv, FormatsFollow(catalog), Well, NoNewer,
         sys["format"] = HashOf(sys["release"], "format")
  PROVE  ~UpdateAvailable
<1> DEFINE r == sys["release"]
           s == urls.version
<1>1. PICK v \in Versions : sys["release"] \in {Altered, HashOf(v, "release")}
  BY DEF UInv, ContentInv
<1>2. /\ r = HashOf(v, "release")
      /\ r \in Versions /\ s \in Servers /\ published \in [Servers -> Versions]
      /\ Versions = 1..Len(catalog) /\ Versions = DOMAIN catalog /\ Len(catalog) \in Nat
  BY <1>1, UpdateAssumption, Hashes DEF Well, UInv, TypeOK, CatalogInv, Versions
<1>3. sys["format"] = HashOf(r, "format")
  OBVIOUS
<1> SUFFICES ASSUME r < published[s] PROVE FALSE
  BY DEF UpdateAvailable
<1> HIDE DEF r, s
<1>4. published[s] \in 1..Len(catalog) /\ r + 1 \in 1..published[s] /\ r + 1 \in DOMAIN catalog
  BY <1>2
<1>5. catalog[r + 1].listed = HashOf(r, "format")
  BY <1>2, <1>4 DEF FormatsFollow, HashOf
<1>6. r + 1 \in Listed(s, sys["format"])
  BY <1>2, <1>3, <1>4, <1>5 DEF Listed
<1>7. \A u \in Listed(s, sys["format"]) : u <= GetVersion(s, sys["format"], -1)
  BY <1>2, <1>6, FoundIsListed DEF UInv
<1>8. GetVersion(s, sys["format"], -1) <= r /\ GetVersion(s, sys["format"], -1) \in Int
  BY <1>2, <1>6, FoundIsListed DEF NoNewer, r, s, UInv
<1> QED BY <1>2, <1>6, <1>7, <1>8

\* Another signature is looked for with every certificate there is.
LEMMA SignatureFound ==
  ASSUME UInv, Served, NEW v \in Versions, NEW c \in certs
  PROVE  SignatureVerify(v, "good", "good", c).ok
<1>1. /\ catalog[v].signed \in certs /\ certs \subseteq {"main", "alt"} /\ "main" \in certs
  BY DEF Served, UInv, TypeOK, TypeInv, Certificates
<1>2. CASE catalog[v].signed = c
  BY <1>2 DEF SignatureVerify
<1>3. CASE catalog[v].signed # c
  <2>1. c \in {"main", "alt"} /\ catalog[v].signed \in {"main", "alt"}
    BY <1>1
  <2>2. "alt" \in certs
    BY <1>1, <1>3, <2>1
  <2>3. UseAltCert(c) = catalog[v].signed
    BY <1>3, <2>1, <2>2 DEF UseAltCert, Other
  <2> QED BY <1>3, <2>3 DEF SignatureVerify
<1> QED BY <1>2, <1>3

\* A manifest as the server has it, with such a signature, is verified.
LEMMA MomFound ==
  ASSUME UInv, Served, NEW sig, Version \in Versions, cache["mom"][Version] = "good"
  PROVE  MomSignatureVerify(sig, "good").ok
<1> DEFINE first == SignatureVerify(Version, "good", sig, cert)
<1>1. cert \in certs /\ certs \subseteq Certificates
  BY DEF UInv, TypeOK
<1>5. \A v, m, s, c : c \in certs => SignatureVerify(v, m, s, c).cert \in certs
  BY <1>1 DEF SignatureVerify, UseAltCert, Other, Certificates, UInv, TypeInv
<1>2. first.cert \in certs
  BY <1>1, <1>5
<1>3. SignatureVerify(Version, "good", "good", first.cert).ok
  BY <1>2, SignatureFound
<1>4. MomSignatureVerify(sig, "good") =
        IF first.ok THEN first ELSE SignatureVerify(Version, "good", "good", first.cert)
  BY DEF MomSignatureVerify
<1> HIDE DEF first
<1> QED BY <1>3, <1>4

\* The server has the versions that the run goes from and to.
LEMMA HasThem ==
  ASSUME UInv, CalmInv, Served, pc \in Going \ {"install"}
  PROVE  /\ Has(current) /\ Has(server) /\ current \in Versions /\ server \in Versions
         /\ \A v \in 1..server : Has(v)
<1>1. /\ sys["release"] = current /\ current \in Versions /\ server \in Versions
      /\ server <= published[urls.version] /\ Len(catalog) \in Nat /\ Versions = 1..Len(catalog)
      /\ published[urls.version] \in Versions /\ published[urls.content] \in Versions
  BY DEF UInv, GoingInv, CalmInv, Sought, CatalogInv, TypeOK
<1>2. published[urls.content] >= published[urls.version] /\ published[urls.content] >= current
  BY <1>1 DEF Served
<1> QED BY <1>1, <1>2 DEF Has

\* A run is calm as long as nothing fails and nothing else happens.
LEMMA CalmStep ==
  ASSUME [Next]_vars, calm'
  PROVE  /\ calm \/ Start
         /\ ~Crash /\ ~Publish /\ ~MirrorStart /\ ~MirrorStep
         /\ published' = published
<1>1. ~Crash /\ ~Publish /\ ~MirrorStart /\ ~MirrorStep
  BY DEF Crash, Publish, MirrorStart, MirrorStep, Trouble
<1>2. published' = published
  BY <1>1
     DEF Next, RunStep, Start, HandleMirrorIfStale, UnsetMirror, GoToVersion, Retrieve, VerifyMom,
         VerifyBundle, DownloadPacks, CreateUpdateList, DownloadFullfiles, StageFiles, InstallFile,
         Record, PostUpdateScripts, Finish, TriggersDone
<1>3. ~Start => calm
  BY <1>1
     DEF Next, RunStep, Trouble, NoTrouble, HandleMirrorIfStale, UnsetMirror, GoToVersion, Retrieve,
         VerifyMom, VerifyBundle, DownloadPacks, CreateUpdateList, DownloadFullfiles, StageFiles,
         InstallFile, Record, PostUpdateScripts, Finish, TriggersDone
<1> QED BY <1>1, <1>2, <1>3

\* The options and the addresses change at the start only.
LEMMA SetupKept ==
  ASSUME [Next]_vars, pc' # "mirror"
  PROVE  /\ opts' = opts /\ fmt' = fmt
         /\ pc' # "versions" /\ pc' # "unset_version" => urls' = urls
<1>1. CASE Start
  BY <1>1 DEF Start, Globals
<1>2. CASE Finish
  BY <1>2 DEF Finish, Globals, Gone
<1>3. CASE UnsetMirror
  BY <1>3 DEF UnsetMirror
<1>4. CASE ~(Start \/ Finish \/ UnsetMirror)
  BY <1>4
     DEF Next, RunStep, HandleMirrorIfStale, GoToVersion, Retrieve, VerifyMom,
         VerifyBundle, DownloadPacks, CreateUpdateList, DownloadFullfiles, StageFiles, InstallFile,
         Record, PostUpdateScripts, Crash, Publish, MirrorStart, MirrorStep, TriggersDone
<1> QED BY <1>1, <1>2, <1>3, <1>4

\* What get_version finds does not depend on the rest.
LEMMA FoundFrame ==
  ASSUME catalog' = catalog, published' = published
  PROVE  \A s, format, after : GetVersion(s, format, after)' = GetVersion(s, format, after)
BY DEF GetVersion, Listed

LEMMA FormatStep ==
  ASSUME [Next]_vars, calm', calm => FormatRead
  PROVE  FormatRead'
<1> SUFFICES ASSUME pc' \in BeforeInstall PROVE fmt' = sys'["format"]
  BY DEF FormatRead, BeforeInstall
<1>1. CASE Start
  BY <1>1 DEF Start, Globals
<1>2. CASE Finish
  BY <1>2 DEF Finish, Globals, Gone, BeforeInstall
<1>3. CASE ~Start /\ ~Finish
  <2>1. calm /\ ~InstallFile /\ pc \in BeforeInstall
    BY <1>3, CalmStep
       DEF Next, RunStep, HandleMirrorIfStale, UnsetMirror, GoToVersion, Retrieve, VerifyMom,
           VerifyBundle, DownloadPacks, CreateUpdateList, DownloadFullfiles, StageFiles,
           InstallFile, Record, PostUpdateScripts, TriggersDone, BeforeInstall, Stop
  <2>2. sys' = sys
    BY <2>1, DiskFixed
  <2>3. fmt' = fmt
    BY <1>3, CalmStep
       DEF Next, RunStep, HandleMirrorIfStale, UnsetMirror, GoToVersion, Retrieve, VerifyMom,
           VerifyBundle, DownloadPacks, CreateUpdateList, DownloadFullfiles, StageFiles,
           InstallFile, Record, PostUpdateScripts, TriggersDone
  <2> QED BY <2>1, <2>2, <2>3 DEF FormatRead
<1> QED BY <1>1, <1>2, <1>3

LEMMA SoughtStep ==
  ASSUME UInv, [Next]_vars, calm', calm => Sought
  PROVE  Sought'
<1>1. /\ published' = published /\ catalog' = catalog
      /\ \A s, format, after : GetVersion(s, format, after)' = GetVersion(s, format, after)
  BY CalmStep, ReleasesFixed, FoundFrame
<1>2. pc' \in Going \union {"post"} => urls' = urls /\ opts' = opts /\ fmt' = fmt
  BY SetupKept DEF Going
<1>3. CASE GoToVersion
  <2> SUFFICES ASSUME pc' \in Going \union {"post"} PROVE Sought'
    BY DEF Sought
  <2>1. /\ CheckVersions(opts.incremental).ret = "ok"
        /\ server' = CheckVersions(opts.incremental).server
    BY <1>3 DEF GoToVersion, Stop, Going
  <2> DEFINE found == GetVersion(urls.version, fmt, IF opts.incremental THEN sys["release"] ELSE -1)
  <2>2. /\ urls.version \in Servers /\ sys["release"] \in Int /\ opts.requested \in Nat
        /\ published \in [Servers -> Versions] /\ opts.incremental \in BOOLEAN
    BY UpdateAssumption DEF UInv, TypeOK, TypeInv, CatalogInv, Altered
  <2>3. /\ CheckVersions(opts.incremental) =
             IF sys["release"] < 0 THEN [ret |-> "current_version_unknown", server |-> found]
             ELSE IF found < 0 THEN [ret |-> "server_connection", server |-> found]
             ELSE IF opts.requested = 0 THEN [ret |-> "ok", server |-> found]
             ELSE IF opts.requested < sys["release"]
               THEN [ret |-> "invalid_option", server |-> found]
             ELSE [ret |-> "ok", server |-> IF opts.requested < found THEN opts.requested ELSE found]
    BY DEF CheckVersions
  <2>4. /\ found \in {-1} \union 1..published[urls.version]
        /\ published[urls.version] \in Nat
    <3> DEFINE after == IF opts.incremental THEN sys["release"] ELSE -1
    <3>0. after \in Int /\ CatalogInv /\ Len(catalog) \in Nat
      BY <2>2 DEF UInv, CatalogInv
    <3>2. found = GetVersion(urls.version, fmt, after)
      OBVIOUS
    <3> HIDE DEF after, found
    <3>3. published[urls.version] \in 1..Len(catalog)
      BY <2>2, <3>0 DEF CatalogInv
    <3>1. /\ Listed(urls.version, fmt) \subseteq 1..published[urls.version]
          /\ published[urls.version] \in Nat
          /\ Listed(urls.version, fmt) = {} => found = -1
          /\ Listed(urls.version, fmt) # {} => found \in Listed(urls.version, fmt)
      BY <2>2, <3>0, <3>2, <3>3, FoundIsListed
    <3> QED BY <3>1
  <2>5. ~opts.incremental => found = GetVersion(urls.version, fmt, -1)
    OBVIOUS
  <2> HIDE DEF found
  <2>6. /\ server' <= published[urls.version]
        /\ ~opts.incremental /\ opts.requested = 0 => server' = GetVersion(urls.version, fmt, -1)
    BY <2>1, <2>2, <2>3, <2>4, <2>5
  <2>7. GetVersion(urls.version, fmt, -1)' = GetVersion(urls.version, fmt, -1)
    BY <1>1, <1>2
  <2> QED BY <1>1, <1>2, <2>6, <2>7 DEF Sought
<1>4. CASE ~GoToVersion /\ pc' \in Going \union {"post"}
  <2>1. pc \in Going \union {"post"} /\ server' = server /\ (pc' = "post" => pc \in {"install", "post"})
        /\ ~Start
    <3>1. CASE pc' \in Going
      BY <1>4, <3>1, GoesOn DEF Going, Start, Globals
    <3>2. CASE pc' = "post"
      BY <1>4, <3>2
         DEF Next, RunStep, Start, Globals, HandleMirrorIfStale, UnsetMirror, Retrieve, VerifyMom,
             VerifyBundle, NextLoad, TryAgain, NotLoaded, DownloadPacks, CreateUpdateList,
             DownloadFullfiles, StageFiles, InstallFile, Record, PostUpdateScripts, Finish, Crash,
             Gone, Publish, MirrorStart, MirrorStep, TriggersDone, Going, Stop
    <3> QED BY <1>4, <3>1, <3>2
  <2>2. GetVersion(urls.version, fmt, -1)' = GetVersion(urls.version, fmt, -1)
    BY <1>1, <1>2, <1>4
  <2>3. Sought
    BY <2>1, CalmStep
  <2>4. pc' \in Going => pc \in Going
    BY <1>4, GoesOn
  <2> QED BY <1>1, <1>2, <1>4, <2>1, <2>2, <2>3, <2>4 DEF Sought
<1>5. CASE ~(pc' \in Going \union {"post"})
  BY <1>5 DEF Sought
<1> QED BY <1>3, <1>4, <1>5

LEMMA LoadFrame ==
  ASSUME UNCHANGED <<current, server, load>>
  PROVE  Kind' = Kind /\ Version' = Version
BY DEF Kind, Version, Loads

\* The manifest that is to be had anew has left the cache.
LEMMA GoneFromCache ==
  ASSUME UInv, pc = "verify", TryAgain, ~retried, UNCHANGED <<current, server>>
  PROVE  pc' = "retrieve" /\ cache'[Kind'][Version'] = "none"
<1>1. Kind \in Kinds /\ Version \in Versions /\ cache \in [Kinds -> [Versions -> {"none", "good", "bad"}]]
  BY LoadedManifest DEF UInv, TypeOK
<1>2. /\ pc' = "retrieve" /\ load' = load
      /\ cache' = [k \in Kinds |-> IF k = Kind \/ (Kind = "mom" /\ k = "sig")
                                   THEN [cache[k] EXCEPT ![Version] = "none"] ELSE cache[k]]
  BY DEF TryAgain
<1>3. cache'[Kind] = [cache[Kind] EXCEPT ![Version] = "none"]
  BY <1>1, <1>2
<1>4. cache'[Kind][Version] = "none"
  BY <1>1, <1>3
<1> QED BY <1>2, <1>4, LoadFrame

LEMMA AttemptStep ==
  ASSUME UInv, [Next]_vars, calm', calm => SecondAttempt
  PROVE  SecondAttempt'
<1>1. CASE GoToVersion
  BY <1>1 DEF GoToVersion, Stop, SecondAttempt
<1>2. CASE Retrieve
  <2>1. /\ calm /\ pc = "retrieve" /\ UNCHANGED <<current, server, load, retried>>
    BY <1>2, CalmStep DEF Retrieve, Start
  <2>2. Kind' = Kind /\ Version' = Version
    BY <2>1, LoadFrame
  <2>3. Kind \in Kinds /\ Version \in Versions /\ cache \in [Kinds -> [Versions -> {"none", "good", "bad"}]]
    BY <2>1, LoadedManifest DEF UInv, TypeOK
  <2>4. \/ pc' = "clean"
        \/ pc' = "verify" /\ cache[Kind][Version] # "none"
        \/ pc' = "verify" /\ cache' = [cache EXCEPT ![Kind][Version] = "good"]
    BY <1>2 DEF Retrieve, NotLoaded, Stop, Trouble
  <2>5. retried => cache[Kind][Version] = "none"
    BY <2>1 DEF SecondAttempt
  <2>6. [cache EXCEPT ![Kind][Version] = "good"][Kind][Version] = "good"
    BY <2>3
  <2> QED BY <2>1, <2>2, <2>4, <2>5, <2>6 DEF SecondAttempt
<1>3. CASE VerifyMom \/ VerifyBundle
  <2>1. pc = "verify" /\ UNCHANGED <<current, server>>
    BY <1>3 DEF VerifyMom, VerifyBundle
  <2>2. CASE NextLoad
    BY <2>2 DEF NextLoad, SecondAttempt
  <2>3. CASE TryAgain /\ retried
    BY <2>3 DEF TryAgain, NotLoaded, Stop, SecondAttempt
  <2>4. CASE TryAgain /\ ~retried
    BY <2>1, <2>4, GoneFromCache DEF SecondAttempt
  <2>5. NextLoad \/ TryAgain
    BY <1>3 DEF VerifyMom, VerifyBundle
  <2> QED BY <2>2, <2>3, <2>4, <2>5
<1>4. CASE ~GoToVersion /\ ~Retrieve /\ ~VerifyMom /\ ~VerifyBundle
  <2> SUFFICES ASSUME pc' \in {"retrieve", "verify"} PROVE SecondAttempt'
    BY DEF SecondAttempt
  <2>1. calm /\ pc' = pc /\ UNCHANGED <<current, server, load, retried, cache>>
    <3>1. ~Start /\ calm
      BY CalmStep DEF Start, Globals
    <3> QED
      BY <1>4, <3>1, CalmStep
         DEF Next, RunStep, HandleMirrorIfStale, UnsetMirror, DownloadPacks, CreateUpdateList,
             DownloadFullfiles, StageFiles, InstallFile, Record, PostUpdateScripts, Finish,
             TriggersDone, Stop, Globals, Gone
  <2>2. Kind' = Kind /\ Version' = Version
    BY <2>1, LoadFrame
  <2> QED BY <2>1, <2>2 DEF SecondAttempt
<1> QED BY <1>1, <1>2, <1>3, <1>4

LEMMA NothingFailsStep ==
  ASSUME UInv, [Next]_vars, calm', calm => NothingFails
  PROVE  NothingFails'
<1>1. \A v, f : HashOf(v, f)' = HashOf(v, f)
  BY CatalogStep DEF UInv
<1>2. ASSUME pc' \in {"download", "stage", "install"} PROVE ~errors'
  <2>1. CASE CreateUpdateList
    BY <2>1 DEF CreateUpdateList
  <2>2. CASE ~CreateUpdateList
    <3>1. pc \in {"download", "stage", "install"} /\ calm
      BY <1>2, <2>2, ListKept, CalmStep DEF Listing, Start, Globals
    <3>2. errors' = errors
      BY <1>2, <2>2, <3>1, CalmStep
         DEF Next, RunStep, Start, HandleMirrorIfStale, UnsetMirror, GoToVersion, Retrieve,
             VerifyMom, VerifyBundle, DownloadPacks, DownloadFullfiles, StageFiles, InstallFile,
             Trouble, Record, PostUpdateScripts, Finish, TriggersDone
    <3> QED BY <3>1, <3>2 DEF NothingFails
  <2> QED BY <2>1, <2>2
<1>3. ASSUME pc' = "post"
      PROVE  statev' = server' /\ sys'["release"] = HashOf(server, "release")'
  <2>1. CASE Record
    <3>1. /\ pc = "install" /\ ~errors /\ next > Len(updates) /\ sys' = sys /\ server' = server
          /\ statev' = server
      BY <1>3, <2>1 DEF Record, Stop, Trouble
    <3>2. \A i \in DOMAIN updates : i < next => sys[updates[i]] = HashOf(server, updates[i])
      BY <3>1 DEF UInv, InstalledInv
    <3>3. \A i \in DOMAIN updates : i < next
      BY <3>1 DEF UInv, TypeInv, TypeOK
    <3>4. \A f \in Updated : sys[f] = HashOf(server, f)
      BY <3>2, <3>3 DEF Updated
    <3>5. sys["release"] = HashOf(server, "release")
      BY <3>1, <3>4, UpdateAssumption DEF UInv, ListInv
    <3> QED BY <1>1, <3>1, <3>5
  <2>2. CASE ~Record
    <3>1. pc = "post" /\ calm /\ server' = server /\ ~InstallFile
      BY <1>3, <2>2, CalmStep
         DEF Next, RunStep, Start, Globals, HandleMirrorIfStale, UnsetMirror, GoToVersion, Retrieve,
             VerifyMom, VerifyBundle, NextLoad, TryAgain, NotLoaded, DownloadPacks,
             CreateUpdateList, DownloadFullfiles, StageFiles, InstallFile, PostUpdateScripts,
             Finish, Gone, TriggersDone, Stop
    <3>2. sys' = sys /\ statev' = statev
      BY <2>2, <3>1, CalmStep, DiskFixed
    <3> QED BY <1>1, <3>1, <3>2 DEF NothingFails
  <2> QED BY <2>1, <2>2
<1> QED BY <1>2, <1>3 DEF NothingFails

\* Where the run stops because there is nothing newer, there is nothing newer.
LEMMA StopsAtNewest ==
  ASSUME UInv, Well, fmt = sys["format"], CheckVersions(opts.incremental).ret # "ok"
                 \/ ~(CheckVersions(opts.incremental).server > sys["release"])
  PROVE  CheckVersions(opts.incremental).ret = "ok" /\ NoNewer
<1> DEFINE after == IF opts.incremental THEN sys["release"] ELSE -1
           found == GetVersion(urls.version, fmt, after)
           newest == GetVersion(urls.version, fmt, -1)
<1>1. /\ urls.version \in Servers /\ opts.requested = 0 /\ opts.incremental \in BOOLEAN
      /\ published \in [Servers -> Versions] /\ sys["release"] \in Versions
      /\ Len(catalog) \in Nat /\ Versions = 1..Len(catalog) /\ CatalogInv
  BY UpdateAssumption DEF UInv, TypeOK, TypeInv, CatalogInv, Well
<1>2. /\ CheckVersions(opts.incremental) =
           IF sys["release"] < 0 THEN [ret |-> "current_version_unknown", server |-> found]
           ELSE IF found < 0 THEN [ret |-> "server_connection", server |-> found]
           ELSE IF opts.requested = 0 THEN [ret |-> "ok", server |-> found]
           ELSE IF opts.requested < sys["release"] THEN [ret |-> "invalid_option", server |-> found]
           ELSE [ret |-> "ok", server |-> IF opts.requested < found THEN opts.requested ELSE found]
  BY DEF CheckVersions
<1>3. newest > 0
  BY DEF Well, Served
<1>4. after \in Int /\ (after = sys["release"] \/ after = -1)
  BY <1>1
<1> HIDE DEF after
<1>5. Listed(urls.version, fmt) # {}
  BY <1>1, <1>3, <1>4, FoundIsListed
<1>6. /\ Listed(urls.version, fmt) \subseteq 1..published[urls.version]
      /\ published[urls.version] \in 1..Len(catalog)
      /\ found \in Listed(urls.version, fmt) /\ newest \in Listed(urls.version, fmt)
      /\ found <= after => newest = found
  BY <1>1, <1>4, <1>5, FoundIsListed
<1>7. after = -1 => found = newest
  BY DEF after
<1> HIDE DEF found, newest
<1>8. found \in Nat /\ found > 0 /\ newest \in Nat
  BY <1>1, <1>6
<1>9. CheckVersions(opts.incremental) = [ret |-> "ok", server |-> found]
  BY <1>1, <1>2, <1>8
<1>10. found <= sys["release"]
  BY <1>1, <1>8, <1>9
<1>11. newest <= sys["release"]
  BY <1>4, <1>6, <1>7, <1>10
<1> QED BY <1>9, <1>11 DEF NoNewer, newest

LEMMA LoadedVersion ==
  ASSUME UInv
  PROVE  Version \in {current, server}
<1>1. load \in 1..4
  BY DEF UInv, TypeOK, Loads
<1> QED BY <1>1 DEF Version, Loads

\* The second attempt at a manifest, and the signature asked for once more, succeed.
LEMMA ManifestsVerified ==
  ASSUME UInv, CalmInv, Served, calm', VerifyMom \/ VerifyBundle, retried
  PROVE  pc' # "clean"
<1>1. /\ pc = "verify" /\ Kind \in Kinds /\ Version \in Versions
      /\ cache[Kind][Version] = "good"
  BY LoadedManifest DEF VerifyMom, VerifyBundle, CalmInv, SecondAttempt
<1>2. NextLoad => pc' # "clean"
  BY DEF NextLoad
<1>3. CASE VerifyBundle
  <2>1. Kind = "bundle"
    BY <1>3 DEF VerifyBundle
  <2> QED BY <1>1, <1>2, <1>3, <2>1 DEF VerifyBundle
<1>4. CASE VerifyMom
  <2>1. Kind = "mom" /\ cache["mom"][Version] = "good"
    BY <1>1, <1>4 DEF VerifyMom
  <2> DEFINE sig == cache["sig"][Version]
  <2>2. PICK downloaded \in {"good", "bad", "none"} :
          LET verified == MomSignatureVerify(sig, downloaded)
              asked == ~MomSignatureVerify(sig, "none").ok
          IN /\ ~asked => downloaded = "none"
             /\ IF asked /\ Has(Version) /\ downloaded # "good" THEN Trouble ELSE NoTrouble
             /\ verified.ok => NextLoad
    BY <1>4, <2>1 DEF VerifyMom
  <2>3. Has(Version)
    <3>1. Has(current) /\ Has(server)
      BY <1>1, HasThem DEF Going
    <3>2. Version \in {current, server}
      BY LoadedVersion
    <3> QED BY <3>1, <3>2
  <2>4. CASE MomSignatureVerify(sig, "none").ok
    BY <1>2, <2>2, <2>4
  <2>5. CASE ~MomSignatureVerify(sig, "none").ok
    <3>1. downloaded = "good"
      BY <2>2, <2>3, <2>5 DEF Trouble
    <3>2. MomSignatureVerify(sig, "good").ok
      BY <1>1, <2>1, MomFound
    <3> QED BY <1>2, <2>2, <3>1, <3>2
  <2> QED BY <2>4, <2>5
<1> QED BY <1>3, <1>4

\* Every file that is wanted was last changed in a release that the server has.
LEMMA WantedThere ==
  ASSUME UInv, CalmInv, Served, FormatsFollow(catalog), pc = "download"
  PROVE  \A f \in Wanted : Has(ChangeOf(server, f))
<1>1. server \in Versions /\ \A v \in 1..server : Has(v)
  BY HasThem DEF Going
<1>2. ASSUME NEW f \in Wanted PROVE Has(ChangeOf(server, f))
  <2>1. f \in Files /\ HashOf(server, f) # Absent
    BY <1>2 DEF Wanted, FilesOf
  <2>2. ChangeOf(server, f) \in 1..server
    BY <1>1, <2>1 DEF FormatsFollow, HashOf, ChangeOf, Versions
  <2> QED BY <1>1, <2>2
<1> QED BY <1>2

\* Once a release is installed and it is decided that no other update is needed, the
\* server has nothing newer; and if one is, the version files agree.
LEMMA AfterInstall ==
  ASSUME UInv, CalmInv, Well, calm', PostUpdateScripts
  PROVE  ret' = "ok" /\ VersionFilesConsistent /\ (~again' => NoNewer)
<1> DEFINE newest == GetVersion(urls.version, fmt, -1)
           checked == CheckVersions(FALSE)
           newer == checked.ret = "ok" /\ checked.server > sys["release"]
<1>1. /\ pc = "post" /\ statev = server /\ sys["release"] = HashOf(server, "release")
      /\ ~opts.incremental => server = newest
  BY DEF PostUpdateScripts, CalmInv, NothingFails, Sought, Well
<1>2. /\ server \in 0..Len(catalog) /\ sys["release"] \in Versions /\ opts.requested = 0
      /\ opts.incremental \in BOOLEAN /\ Versions = 1..Len(catalog) /\ Len(catalog) \in Nat
  BY UpdateAssumption DEF UInv, TypeOK, TypeInv, CatalogInv, Well
<1>3. sys["release"] >= server
  BY <1>1, <1>2 DEF Well, Served
<1>4. VersionFilesConsistent
  BY <1>1, <1>2, <1>3 DEF VersionFilesConsistent, Unreadable
<1>5. ret' = "ok" /\ again' = UpdateOnceMore(newer)
  BY DEF PostUpdateScripts, Stop, Trouble
<1>6. ASSUME ~again' PROVE NoNewer
  <2>1. ~UpdateOnceMore(newer)
    BY <1>5, <1>6
  <2> HIDE DEF newer
  <2>2. ~(opts.incremental /\ newer) /\ sys["format"] = fmt
    BY <1>2, <2>1 DEF UpdateOnceMore, OnNewFormat
  <2>3. newest > 0 /\ (NoNewer <=> newest <= sys["release"])
    BY <2>2 DEF Well, Served, NoNewer
  <2>4. checked = IF sys["release"] < 0
                    THEN [ret |-> "current_version_unknown", server |-> newest]
                    ELSE IF newest < 0 THEN [ret |-> "server_connection", server |-> newest]
                    ELSE [ret |-> "ok", server |-> newest]
    BY <1>2 DEF CheckVersions
  <2>5. newest \in Int
    <3>1. /\ urls.version \in Servers /\ published \in [Servers -> Versions] /\ CatalogInv
          /\ Len(catalog) \in Nat /\ -1 \in Int
      BY DEF UInv, TypeOK, CatalogInv
    <3>2. newest \in {-1} \union Versions
      BY <3>1, FoundVersion
    <3> QED BY <1>2, <3>2
  <2> HIDE DEF newest, checked
  <2>6. CASE opts.incremental
    <3>1. checked = [ret |-> "ok", server |-> newest]
      BY <1>2, <2>3, <2>4, <2>5
    <3>2. ~(newest > sys["release"])
      BY <2>2, <2>6, <3>1 DEF newer
    <3> QED BY <1>2, <2>3, <2>5, <3>2
  <2>7. CASE ~opts.incremental
    BY <1>1, <1>3, <2>3, <2>7
  <2> QED BY <1>2, <2>6, <2>7
<1> QED BY <1>4, <1>5, <1>6

LEMMA EndStep ==
  ASSUME UInv, NewestInv, [Next]_vars, calm'
  PROVE  EndsWell'
<1> SUFFICES ASSUME pc' \in {"clean", "idle"}, Well'
             PROVE  /\ ret' = "ok"
                    /\ again' => VersionFilesConsistent'
                    /\ ~again' /\ ~opts.download' => NoNewer'
  BY DEF EndsWell
<1>1. /\ calm /\ CalmInv /\ FormatsFollow(catalog) /\ (pc # "clean" => ~again)
      /\ ~Start /\ ~InstallFile /\ ~HandleMirrorIfStale /\ ~UnsetMirror /\ ~DownloadPacks
      /\ ~CreateUpdateList
  BY CalmStep
     DEF NewestInv, Start, Globals, InstallFile, HandleMirrorIfStale, UnsetMirror, DownloadPacks,
         CreateUpdateList
<1>2. UNCHANGED <<catalog, certs, published, sys, urls, opts>> /\ fmt' = fmt
  BY <1>1, CalmStep, ReleasesFixed, SetupKept, DiskFixed
<1>3. Well /\ (NoNewer' <=> NoNewer) /\ Served /\ opts.download' = opts.download
  BY <1>2, WellFrame DEF Well
<1>4. CASE GoToVersion
  <2>1. ~again' /\ fmt = sys["format"]
    BY <1>1, <1>4 DEF GoToVersion, CalmInv, FormatRead, BeforeInstall
  <2>2. /\ ret' = CheckVersions(opts.incremental).ret
        /\ \/ CheckVersions(opts.incremental).ret # "ok"
           \/ ~(CheckVersions(opts.incremental).server > sys["release"])
    BY <1>4 DEF GoToVersion, Stop, Trouble
  <2> QED BY <1>3, <2>1, <2>2, StopsAtNewest
<1>5. CASE Retrieve
  <2>1. pc = "retrieve" /\ ~Has(Version)
    BY <1>5 DEF Retrieve, Trouble
  <2>2. Has(Version)
    BY <1>1, <1>3, <2>1, HasThem, LoadedVersion DEF Going
  <2> QED BY <2>1, <2>2
<1>6. CASE VerifyMom \/ VerifyBundle
  <2>1. NextLoad \/ TryAgain
    BY <1>6 DEF VerifyMom, VerifyBundle
  <2>2. retried
    BY <2>1 DEF NextLoad, TryAgain
  <2>3. pc' = "clean"
    BY <2>1 DEF NextLoad, TryAgain, NotLoaded, Stop
  <2> QED BY <1>1, <1>3, <1>6, <2>2, <2>3, ManifestsVerified
<1>7. CASE DownloadFullfiles
  <2>1. pc = "download" /\ ~again'
    BY <1>1, <1>7 DEF DownloadFullfiles
  <2>2. \A f \in Wanted : Has(ChangeOf(server, f))
    BY <1>1, <1>3, <2>1, WantedThere
  <2>3. opts.download /\ ret' = "ok"
    BY <1>7, <2>2 DEF DownloadFullfiles, Stop, Trouble
  <2> QED BY <1>3, <2>1, <2>3
<1>8. CASE StageFiles \/ Record
  BY <1>1, <1>8 DEF StageFiles, Record, Trouble, Stop, CalmInv, NothingFails
<1>9. CASE PostUpdateScripts
  <2>1. ret' = "ok" /\ VersionFilesConsistent /\ (~again' => NoNewer)
    BY <1>1, <1>3, <1>9, AfterInstall
  <2>2. VersionFilesConsistent' <=> VersionFilesConsistent
    BY <1>9 DEF PostUpdateScripts, VersionFilesConsistent
  <2> QED BY <1>3, <2>1, <2>2
<1>10. CASE Finish
  <2>1. pc = "clean" /\ ~(again /\ ret = "ok" /\ VersionFilesConsistent)
    BY <1>10 DEF Finish, Globals
  <2>2. ret = "ok" /\ ~again /\ (~opts.download => NoNewer)
    BY <1>1, <1>3, <2>1 DEF CalmInv, EndsWell
  <2>3. ret' = ret /\ ~again'
    BY <1>10, <2>1, <2>2 DEF Finish, Gone
  <2> QED BY <1>3, <2>2, <2>3
<1>11. CASE TriggersDone \/ UNCHANGED vars
  <2>1. pc' = pc /\ ret' = ret /\ again' = again /\ statev' = statev /\ sys' = sys
    BY <1>11 DEF TriggersDone
  <2>2. VersionFilesConsistent' <=> VersionFilesConsistent
    BY <2>1 DEF VersionFilesConsistent
  <2> QED BY <1>1, <1>3, <2>1, <2>2 DEF CalmInv, EndsWell
<1> QED BY <1>1, <1>4, <1>5, <1>6, <1>7, <1>8, <1>9, <1>10, <1>11, CalmStep DEF Next, RunStep

LEMMA NewestStep ==
  ASSUME UInv, NewestInv, [Next]_vars
  PROVE  NewestInv'
<1>1. FormatsFollow(catalog)'
  BY ReleasesFixed DEF NewestInv, FormatsFollow
<1>2. ASSUME pc' # "clean" PROVE ~again'
  <2>1. CASE Start \/ Finish \/ Crash
    BY <2>1 DEF Start, Finish, Crash, Globals, Gone
  <2>2. CASE ~Start /\ ~Finish /\ ~Crash
    <3>1. again' = again /\ pc # "clean"
      BY <1>2, <2>2
         DEF Next, RunStep, HandleMirrorIfStale, UnsetMirror, GoToVersion, Retrieve, VerifyMom,
             VerifyBundle, DownloadPacks, CreateUpdateList, DownloadFullfiles, StageFiles,
             InstallFile, Record, PostUpdateScripts, Publish, MirrorStart, MirrorStep,
             TriggersDone, Stop
    <3> QED BY <3>1 DEF NewestInv
  <2> QED BY <2>1, <2>2
<1>3. ASSUME calm' PROVE CalmInv'
  <2>1. calm => FormatRead /\ Sought /\ SecondAttempt /\ NothingFails
    BY DEF NewestInv, CalmInv
  <2> QED
    BY <1>3, <2>1, FormatStep, SoughtStep, AttemptStep, NothingFailsStep, EndStep DEF CalmInv
<1> QED BY <1>1, <1>2, <1>3 DEF NewestInv

LEMMA NewestInit ==
  ASSUME ReleasesFollow, Init
  PROVE  NewestInv
<1>1. PICK w \in Worlds : catalog = w.catalog /\ ~again /\ ~calm
  BY DEF Init
<1> QED BY <1>1 DEF ReleasesFollow, NewestInv

\* An update that nothing disturbs succeeds, whatever earlier runs that were killed left in
\* the cache and of the packs, and does not stop before the server has nothing newer, over
\* as many changes of format as it takes (cmds/update.c execute_update_extra,
\* helpers.c version_files_consistent).
THEOREM NewestReached == ReleasesFollow => (Spec => []ReachesNewest)
<1> SUFFICES ASSUME ReleasesFollow PROVE Spec => []ReachesNewest
  OBVIOUS
<1>1. Init => NewestInv
  BY NewestInit
<1>2. UInv /\ NewestInv /\ [Next]_vars => NewestInv'
  BY NewestStep
<1>3. UInv /\ NewestInv => ReachesNewest
  <2> SUFFICES ASSUME UInv, NewestInv, pc = "idle", calm, Served, opts.requested = 0,
                      sys["release"] # Altered
               PROVE  /\ ret = "ok"
                      /\ ~opts.download /\ sys["format"] = HashOf(sys["release"], "format") =>
                           ~UpdateAvailable
    BY DEF ReachesNewest
  <2>1. Well /\ ~again /\ EndsWell /\ FormatsFollow(catalog)
    BY DEF Well, NewestInv, CalmInv
  <2>2. ret = "ok" /\ (~opts.download => NoNewer)
    BY <2>1 DEF EndsWell
  <2> QED BY <2>1, <2>2, NothingNewer
<1> QED BY <1>1, <1>2, <1>3, Invariance, PTL DEF Spec
=============================================================================

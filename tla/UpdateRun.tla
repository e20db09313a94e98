------------------------------- MODULE UpdateRun -------------------------------
(***************************************************************************)
(* The update command (cmds/update.c) from its start to its end or to the  *)
(* command it replaces itself with: the mirror that may be stale, the      *)
(* version to go to, the manifests of both versions through the cache,     *)
(* packs, deltas and full files, the installation, the version files and   *)
(* the decision to update once more.  Servers publish, the mirror command  *)
(* runs beside it (it takes no lock), downloads fail or bring something    *)
(* else, and the command may be killed.  The system has one bundle.  How   *)
(* files are downloaded in parallel and how a list of files is put in      *)
(* place are the subjects of ParallelDownload and RootInstall.             *)
(***************************************************************************)
EXTENDS Integers, Sequences, FiniteSets, Functions

CONSTANTS
  FileOrder,    \* the files in the order of their names
  DeltaFiles,   \* the files packs hold deltas of
  PackFiles,    \* the files packs hold whole
  Options,      \* what update is asked for
  Worlds,       \* the releases, how the system and the servers are to begin with, and
                \* the bound of what goes wrong: troubles
  StaleUnset,   \* MIRROR_STALE_UNSET
  PostUpdate    \* whether swupd is built with a post-update script of its own

Files == {FileOrder[i] : i \in DOMAIN FileOrder}
Servers == {"upstream", "mirror"}
Kinds == {"mom", "sig", "bundle"}
Certificates == {"main", "alt"}

Absent == 0    \* the hash of a file that a release does not have
Altered == -1  \* the hash of anything no release has

Unreadable == -1  \* what a version file that is empty tells

\* A release: the format it is listed for, the certificate it is signed with, and of each
\* file the hash and the version it changed in.  The hash of an os-release is the version
\* it tells of.
IsRelease(r, last) ==
  /\ r.listed \in Nat /\ r.signed \in Certificates
  /\ DOMAIN r.files = Files
  /\ \A f \in Files : r.files[f].hash \in Nat /\ r.files[f].change \in Nat
  /\ r.files["release"].hash \in 1..last

ASSUME UpdateAssumption ==
  /\ FileOrder \in Seq(Files) /\ {"release", "format"} \subseteq Files
  /\ \A w \in Worlds :
       /\ w.catalog \in Seq(Range(w.catalog)) /\ w.catalog # <<>>
       /\ \A v \in DOMAIN w.catalog : IsRelease(w.catalog[v], Len(w.catalog))
       /\ w.published \in [Servers -> DOMAIN w.catalog]
       /\ w.certs \subseteq Certificates /\ "main" \in w.certs
       /\ w.etc \subseteq {"version", "content"} /\ w.altered \subseteq Files
       /\ w.troubles \in Nat
  /\ Options # {}
  /\ \A o \in Options : /\ o.incremental \in BOOLEAN /\ o.download \in BOOLEAN
                        /\ o.keepcache \in BOOLEAN /\ o.requested \in Nat
  /\ StaleUnset \in Nat /\ PostUpdate \in BOOLEAN

\* The os-release of a release tells of no version older than one before it.
ReleasesRise(releases) ==
  \A u, v \in DOMAIN releases : u < v => releases[v].files["release"].hash >= u

\* Where a system that has the files of here, and says it is at here's os-release, goes on
\* to there, the manifests tell of each file whether it is another one.
ChangesTold(releases) ==
  \A here, there \in DOMAIN releases :
    LET said == releases[here].files["release"].hash
    IN said < there =>
         \A f \in Files :
           LET old == releases[said].files[f]
               new == releases[there].files[f]
               has == releases[here].files[f].hash
           IN \/ has = new.hash
              \/ new.hash = Absent /\ old.hash # Absent
              \/ new.hash # Absent /\ (old.hash = Absent \/ new.change > old.change)

\* What the servers are relied on for.
ASSUME ReleaseAssumption ==
  \A w \in Worlds : ReleasesRise(w.catalog) /\ ChangesTold(w.catalog)

\* A release is listed for the format that the one before it has the files of, the release
\* that an os-release tells of has the same format, and what changed in a release is there
\* with it.
FormatsFollow(releases) ==
  \A v \in DOMAIN releases :
    LET said == releases[v].files["release"].hash
        format(u) == releases[u].files["format"].hash
    IN /\ v + 1 \in DOMAIN releases => releases[v + 1].listed = format(v)
       /\ format(v) = format(said)
       /\ \A f \in Files : releases[v].files[f].hash # Absent => releases[v].files[f].change \in 1..v

VARIABLES
  catalog,    \* the releases there are, published or still to come
  certs,      \* the certificates there are
  published,  \* per server: the newest release it has
  sys,        \* per file: the hash of what is on disk
  suspects,   \* history: files of an installation that did not come to its end
  statev,     \* the version file of the state directory
  etc,        \* the mirror configuration: which of its two files are there
  mirror,     \* the mirror command: what it still has to do
  cache,      \* the manifests and signatures in the cache
  staged,     \* per file: the hash and the state of its staged copy
  deltas,     \* the delta files
  packs,      \* the packs marked as extracted
  pc,         \* control point of the update command
  opts,       \* its options
  fmt,        \* globals.format_string, read when the command starts
  urls,       \* globals.version_url and globals.content_url
  cert,       \* the certificate in use
  current, server, \* current_version and server_version
  load,       \* index in Loads of the manifest that is being loaded
  retried,    \* whether its second attempt is under way
  updates,    \* the files to install, in the order of their names
  next,       \* index in updates of the one to be put in place next
  errors,     \* whether one could not be put in place
  again,      \* re_update
  triggers,   \* whether update triggers are still running
  ret,        \* how the last run ended
  calm,       \* history: nothing failed and nothing else happened since it started
  troubles    \* bound: downloads and files that fail, runs killed, releases published
              \* or mirrored, and mirror commands, all together

world == <<published, etc, mirror>>
disk == <<sys, statev, suspects>>
cached == <<cache, staged, deltas, packs>>
setup == <<opts, fmt, urls>>
versions == <<current, server>>
loading == <<load, retried, cert>>
installing == <<updates, next, errors>>
ending == <<again, triggers, ret>>
vars == <<catalog, certs, world, disk, cached, pc, setup, versions, loading, installing, ending,
          calm, troubles>>

----------------------------------------------------------------------------
(* Releases.                                                               *)

Versions == DOMAIN catalog
HashOf(v, f) == catalog[v].files[f].hash
ChangeOf(v, f) == catalog[v].files[f].change
FilesOf(v) == {f \in Files : HashOf(v, f) # Absent}

\* What the latest file of a format names on a server.
Listed(s, format) == {v \in 1..published[s] : catalog[v].listed = format}
Greatest(S) == CHOOSE v \in S : \A w \in S : w <= v
Least(S) == CHOOSE v \in S : \A w \in S : v <= w

\* get_version: the last version in the file, or the first one that is newer than
\* the current one; -1 if there is no such file.
GetVersion(s, format, after) ==
  LET all == Listed(s, format)
      newer == {v \in all : v > after}
  IN IF all = {} THEN -1
     ELSE IF after < 0 \/ newer = {} THEN Greatest(all) ELSE Least(newer)

\* check_versions, when the server answers: the version to go to, or an error.
CheckVersions(incremental) ==
  LET found == GetVersion(urls.version, fmt, IF incremental THEN sys["release"] ELSE -1)
  IN IF sys["release"] < 0 THEN [ret |-> "current_version_unknown", server |-> found]
     ELSE IF found < 0 THEN [ret |-> "server_connection", server |-> found]
     ELSE IF opts.requested = 0 THEN [ret |-> "ok", server |-> found]
     ELSE IF opts.requested < sys["release"] THEN [ret |-> "invalid_option", server |-> found]
     ELSE [ret |-> "ok", server |-> IF opts.requested < found THEN opts.requested ELSE found]

\* check_update: the newest release of all, whatever its format.
UpdateAvailable == sys["release"] < published[urls.version]

\* on_new_format: the format of the system is no longer the one read at the start.
OnNewFormat == sys["format"] # fmt

\* version_files_consistent.
VersionFilesConsistent == statev # Unreadable /\ sys["release"] >= statev

----------------------------------------------------------------------------
(* Addresses.                                                              *)

\* set_default_version_url and set_default_content_url.
DefaultUrls(files) ==
  [version |-> IF "version" \in files THEN "mirror" ELSE "upstream",
   content |-> IF "content" \in files THEN "mirror" ELSE "upstream"]

MirrorIsSet == etc = {"version", "content"}

----------------------------------------------------------------------------
Init ==
  \E w \in Worlds :
    /\ catalog = w.catalog /\ certs = w.certs
    /\ published = w.published /\ etc = w.etc /\ mirror = <<>>
    /\ sys = [f \in Files |-> IF f \in w.altered THEN Altered ELSE HashOf(1, f)]
    /\ suspects = w.altered
    /\ statev = 1
    /\ cache = [k \in Kinds |-> [v \in Versions |-> "none"]]
    /\ staged = [f \in Files |-> [hash |-> Absent, good |-> FALSE]]
    /\ deltas = {} /\ packs = {}
    /\ pc = "idle" /\ opts = (CHOOSE o \in Options : TRUE) /\ fmt = HashOf(1, "format")
    /\ urls = DefaultUrls(w.etc) /\ cert = "main"
    /\ current = 0 /\ server = 0 /\ load = 1 /\ retried = FALSE
    /\ updates = <<>> /\ next = 1 /\ errors = FALSE
    /\ again = FALSE /\ triggers = FALSE /\ ret = "none" /\ calm = FALSE
    /\ troubles = w.troubles

Trouble == /\ troubles > 0
           /\ troubles' = troubles - 1
           /\ calm' = FALSE
NoTrouble == UNCHANGED <<troubles, calm>>

\* goto clean_curl.
Stop(code) == pc' = "clean" /\ ret' = code

----------------------------------------------------------------------------
(* The start: options, addresses, versions.                                *)

\* parse_options and globals_init: format and addresses are read from the disk.
Globals(o) ==
  /\ opts' = o
  /\ fmt' = sys["format"]
  /\ urls' = DefaultUrls(etc)
  /\ cert' = "main"
  /\ pc' = "mirror"
  /\ again' = FALSE

\* update_main.  A command the last one replaced itself with is another matter.
Start ==
  /\ pc = "idle" /\ sys["format"] >= 0
  /\ \E o \in Options : Globals(o)
  /\ ret' = "none" /\ calm' = TRUE /\ triggers' = FALSE
  /\ UNCHANGED <<catalog, certs, world, disk, cached, versions, load, retried, installing, troubles>>

\* handle_mirror_if_stale up to its decision.
HandleMirrorIfStale ==
  /\ pc = "mirror"
  /\ \E mv \in {-1, GetVersion(urls.version, fmt, -1)},
        cv \in {-1, GetVersion("upstream", fmt, -1)} :
       /\ IF MirrorIsSet /\ (mv # GetVersion(urls.version, fmt, -1)
                             \/ cv # GetVersion("upstream", fmt, -1))
            THEN Trouble
            ELSE NoTrouble
       /\ pc' = IF ~MirrorIsSet \/ cv < 0 \/ (mv > 0 /\ cv - mv <= StaleUnset)
                  THEN "versions" ELSE "unset_content"
  /\ UNCHANGED <<catalog, certs, world, disk, cached, setup, versions, loading, installing, ending>>

\* unset_mirror_url and set_default_urls.
UnsetMirror ==
  /\ \/ /\ pc = "unset_content" /\ pc' = "unset_version"
        /\ etc' = etc \ {"content"} /\ UNCHANGED urls
     \/ /\ pc = "unset_version" /\ pc' = "versions"
        /\ etc' = etc \ {"version"} /\ urls' = DefaultUrls(etc')
  /\ UNCHANGED <<catalog, certs, published, mirror, disk, cached, opts, fmt, versions, loading,
                 installing, ending, calm, troubles>>

\* The versions are compared; the download directory is emptied.
GoToVersion ==
  /\ pc = "versions"
  /\ \/ /\ NoTrouble
        /\ LET checked == CheckVersions(opts.incremental)
           IN IF checked.ret = "ok" /\ checked.server > sys["release"]
                THEN /\ current' = sys["release"] /\ server' = checked.server
                     /\ pc' = "retrieve" /\ load' = 1 /\ retried' = FALSE /\ UNCHANGED ret
                ELSE /\ Stop(checked.ret) /\ UNCHANGED <<load, retried, versions>>
     \/ /\ Trouble
        /\ \E code \in {"server_connection", "signature", "couldnt_remove_file"} : Stop(code)
        /\ UNCHANGED <<load, retried, versions>>
  /\ UNCHANGED <<catalog, certs, world, disk, cached, setup, cert, installing, again, triggers>>

----------------------------------------------------------------------------
(* The manifests.  Each is loaded from the cache, or from the server if it *)
(* is not there, verified, and once more from the server if it is not      *)
(* what it should be.                                                      *)

Loads == <<[kind |-> "mom", version |-> current], [kind |-> "mom", version |-> server],
           [kind |-> "bundle", version |-> current], [kind |-> "bundle", version |-> server]>>
Kind == Loads[load].kind
Version == Loads[load].version
Has(v) == v \in 1..published[urls.content]

NotLoaded == Stop(IF Kind = "mom" THEN "couldnt_load_mom" ELSE "recurse_manifest")

\* retrieve_manifest and try_manifest_delta_download: what is in the cache is not
\* asked for; a delta that fails leaves the whole manifest to be downloaded.
Retrieve ==
  /\ pc = "retrieve"
  /\ \/ /\ cache[Kind][Version] # "none"
        /\ pc' = "verify" /\ NoTrouble /\ UNCHANGED <<cache, ret>>
     \/ /\ cache[Kind][Version] = "none" /\ Has(Version)
        /\ cache' = [cache EXCEPT ![Kind][Version] = "good"]
        /\ pc' = "verify" /\ NoTrouble /\ UNCHANGED ret
     \/ /\ cache[Kind][Version] = "none" /\ Has(Version) /\ Trouble
        /\ cache' = [cache EXCEPT ![Kind][Version] = "bad"]
        /\ pc' = "verify" /\ UNCHANGED ret
     \/ /\ cache[Kind][Version] = "none"
        /\ IF Has(Version) THEN Trouble ELSE NoTrouble
        /\ NotLoaded /\ UNCHANGED cache
  /\ UNCHANGED <<catalog, certs, world, disk, staged, deltas, packs, setup, versions, loading,
                 installing, again, triggers>>

Other(c) == IF c = "main" THEN "alt" ELSE "main"

\* Mutant: the other certificate is taken even if it is not there.
UseAltCertAnyway(c) == Other(c)

\* use_alt_cert: the other certificate, if there is one, takes the place of this one.
UseAltCert(c) == IF "alt" \in certs THEN Other(c) ELSE c

\* signature_verify: with the certificate in use, then with the other one.
SignatureVerify(v, mom, sig, c) ==
  LET by(d) == mom = "good" /\ sig = "good" /\ catalog[v].signed = d
      read == mom # "none" /\ sig # "none"
      d == IF by(c) \/ ~read THEN c ELSE UseAltCert(c)
  IN [ok |-> by(d), cert |-> d]

NextLoad ==
  IF load = Len(Loads) THEN pc' = "packs" /\ UNCHANGED <<load, retried>>
                       ELSE pc' = "retrieve" /\ load' = load + 1 /\ retried' = FALSE

\* Mutant: a manifest that is not what it should be is given up at once.
TryAgainNever == NotLoaded /\ UNCHANGED <<cache, load, retried>>

\* remove_manifest_files, at the first attempt only.
TryAgain ==
  IF retried
    THEN NotLoaded /\ UNCHANGED <<cache, load, retried>>
    ELSE /\ cache' = [k \in Kinds |-> IF k = Kind \/ (Kind = "mom" /\ k = "sig")
                                      THEN [cache[k] EXCEPT ![Version] = "none"] ELSE cache[k]]
         /\ retried' = TRUE /\ pc' = "retrieve" /\ UNCHANGED <<load, ret>>

\* mom_signature_verify with the signature of the cache, then with one downloaded:
\* sig is what is there in the end.
MomSignatureVerify(sig, downloaded) ==
  LET mom == cache["mom"][Version]
      first == SignatureVerify(Version, mom, sig, cert)
  IN IF first.ok \/ downloaded = "none" THEN first
     ELSE SignatureVerify(Version, mom, downloaded, first.cert)

\* load_mom, the manifest retrieved: one that cannot be parsed is not looked at further.
VerifyMom ==
  /\ pc = "verify" /\ Kind = "mom"
  /\ LET sig == cache["sig"][Version]
     IN \E downloaded \in {"good", "bad", "none"}, parsed \in BOOLEAN :
          LET verified == MomSignatureVerify(sig, downloaded)
              asked == parsed /\ ~MomSignatureVerify(sig, "none").ok
          IN /\ cache["mom"][Version] = "good" => parsed
             /\ asked /\ downloaded # "none" => Has(Version)
             /\ ~asked => downloaded = "none"
             /\ IF asked /\ Has(Version) /\ downloaded # "good" THEN Trouble ELSE NoTrouble
             /\ cert' = IF parsed THEN verified.cert ELSE cert
             /\ IF parsed /\ verified.ok
                  THEN /\ cache' = [cache EXCEPT !["sig"][Version] =
                                      IF asked THEN downloaded ELSE @]
                       /\ NextLoad /\ UNCHANGED ret
                  ELSE TryAgain
  /\ UNCHANGED <<catalog, certs, world, disk, staged, deltas, packs, setup, versions,
                 installing, again, triggers>>

\* load_manifest with verify_bundle_hash.
VerifyBundle ==
  /\ pc = "verify" /\ Kind = "bundle"
  /\ IF cache["bundle"][Version] = "good"
       THEN NextLoad /\ UNCHANGED <<cache, ret>>
       ELSE TryAgain
  /\ UNCHANGED <<catalog, certs, world, disk, staged, deltas, packs, setup, versions, cert,
                 installing, again, triggers, calm, troubles>>

----------------------------------------------------------------------------
(* Packs, deltas and full files.                                           *)

Changed == {f \in FilesOf(server) : HashOf(server, f) # HashOf(current, f)}
Copy(f, good) == [hash |-> HashOf(server, f), good |-> good]
Stage(S, good) == [f \in Files |-> IF f \in S THEN Copy(f, good) ELSE staged[f]]

\* download_subscribed_packs: the marker of a pack tells that it was extracted; a
\* pack that cannot be had, or not be extracted to its end, is done without.
DownloadPacks ==
  /\ pc = "packs" /\ pc' = "list"
  /\ \/ /\ <<current, server>> \in packs \/ ~Has(server)
        /\ NoTrouble /\ UNCHANGED <<staged, deltas, packs>>
     \/ /\ <<current, server>> \notin packs /\ Has(server)
        /\ NoTrouble
        /\ staged' = Stage(Changed \intersect PackFiles, TRUE)
        /\ deltas' = deltas \union
             {[file |-> f, from |-> HashOf(current, f), to |-> HashOf(server, f)] :
                f \in Changed \intersect DeltaFiles \intersect FilesOf(current)}
        /\ packs' = packs \union {<<current, server>>}
     \/ /\ <<current, server>> \notin packs /\ Has(server) /\ Trouble
        /\ \E S \in SUBSET (Changed \intersect PackFiles) : staged' = Stage(S, FALSE)
        /\ UNCHANGED <<deltas, packs>>
  /\ UNCHANGED <<catalog, certs, world, disk, cache, setup, versions, loading, installing, ending>>

\* apply_deltas: not where a staged copy is there already, nor to a file that is
\* not the one the delta was made from.
Patched(d) == /\ staged[d.file].hash # d.to
              /\ HashOf(current, d.file) = d.from /\ sys[d.file] = d.from
ApplyDeltas(f) ==
  LET usable == {d \in deltas : d.file = f /\ Patched(d)}
  IN IF usable = {} THEN staged[f]
     ELSE [hash |-> (CHOOSE d \in usable : \A e \in usable : e.to <= d.to).to, good |-> TRUE]

\* is_installed_and_verified: of files whose hash stayed the same.
InstalledAndVerified(f) == sys[f] = HashOf(server, f)

\* Mutant: what the new version does not have any more is not removed.
InUpdateListIfThere(f) ==
  /\ HashOf(server, f) # Absent
  /\ \/ HashOf(current, f) = Absent
     \/ /\ ChangeOf(server, f) > ChangeOf(current, f)
        /\ ~(HashOf(server, f) = HashOf(current, f) /\ InstalledAndVerified(f))

\* create_update_list: new files, files of a later version, and deleted ones.
InUpdateList(f) ==
  IF HashOf(server, f) = Absent THEN HashOf(current, f) # Absent
  ELSE \/ HashOf(current, f) = Absent
       \/ /\ ChangeOf(server, f) > ChangeOf(current, f)
          /\ ~(HashOf(server, f) = HashOf(current, f) /\ InstalledAndVerified(f))

\* A list sorted by file name.
Place(f) == CHOOSE i \in DOMAIN FileOrder : FileOrder[i] = f
InOrder(S) == {s \in Bijection(1..Cardinality(S), S) :
                 \A i, j \in DOMAIN s : i < j => Place(s[i]) < Place(s[j])}

\* The deltas are applied and removed, the list of files is made and sorted.
CreateUpdateList ==
  /\ pc = "list" /\ pc' = "download"
  /\ staged' = [f \in Files |-> ApplyDeltas(f)]
  /\ deltas' = {}
  /\ updates' \in InOrder({f \in Files : InUpdateList(f)})
  /\ next' = 1 /\ errors' = FALSE
  /\ UNCHANGED <<catalog, certs, world, disk, cache, packs, setup, versions, loading, ending,
                 calm, troubles>>

Updated == {updates[i] : i \in DOMAIN updates}

\* Mutant: a staged copy is made use of as it is.
GetCachedFullfileAsItIs(f) == staged[f].hash = HashOf(server, f)

\* get_cached_fullfile: a staged copy is verified before it is made use of.
GetCachedFullfile(f) == staged[f] = Copy(f, TRUE)

Wanted == {f \in Updated \intersect FilesOf(server) : ~GetCachedFullfile(f)}

\* download_fullfiles; update_loop goes no further with --download.
DownloadFullfiles ==
  /\ pc = "download"
  /\ \/ /\ \A f \in Wanted : Has(ChangeOf(server, f))
        /\ NoTrouble
        /\ staged' = Stage(Wanted, TRUE)
        /\ IF opts.download THEN Stop("ok") ELSE pc' = "stage" /\ UNCHANGED ret
     \/ /\ Wanted # {}
        /\ IF \A f \in Wanted : Has(ChangeOf(server, f)) THEN Trouble ELSE NoTrouble
        /\ \E S \in SUBSET Wanted : staged' = Stage(S, TRUE)
        /\ Stop("couldnt_download_file")
  /\ UNCHANGED <<catalog, certs, world, disk, cache, deltas, packs, setup, versions, loading,
                 installing, again, triggers>>

----------------------------------------------------------------------------
(* The installation and what follows.                                      *)

\* stage_files: nothing is put in place before everything is staged.  Files are regular
\* ones here, in directories that are right: what staging does to the system where they
\* are not (verify_fix_path, file_type_changed) is the subject of RootInstall.
StageFiles ==
  /\ pc = "stage"
  /\ \/ /\ pc' = "install" /\ suspects' = suspects \union Updated
        /\ NoTrouble /\ UNCHANGED ret
     \/ Trouble /\ Stop("couldnt_rename_file") /\ UNCHANGED suspects
  /\ UNCHANGED <<catalog, certs, world, sys, statev, cached, setup, versions, loading, installing,
                 again, triggers>>

\* rename_all_files_to_final: a file that cannot be put in place is passed over.
InstallFile ==
  /\ pc = "install" /\ next <= Len(updates)
  /\ LET f == updates[next]
     IN \/ /\ sys' = [sys EXCEPT ![f] = IF HashOf(server, f) = Absent THEN Absent
                                        ELSE IF staged[f].good THEN staged[f].hash
                                        ELSE Altered]
           /\ NoTrouble /\ UNCHANGED errors
        \/ Trouble /\ errors' = TRUE /\ UNCHANGED sys
  /\ next' = next + 1
  /\ UNCHANGED <<catalog, certs, world, statev, suspects, cached, pc, setup, versions, loading,
                 updates, ending>>

\* update_device_latest_version: the file is emptied and then written, and whether it
\* could be opened or written does not matter.
Record ==
  /\ pc = "install" /\ next > Len(updates)
  /\ IF errors
       THEN Stop("couldnt_rename_file") /\ NoTrouble /\ UNCHANGED <<statev, suspects>>
       ELSE /\ pc' = "post"
            /\ suspects' = suspects \ Updated
            /\ \/ statev' = server /\ NoTrouble
               \/ Trouble /\ statev' \in {statev, Unreadable}
            /\ UNCHANGED ret
  /\ UNCHANGED <<catalog, certs, world, sys, cached, setup, versions, loading, installing, again,
                 triggers>>

\* Whether another update is needed: newer tells whether the server has a version that
\* is newer than the one now installed.
UpdateOnceMore(newer) ==
  \/ opts.incremental /\ newer
  \/ OnNewFormat /\ (opts.requested = 0 \/ opts.requested > sys["release"])

\* update_triggers: the triggers still run when it returns, or not.
TriggersLeft(block) == IF PostUpdate THEN block ELSE ~block

\* scripts_run_post_update, once it is known whether another update is needed.
PostUpdateScripts ==
  /\ pc = "post"
  /\ LET checked == CheckVersions(FALSE)
     IN \E newer \in {checked.ret = "ok" /\ checked.server > sys["release"], FALSE} :
          /\ IF newer = (checked.ret = "ok" /\ checked.server > sys["release"])
               THEN NoTrouble ELSE Trouble
          /\ again' = UpdateOnceMore(newer)
          /\ triggers' = TriggersLeft(UpdateOnceMore(newer))
  /\ Stop("ok")
  /\ UNCHANGED <<catalog, certs, world, disk, cached, setup, versions, loading, installing>>

\* clean_cachedir: what belongs to the version installed stays, and to the one before.
CleanCachedir ==
  /\ staged' = [f \in Files |-> [hash |-> Absent, good |-> FALSE]]
  /\ deltas' = {} /\ packs' = {}
  /\ cache' = [k \in Kinds |-> [v \in Versions |->
                 IF v \in {sys["release"], sys["release"] - 1} /\ cache["mom"][sys["release"]] # "none"
                 THEN cache[k][v] ELSE "none"]]

\* The variables of the process are no more.
Gone ==
  /\ pc' = "idle"
  /\ current' = 0 /\ server' = 0 /\ load' = 1 /\ retried' = FALSE /\ cert' = "main"
  /\ updates' = <<>> /\ next' = 1 /\ errors' = FALSE /\ again' = FALSE

\* Mutant: the version files are not compared.
FinishAnyway ==
  /\ pc = "clean"
  /\ IF opts.keepcache THEN UNCHANGED cached ELSE CleanCachedir
  /\ IF again /\ ret = "ok"
       THEN Globals(opts) /\ UNCHANGED <<versions, load, retried, installing, ret>>
       ELSE Gone /\ UNCHANGED <<setup, ret>>
  /\ UNCHANGED <<catalog, certs, world, disk, triggers, calm, troubles>>

\* The end of execute_update_extra: the command replaces itself, or returns.
Finish ==
  /\ pc = "clean"
  /\ IF opts.keepcache THEN UNCHANGED cached ELSE CleanCachedir
  /\ IF again /\ ret = "ok" /\ VersionFilesConsistent
       THEN Globals(opts) /\ UNCHANGED <<versions, load, retried, installing, ret>>
       ELSE /\ Gone /\ UNCHANGED setup
            /\ ret' = IF again /\ ret = "ok" THEN "current_version_unknown" ELSE ret
  /\ UNCHANGED <<catalog, certs, world, disk, triggers, calm, troubles>>

\* The command is killed: what it was writing, to the cache or to the version file, is
\* incomplete.
Crash ==
  /\ pc # "idle" /\ Trouble
  /\ Gone /\ ret' = "killed"
  /\ IF pc = "retrieve" /\ cache[Kind][Version] = "none"
       THEN cache' \in {cache, [cache EXCEPT ![Kind][Version] = "bad"]}
       ELSE UNCHANGED cache
  /\ \/ pc = "packs" /\ \E S \in SUBSET (Changed \intersect PackFiles) : staged' = Stage(S, FALSE)
     \/ pc = "download" /\ \E f \in Wanted : staged' = Stage({f}, FALSE)
     \/ UNCHANGED staged
  /\ \/ /\ pc = "install" /\ next > Len(updates) /\ ~errors
        /\ statev' \in {Unreadable, server}
     \/ UNCHANGED statev
  /\ UNCHANGED <<catalog, certs, world, sys, suspects, deltas, packs, setup, triggers>>

----------------------------------------------------------------------------
(* What happens beside it.                                                 *)

\* A release is published, or copied to the mirror.
Publish ==
  /\ Trouble
  /\ \E s \in Servers :
       /\ published[s] < (IF s = "mirror" THEN published["upstream"] ELSE Len(catalog))
       /\ published' = [published EXCEPT ![s] = @ + 1]
  /\ UNCHANGED <<catalog, certs, etc, mirror, disk, cached, pc, setup, versions, loading, installing,
                 ending>>

\* swupd mirror --set and --unset.
SetMirrorUrl == <<[add |-> "version"], [add |-> "content"]>>
UnsetMirrorUrl == <<[remove |-> "content"], [remove |-> "version"]>>
MirrorStart ==
  /\ Trouble /\ mirror = <<>>
  /\ mirror' \in {SetMirrorUrl, UnsetMirrorUrl}
  /\ UNCHANGED <<catalog, certs, published, etc, disk, cached, pc, setup, versions, loading,
                 installing, ending>>

\* It writes or removes one file after the other.
MirrorStep ==
  /\ mirror # <<>> /\ mirror' = Tail(mirror)
  /\ LET step == Head(mirror)
     IN etc' = IF "add" \in DOMAIN step THEN etc \union {step.add} ELSE etc \ {step.remove}
  /\ calm' = FALSE
  /\ UNCHANGED <<catalog, certs, published, disk, cached, pc, setup, versions, loading,
                 installing, ending, troubles>>

\* Update triggers started without waiting for them come to their end.
TriggersDone ==
  /\ triggers /\ triggers' = FALSE
  /\ UNCHANGED <<catalog, certs, world, disk, cached, pc, setup, versions, loading, installing,
                 again, ret, calm, troubles>>

----------------------------------------------------------------------------
RunStep ==
  \/ HandleMirrorIfStale \/ UnsetMirror \/ GoToVersion
  \/ Retrieve \/ VerifyMom \/ VerifyBundle
  \/ DownloadPacks \/ CreateUpdateList \/ DownloadFullfiles
  \/ StageFiles \/ InstallFile \/ Record \/ PostUpdateScripts \/ Finish

Next == Start \/ RunStep \/ Crash \/ Publish \/ MirrorStart \/ MirrorStep \/ TriggersDone

Spec == Init /\ [][Next]_vars

\* Downloads time out and every loop of the command goes through a list.
FairSpec == Spec /\ WF_vars(RunStep)

----------------------------------------------------------------------------
ControlPoints == {"idle", "mirror", "unset_content", "unset_version", "versions", "retrieve",
                  "verify", "packs", "list", "download", "stage", "install", "post", "clean"}

\* Every variable has its type.
TypeOK ==
  /\ certs \subseteq Certificates
  /\ published \in [Servers -> Versions] /\ etc \subseteq {"version", "content"}
  /\ DOMAIN sys = Files /\ suspects \subseteq Files /\ statev \in {Unreadable} \union Versions
  /\ cache \in [Kinds -> [Versions -> {"none", "good", "bad"}]]
  /\ DOMAIN staged = Files /\ packs \subseteq Versions \X Versions
  /\ pc \in ControlPoints /\ opts \in Options
  /\ urls \in [version : Servers, content : Servers] /\ cert \in certs
  /\ current <= Len(catalog) /\ server \in 0..Len(catalog)
  /\ load \in DOMAIN Loads /\ retried \in BOOLEAN
  /\ Updated \subseteq Files /\ next \in 1..Len(updates) + 1 /\ errors \in BOOLEAN
  /\ again \in BOOLEAN /\ triggers \in BOOLEAN /\ calm \in BOOLEAN

\* update: whatever the cache, the packs and the servers brought, what an update puts in
\* place is what the version it announced says, and the system never goes back to an
\* older version than it has (update.c check_versions, manifest.c load_manifest).
OnlyAnnounced ==
  [][ \A f \in Files : sys'[f] # sys[f] =>
        sys'[f] = HashOf(server, f) /\ sys'["release"] >= sys["release"] ]_vars

\* update: once a run is over and says that all is well, only a file of an installation
\* that was cut short earlier is not that of the version the system is at
\* (update.c create_update_list).
OnlySuspectsLeft ==
  pc = "idle" /\ ret = "ok" =>
    \E v \in Versions : \A f \in Files \ suspects : sys[f] = HashOf(v, f)

\* Everything a run may ask the servers for is there, and can be verified.
Served ==
  /\ published[urls.content] >= published[urls.version]
  /\ published[urls.content] >= sys["release"]
  /\ GetVersion(urls.version, sys["format"], -1) > 0
  /\ \A v \in Versions : catalog[v].signed \in certs /\ HashOf(v, "release") >= v

\* update: a run that nothing disturbs succeeds, whatever killed runs left in the cache,
\* and takes the system, over every change of format on the way, to where check-update
\* has nothing newer, if its os-release and its format are those of one release
\* (update.c execute_update_extra, check_update.c check_update).
ReachesNewest ==
  pc = "idle" /\ calm /\ Served /\ opts.requested = 0
    /\ sys["release"] # Altered =>
    /\ ret = "ok"
    /\ ~opts.download /\ sys["format"] = HashOf(sys["release"], "format") => ~UpdateAvailable

\* update: every update ends: it does not replace itself for ever (helpers.c
\* version_files_consistent).
RunEnds == pc # "idle" ~> pc = "idle"

\* update.c:480, of a second update: it is determined beforehand "so the scripts block":
\* no update starts while the triggers of the one before still run.
ScriptsBlock == [][ pc = "clean" /\ pc' = "mirror" => ~triggers ]_vars
=============================================================================

------------------------------ MODULE ThirdParty ------------------------------
(***************************************************************************)
(* The 3rd-party repositories of src/3rd_party: repo.ini, the content and  *)
(* the exported binaries of every repository, and the commands that work   *)
(* on one repository after the other by pointing the global variables of   *)
(* swupd (path prefix, content url, certificate) at it.  A command may be  *)
(* killed, and one call of it may fail.  How the content of one repository *)
(* is put in place is the subject of RootInstall and BundleManager; here   *)
(* it is one step.                                                         *)
(***************************************************************************)
EXTENDS Naturals, Sequences, FiniteSets

CONSTANTS
  Names,       \* names of repositories, as typed by a user
  Lower,       \* their lower-case forms
  Urls,
  Catalog,     \* per url a sequence of versions; a version gives every bundle its
               \* entries: per file the content, None if it is deleted, whether it
               \* is exported, and since when it is so (last_change)
  Rank,        \* the place of a bundle among the equal entries of a file
  FileOrder,   \* the binaries, in the order of their names
  Base,        \* the base name of a binary: the name of its wrapper script
  Commands,    \* what users ask for: see Start
  Core,        \* os-core
  AllRepos,    \* no repository is named
  Main,        \* the path prefix of the system itself
  None,
  FaultBudget, \* bound: calls that fail
  CrashBudget, \* bound: commands killed
  TemplateBudget \* bound: new versions of swupd with another SCRIPT_TEMPLATE

Files == {FileOrder[i] : i \in DOMAIN FileOrder}
Bases == {Base[f] : f \in Files}
BundlesOf(u, v) == DOMAIN Catalog[u][v]
AllBundles == UNION {UNION {BundlesOf(u, v) : v \in DOMAIN Catalog[u]} : u \in Urls}

----------------------------------------------------------------------------
(* What the repositories publish.                                          *)

\* The bundles whose manifests have an entry for a file, and those that do not delete it.
Holders(u, v, bundles, f) ==
  {b \in bundles \intersect BundlesOf(u, v) : f \in DOMAIN Catalog[u][v][b]}
Keepers(u, v, bundles, f) ==
  {b \in Holders(u, v, bundles, f) : Catalog[u][v][b][f].content # None}

\* consolidate_files: the entry that is kept of those for one file.  A file that one
\* bundle has is there; of entries that are alike the older one is kept, of deletions
\* the newer one, and between equals the order of the list decides.  Whether a file is
\* exported is never looked at.  (Of one version all entries have the same content: see
\* ThirdPartyAssumption.)
Sooner(u, v, f, b, c) ==
  LET x == Catalog[u][v][b][f]
      y == Catalog[u][v][c][f]
  IN x.since < y.since \/ (x.since = y.since /\ Rank[b] <= Rank[c])
Entry(u, v, bundles, f) ==
  LET keepers == Keepers(u, v, bundles, f)
      holders == Holders(u, v, bundles, f)
  IN IF keepers # {}
       THEN Catalog[u][v][CHOOSE b \in keepers : \A c \in keepers : Sooner(u, v, f, b, c)][f]
       ELSE Catalog[u][v][CHOOSE b \in holders : \A c \in holders : Sooner(u, v, f, c, b)][f]

\* The consolidated list: its files, those that are not deleted, and those of either kind
\* that are exported.
Listed(u, v, bundles) == {f \in Files : Holders(u, v, bundles, f) # {}}
FilesOf(u, v, bundles) == {f \in Files : Keepers(u, v, bundles, f) # {}}
Exported(u, v, bundles) == {f \in FilesOf(u, v, bundles) : Entry(u, v, bundles, f).exported}
Deleted(u, v, bundles) == Listed(u, v, bundles) \ FilesOf(u, v, bundles)
DeletedExports(u, v, bundles) ==
  {f \in Deleted(u, v, bundles) : Entry(u, v, bundles, f).exported}

SameContent(u, v, w, bundles, f) ==
  /\ f \in FilesOf(u, v, bundles) <=> f \in FilesOf(u, w, bundles)
  /\ Entry(u, v, bundles, f).content = Entry(u, w, bundles, f).content

ASSUME ThirdPartyAssumption ==
  /\ Lower \in [Names -> Names]
  /\ \A n \in Names : Lower[Lower[n]] = Lower[n]
  /\ FileOrder \in Seq(Files)
  /\ \A c \in Commands : c.op \in {"add", "remove"} => c.repo \in Names
  /\ \A c \in Commands : c.op = "add" => c.url \in Urls
  /\ None \notin Commands
  /\ Main \notin Names /\ AllRepos \notin Names /\ None \notin Names
  /\ \A u \in Urls : Len(Catalog[u]) \in {1, 2} /\ DOMAIN Catalog[u] = 1..Len(Catalog[u])
  /\ \A u \in Urls : \A v \in DOMAIN Catalog[u] : Core \in BundlesOf(u, v)
  /\ Rank \in [AllBundles -> Nat] /\ \A b, c \in AllBundles : Rank[b] = Rank[c] => b = c
  /\ \A u \in Urls : \A v \in DOMAIN Catalog[u] : \A b \in BundlesOf(u, v) :
       \A f \in DOMAIN Catalog[u][v][b] : Catalog[u][v][b][f].since \in Nat
  /\ \A u \in Urls : \A v \in DOMAIN Catalog[u] : \A f \in Files :
       \A b, c \in Keepers(u, v, AllBundles, f) :
         Catalog[u][v][b][f].content = Catalog[u][v][c][f].content
  /\ \A u \in Urls : \A bundles \in SUBSET AllBundles : \A v, w \in DOMAIN Catalog[u] :
       \A f \in Listed(u, v, bundles) \intersect Listed(u, w, bundles) :
         v < w /\ ~SameContent(u, v, w, bundles, f) =>
           Entry(u, v, bundles, f).since < Entry(u, w, bundles, f).since
  /\ FaultBudget \in Nat /\ CrashBudget \in Nat /\ TemplateBudget \in Nat

\* What a catalog has to satisfy besides: a binary is exported or it is not.  A bundle that
\* has an exported binary as a plain file does not get its entry preferred to the one
\* that exports it; and an update takes no export back, nor does it bring one without
\* another content.  third_party_update_wrapper_script and third_party_remove_binary do
\* not look at files whose entry does not export them, and create_update_list not at
\* flags, so that scripts would stay whatever becomes of their binaries.
ExportsKept ==
  \A u \in Urls : \A bundles \in SUBSET AllBundles : \A v \in DOMAIN Catalog[u] :
    /\ \A some \in SUBSET bundles : Exported(u, v, some) \subseteq Exported(u, v, bundles)
    /\ \A w \in DOMAIN Catalog[u] : v < w =>
         /\ \A f \in Exported(u, v, bundles) \intersect Listed(u, w, bundles) :
              Entry(u, w, bundles, f).exported
         /\ \A f \in Exported(u, w, bundles) \intersect FilesOf(u, v, bundles) :
              f \in Exported(u, v, bundles) \/ ~SameContent(u, v, w, bundles, f)

----------------------------------------------------------------------------
VARIABLES
  ini,      \* the sections of repo.ini: names and urls
  home,     \* per name: the version and the bundles of its content, version 0 if none
  disk,     \* per path prefix: the binaries of repositories on disk
  script,   \* per base name: the binary its wrapper script runs, or None
  template, \* whether the template file holds the template of this swupd
  latest,   \* per url: the latest version published
  cmd,      \* the command that runs, None between commands
  pc,       \* its control point
  todo,     \* repositories, or bundles, still to be worked on
  cur,      \* the repository it works on
  place,    \* globals.path_prefix
  url,      \* globals.content_url and version_url
  post,     \* the files the post-processing function is called with
  listed,   \* the static ret_code of list_repo_bundles
  ret,      \* ret_code of the command
  faults, crashes, upgrades

disks == <<ini, home, disk, script, template>>
locals == <<cmd, pc, todo, cur, place, url, post, listed, ret>>
rest == <<latest, faults, crashes, upgrades>>
vars == <<disks, locals, rest>>

----------------------------------------------------------------------------
(* repo.ini.                                                               *)

\* third_party_get_repos: section names are turned to lower case, a section that
\* is there twice is one repository with the last url.
Repos == [i \in DOMAIN ini |-> [name |-> Lower[ini[i].name], url |-> ini[i].url]]
RepoNames == {Repos[i].name : i \in DOMAIN Repos}
UrlOf(n) == LET last == CHOOSE i \in DOMAIN Repos : /\ Repos[i].name = n
                                                    /\ \A j \in DOMAIN Repos :
                                                         Repos[j].name = n => j <= i
            IN Repos[last].url

\* add_repo refuses a name and a url that are there already.
Taken(n, u) == n \in RepoNames \/ \E m \in RepoNames : UrlOf(m) = u

\* list_remove.
Without(n, repos) ==
  LET first[i \in 0..Len(repos)] ==
        IF i = 0 THEN <<>>
        ELSE IF repos[i].name = n THEN first[i - 1] ELSE Append(first[i - 1], repos[i])
  IN first[Len(repos)]

NamesInOrder == [i \in DOMAIN Repos |-> Repos[i].name]

----------------------------------------------------------------------------
(* The content that is in place.                                           *)

Content(version, bundles) == [version |-> version, bundles |-> bundles]
NoContent == Content(0, {})
HasContent(n) == home[n] # NoContent \/ disk[n] # {}

\* third_party_remove_repo_directory.
RemoveRepoDirectory(n) ==
  /\ home' = [home EXCEPT ![n] = NoContent]
  /\ disk' = [disk EXCEPT ![n] = {}]

----------------------------------------------------------------------------
(* Wrapper scripts.  A function that is called with a file returns the     *)
(* scripts there are then, and a result.                                   *)

Wrapper(n, f) == [repo |-> n, file |-> f, fresh |-> TRUE]

\* third_party_create_wrapper_script for the files of a newly installed bundle.
CreateWrapper(f, scripts) ==
  IF f \notin post.exported THEN [scripts |-> scripts, ret |-> "ok"]
  ELSE IF scripts[Base[f]] # None THEN [scripts |-> scripts, ret |-> "unexpected_condition"]
  ELSE [scripts |-> [scripts EXCEPT ![Base[f]] = Wrapper(place, f)], ret |-> "ok"]

\* third_party_update_wrapper_script: whoever owns the script that is there.  That there
\* is none to be removed is an error.
UpdateScript(n, exported, deleted, f, scripts) ==
  IF f \notin exported THEN [scripts |-> scripts, ret |-> "ok"]
  ELSE IF f \in disk[n]
    THEN [scripts |-> [scripts EXCEPT ![Base[f]] = Wrapper(n, f)], ret |-> "ok"]
  ELSE IF f \in deleted
    THEN [scripts |-> [scripts EXCEPT ![Base[f]] = None],
          ret |-> IF scripts[Base[f]] = None THEN "couldnt_remove_file" ELSE "ok"]
  ELSE [scripts |-> scripts, ret |-> "ok"]
UpdateWrapper(f, scripts) == UpdateScript(place, post.exported, post.deleted, f, scripts)

\* Mutant: the script is kept when the binary is gone.
RemoveBinaryNever(f, scripts) ==
  [scripts |-> IF f \in post.exported /\ f \in disk[cur]
                 THEN [scripts EXCEPT ![Base[f]] = None] ELSE scripts,
   ret |-> "ok"]

\* third_party_remove_binary: a script goes when its binary is gone.
RemoveBinary(f, scripts) ==
  [scripts |-> IF f \in post.exported /\ f \notin disk[cur]
                 THEN [scripts EXCEPT ![Base[f]] = None] ELSE scripts,
   ret |-> "ok"]

\* remove_bundle_binaries: then the scripts of the files that other bundles keep
\* but do not export.
RemoveBundleBinaries(f, scripts) ==
  IF f \in post.unexported
    THEN [scripts |-> [scripts EXCEPT ![Base[f]] = None], ret |-> "ok"]
    ELSE RemoveBinary(f, scripts)

\* regenerate_all_wrapper_scripts: the whole list of the next repository, deleted
\* entries included.
CreateAnew(f, scripts) ==
  LET n == Head(todo)
      u == UrlOf(n)
      deleted == DeletedExports(u, home[n].version, home[n].bundles)
  IN UpdateScript(n, Exported(u, home[n].version, home[n].bundles) \union deleted, deleted,
                  f, scripts)

Proc(what, f, scripts) ==
  CASE what = "create" -> CreateWrapper(f, scripts)
    [] what = "update" -> UpdateWrapper(f, scripts)
    [] what = "remove" -> RemoveBinary(f, scripts)
    [] what = "remove_bundle" -> RemoveBundleBinaries(f, scripts)
    [] what = "regenerate" -> CreateAnew(f, scripts)

ProcessFile(what, f, before) ==
  LET done == Proc(what, f, before.scripts)
  IN [scripts |-> done.scripts, ret |-> IF done.ret = "ok" THEN before.ret ELSE done.ret]

\* third_party_process_files: the files in the order of the list; the last error is
\* the result.
ProcessFiles(what) ==
  LET after[i \in 0..Len(FileOrder)] ==
        IF i = 0 THEN [scripts |-> script, ret |-> "ok"]
                 ELSE ProcessFile(what, FileOrder[i], after[i - 1])
  IN after[Len(FileOrder)]

----------------------------------------------------------------------------
Idle == cmd = None
ToPost(exported, deleted, unexported) ==
  [exported |-> exported, deleted |-> deleted, unexported |-> unexported]
NoPost == ToPost({}, {}, {})

Init ==
  /\ ini = <<>>
  /\ home = [n \in Names |-> NoContent]
  /\ disk = [n \in Names \union {Main} |-> {}]
  /\ script = [b \in Bases |-> None]
  /\ template = FALSE
  /\ latest = [u \in Urls |-> 1]
  /\ cmd = None /\ pc = "idle" /\ todo = <<>> /\ cur = None
  /\ place = Main /\ url = None /\ post = NoPost /\ listed = "no" /\ ret = "ok"
  /\ faults = FaultBudget /\ crashes = CrashBudget /\ upgrades = TemplateBudget

\* Of an exit code it matters here whether it is SWUPD_OK or SWUPD_NO.
Outcome(code) == IF code \in {"ok", "no"} THEN code ELSE "failed"

Finish(code) ==
  /\ cmd' = None /\ pc' = "idle" /\ todo' = <<>> /\ cur' = None
  /\ place' = Main /\ url' = None /\ post' = NoPost /\ listed' = "no" /\ ret' = Outcome(code)

\* Bound: there are failures or kills, not both.
Fault == faults > 0 /\ faults' = faults - 1 /\ crashes = CrashBudget

\* A user starts a command that works on one repository: add and remove.
StartOne(c) ==
  /\ Idle /\ c.op \in {"add", "remove"}
  /\ cmd' = c /\ pc' = c.op /\ cur' = c.repo /\ ret' = "ok"
  /\ UNCHANGED <<disks, todo, place, url, post, listed, rest>>

\* bundle-add, bundle-remove and bundle-info take the bundles one by one.
StartBundles(c) ==
  /\ Idle /\ c.op \in {"bundle-add", "bundle-remove", "bundle-info"}
  /\ cmd' = c /\ pc' = "select" /\ todo' = c.bundles /\ ret' = "ok"
  /\ UNCHANGED <<disks, cur, place, url, post, listed, rest>>

\* The others take the repositories one by one, or the one that is named.
StartRepos(c) ==
  /\ Idle
  /\ c.op \in {"update", "repair", "clean", "diagnose", "check-update", "bundle-list", "info"}
  /\ cmd' = c /\ pc' = "next" /\ ret' = "ok"
  /\ todo' = IF c.repo = AllRepos THEN NamesInOrder ELSE <<c.repo>>
  /\ UNCHANGED <<disks, cur, place, url, post, listed, rest>>

----------------------------------------------------------------------------
(* 3rd-party add.                                                          *)

AddRefused ==
  /\ pc = "add"
  /\ IF cur \in RepoNames THEN Finish("invalid_option")
     ELSE HasContent(cur) /\ ~cmd.force /\ Finish("invalid_repository")
  /\ UNCHANGED <<disks, rest>>

\* What is left of a repository of that name goes only with --force.
AddSetUp ==
  /\ pc = "add" /\ cur \notin RepoNames
  /\ HasContent(cur) => cmd.force
  /\ \/ RemoveRepoDirectory(cur)
        /\ pc' = "import" /\ place' = cur /\ url' = cmd.url
        /\ UNCHANGED <<cmd, todo, cur, post, listed, ret, faults>>
     \/ Fault /\ RemoveRepoDirectory(cur) /\ Finish("couldnt_create_dir")
     \/ Fault /\ HasContent(cur) /\ Finish("couldnt_remove_file") /\ UNCHANGED <<home, disk>>
  /\ UNCHANGED <<ini, script, template, latest, crashes, upgrades>>

\* The certificate is not verified but imported: it is a file of os-core.
ImportCertificate ==
  /\ pc = "import"
  /\ \/ pc' = "confirm" /\ UNCHANGED <<cmd, todo, cur, place, url, post, listed, ret, faults>>
     \/ Fault /\ Finish("bad_cert")
  /\ UNCHANGED <<disks, latest, crashes, upgrades>>

\* The user accepts it or not; then the latest version is asked for.
ConfirmCertificate ==
  /\ pc = "confirm"
  /\ \/ pc' = "add_core" /\ UNCHANGED <<cmd, todo, cur, place, url, post, listed, ret, faults>>
     \/ Finish("bad_cert") /\ UNCHANGED faults
     \/ Fault /\ \E code \in {"bad_cert", "invalid_repository"} : Finish(code)
  /\ UNCHANGED <<disks, latest, crashes, upgrades>>

\* bundle_add of os-core; when it fails what there is of it is removed, and the
\* command goes on.
AddCore ==
  /\ pc = "add_core"
  /\ \/ /\ home' = [home EXCEPT ![place] = Content(latest[url], {Core})]
        /\ disk' = [disk EXCEPT ![place] = FilesOf(url, latest[url], {Core})]
        /\ UNCHANGED <<ret, faults>>
     \/ /\ Fault
        /\ RemoveRepoDirectory(cur)
        /\ ret' = Outcome("couldnt_download_file")
  /\ pc' = "add_repo"
  /\ UNCHANGED <<ini, script, template, cmd, todo, cur, place, url, post, listed, latest, crashes,
                 upgrades>>

\* third_party_add_repo.  A url that another repository has is noticed only here,
\* and then the content stays.
AddRepo ==
  /\ pc = "add_repo"
  /\ \/ /\ Taken(cur, cmd.url)
        /\ Finish("invalid_option")
        /\ UNCHANGED <<ini, home, disk, faults>>
     \/ /\ ~Taken(cur, cmd.url)
        /\ ini' = Append(ini, [name |-> cur, url |-> cmd.url])
        /\ Finish(ret)
        /\ UNCHANGED <<home, disk, faults>>
     \/ /\ ~Taken(cur, cmd.url) /\ Fault
        /\ RemoveRepoDirectory(cur)
        /\ Finish("couldnt_write_file")
        /\ UNCHANGED ini
  /\ UNCHANGED <<script, template, latest, crashes, upgrades>>

----------------------------------------------------------------------------
(* Pointing the globals at a repository.                                   *)

\* third_party_set_repo needs the certificate of the content.  The urls are set
\* before it can fail, the path prefix after that.
SetRepo(n) ==
  /\ home[n].version > 0
  /\ url' = UrlOf(n) /\ place' = n

SetRepoFails(n) ==
  /\ url' = UrlOf(n) /\ UNCHANGED place
  /\ \/ home[n].version = 0 /\ UNCHANGED faults
     \/ home[n].version > 0 /\ Fault

----------------------------------------------------------------------------
(* 3rd-party remove.                                                       *)

RemoveNotFound ==
  /\ pc = "remove" /\ cur \notin RepoNames
  /\ Finish("invalid_repository")
  /\ UNCHANGED <<disks, rest>>

\* The manifests tell which binaries were exported; without them the repository
\* is removed only with --force.
RemoveLoad ==
  /\ pc = "remove" /\ cur \in RepoNames
  /\ \/ /\ SetRepo(cur)
        /\ post' = ToPost(Exported(UrlOf(cur), home[cur].version, home[cur].bundles)
                          \union DeletedExports(UrlOf(cur), home[cur].version, home[cur].bundles),
                          {}, {})
        /\ pc' = "remove_ini" /\ UNCHANGED <<cmd, todo, cur, listed, ret, faults>>
     \/ /\ SetRepoFails(cur) /\ cmd.force
        /\ ret' = "partial" /\ pc' = "remove_ini" /\ UNCHANGED <<cmd, todo, cur, post, listed>>
     \/ /\ ~cmd.force
        /\ \/ home[cur].version = 0 /\ UNCHANGED faults
           \/ home[cur].version > 0 /\ Fault
        /\ Finish("signature_failed")
  /\ UNCHANGED <<disks, latest, crashes, upgrades>>

\* Mutant: the content goes first.
RemoveIniLast ==
  /\ pc = "remove_ini"
  /\ RemoveRepoDirectory(cur)
  /\ pc' = "rewrite_ini"
  /\ UNCHANGED <<ini, script, template, cmd, todo, cur, place, url, post, listed, ret, rest>>

\* overwrite_repo_config_file: a file that cannot be opened is no error; the file is
\* truncated ...
RemoveIni ==
  /\ pc = "remove_ini"
  /\ \/ /\ todo' = [i \in DOMAIN Repos |-> Repos[i]]
        /\ ini' = <<>> /\ pc' = "rewrite_ini" /\ UNCHANGED faults
     \/ /\ Fault
        /\ pc' = "remove_dir" /\ UNCHANGED <<ini, todo>>
  /\ UNCHANGED <<home, disk, script, template, cmd, cur, place, url, post, listed, ret, latest,
                 crashes, upgrades>>

\* ... and written again without the repository, as far as it can be.
RewriteIni ==
  /\ pc = "rewrite_ini"
  /\ LET kept == Without(cur, todo)
     IN \/ /\ ini' = kept /\ todo' = <<>> /\ pc' = "remove_dir"
           /\ UNCHANGED <<cmd, cur, place, url, post, listed, ret, faults>>
        \/ /\ Fault /\ \E k \in 0..Len(kept) - 1 : ini' = SubSeq(kept, 1, k)
           /\ Finish("couldnt_write_file")
  /\ UNCHANGED <<home, disk, script, template, latest, crashes, upgrades>>

RemoveDir ==
  /\ pc = "remove_dir"
  /\ \/ RemoveRepoDirectory(cur) /\ UNCHANGED <<ret, faults>>
     \/ Fault /\ ret' = Outcome("couldnt_remove_file") /\ UNCHANGED <<home, disk>>
  /\ pc' = "remove_scripts"
  /\ UNCHANGED <<ini, script, template, cmd, todo, cur, place, url, post, listed, latest, crashes,
                 upgrades>>

\* The result of removing the scripts replaces the one of removing the content.
RemoveScripts ==
  LET removed == ProcessFiles("remove")
  IN /\ pc = "remove_scripts"
     /\ script' = removed.scripts
     /\ Finish(IF ret = "partial" THEN ret ELSE removed.ret)
     /\ UNCHANGED <<ini, home, disk, template, rest>>

----------------------------------------------------------------------------
(* Choosing the next repository.                                           *)

\* run_operation: the repository that has the bundle, if just one has; a
\* repository that cannot be set up ends the search.
Finders(b) == {n \in RepoNames : b \in BundlesOf(UrlOf(n), home[n].version)}

Select ==
  /\ pc = "select" /\ todo # <<>>
  /\ LET Skip(code) == ret' = Outcome(code) /\ todo' = Tail(todo) /\ UNCHANGED <<pc, cur>>
         Take(n) == cur' = n /\ pc' = "setup" /\ UNCHANGED <<ret, todo>>
     IN IF cmd.repo # AllRepos THEN cmd.repo \in RepoNames /\ Take(cmd.repo) /\ UNCHANGED faults
        ELSE \/ /\ \A n \in RepoNames : home[n].version > 0
                /\ IF Cardinality(Finders(Head(todo))) = 1
                     THEN \E n \in Finders(Head(todo)) : Take(n)
                   ELSE Skip(IF Finders(Head(todo)) = {} THEN "invalid_bundle"
                                                         ELSE "invalid_option")
                /\ UNCHANGED faults
             \/ /\ \E n \in RepoNames : home[n].version = 0
                /\ Skip("signature_failed") /\ UNCHANGED faults
             \/ /\ RepoNames # {} /\ Fault /\ Skip("couldnt_load_mom")
  /\ UNCHANGED <<disks, cmd, place, url, post, listed, latest, crashes, upgrades>>

SelectUnknown ==
  /\ pc \in {"select", "next"} /\ todo # <<>>
  /\ cmd.repo # AllRepos /\ cmd.repo \notin RepoNames
  /\ Finish("invalid_repository")
  /\ UNCHANGED <<disks, rest>>

\* What a command over all repositories expects of each of them: anything else
\* takes the place of an earlier result.
Expected == IF cmd.op \in {"update", "check-update"} /\ pc # "regenerate" THEN "no" ELSE "ok"

\* The result of one repository, or bundle: the globals go back to those of the
\* system only between bundles.
ByBundle == cmd.op \in {"bundle-add", "bundle-remove", "bundle-info"}
Done(code) ==
  /\ ret' = IF IF ByBundle THEN code = "ok" ELSE cmd.repo = AllRepos /\ code = Expected
              THEN ret ELSE Outcome(code)
  /\ todo' = Tail(todo)
  /\ pc' = IF ByBundle THEN "select" ELSE IF pc = "regenerate" THEN pc ELSE "next"
  /\ post' = NoPost
  /\ UNCHANGED <<cmd, cur>>
Restored == IF ByBundle THEN place' = Main /\ url' = None ELSE UNCHANGED <<place, url>>

\* Mutant: a repository that could not be set up is worked on nevertheless.
SetUpRegardless ==
  /\ pc = "setup"
  /\ \/ SetRepo(cur) /\ UNCHANGED faults
     \/ SetRepoFails(cur) /\ place # Main
  /\ pc' = "process"
  /\ UNCHANGED <<disks, cmd, todo, cur, post, listed, ret, latest, crashes, upgrades>>

SetUp ==
  /\ pc = "setup"
  /\ \/ SetRepo(cur) /\ pc' = "process" /\ UNCHANGED <<cmd, todo, cur, post, listed, ret, faults>>
     \/ /\ \/ home[cur].version = 0 /\ UNCHANGED faults
           \/ home[cur].version > 0 /\ Fault
        /\ IF ByBundle THEN place' = Main /\ url' = None
                       ELSE UNCHANGED place /\ url' = UrlOf(cur)
        /\ Done("signature_failed") /\ UNCHANGED listed
  /\ UNCHANGED <<disks, latest, crashes, upgrades>>

NextRepo ==
  /\ pc = "next" /\ todo # <<>> /\ Head(todo) \in RepoNames
  /\ cur' = Head(todo) /\ pc' = "setup"
  /\ UNCHANGED <<disks, cmd, todo, place, url, post, listed, ret, rest>>

----------------------------------------------------------------------------
(* What is done in a repository.                                           *)

Version == home[place].version
Installed == home[place].bundles

\* Nothing is changed when versions or manifests cannot be had, or, before any
\* file is put in place, when one cannot be downloaded or is refused.
ProcessFails ==
  /\ pc = "process" /\ Fault
  /\ Done("failed") /\ Restored
  /\ listed' = IF cmd.op = "bundle-list" THEN "failed" ELSE listed
  /\ UNCHANGED <<disks, latest, crashes, upgrades>>

\* add_bundle, refused: bundle_add_extra skips bundles that are installed or not
\* in the manifest, validate_binary wants no script of those names, not even one of
\* the same repository, and the user may not want files with special permissions.
AddBundleRefused ==
  /\ pc = "process" /\ cmd.op = "bundle-add"
  /\ LET b == Head(todo)
     IN \/ b \in Installed /\ Done("ok")
        \/ b \notin BundlesOf(url, Version) /\ Done("invalid_bundle")
        \/ /\ b \in BundlesOf(url, Version) \ Installed
           /\ \E f \in Exported(url, Version, {b}) : script[Base[f]] # None
           /\ Done("couldnt_create_file")
        \/ /\ b \in BundlesOf(url, Version) \ Installed
           /\ \A f \in Exported(url, Version, {b}) : script[Base[f]] = None
           /\ Done("invalid_file")
  /\ Restored
  /\ UNCHANGED <<disks, listed, rest>>

AddBundle ==
  /\ pc = "process" /\ cmd.op = "bundle-add"
  /\ LET b == Head(todo)
     IN /\ b \in BundlesOf(url, Version) \ Installed
        /\ \A f \in Exported(url, Version, {b}) : script[Base[f]] = None
        /\ home' = [home EXCEPT ![place] = Content(Version, Installed \union {b})]
        /\ disk' = [disk EXCEPT ![place] = @ \union FilesOf(url, Version, {b})]
        /\ post' = ToPost(Exported(url, Version, {b}), {}, {})
  /\ pc' = "post"
  /\ UNCHANGED <<ini, script, template, cmd, todo, cur, place, url, listed, ret, rest>>

\* remove_bundle, refused: the error is replaced by the result of
\* remove_bundle_binaries, which has nothing to do.
RemoveBundleRefused ==
  /\ pc = "process" /\ cmd.op = "bundle-remove"
  /\ Head(todo) = Core \/ Head(todo) \notin Installed
  /\ Done("ok") /\ Restored
  /\ UNCHANGED <<disks, listed, rest>>

\* A file that cannot be deleted is counted and forgotten.  filter_file_to_delete takes
\* an entry that the bundle deletes for the next one that the others have, of whatever
\* file, as long as there is one: the first is left alone, and the script of the second
\* goes unless it is exported.
RemoveBundle ==
  /\ pc = "process" /\ cmd.op = "bundle-remove"
  /\ LET b == Head(todo)
         others == Installed \ {b}
         kept == FilesOf(url, Version, others)
         gone == FilesOf(url, Version, {b}) \ kept
         unexported == {f \in Listed(url, Version, others) : ~Entry(url, Version, others, f).exported}
     IN /\ b \in Installed \ {Core}
        /\ home' = [home EXCEPT ![place] = Content(Version, others)]
        /\ \/ disk' = [disk EXCEPT ![place] = @ \ gone] /\ UNCHANGED faults
           \/ Fault /\ \E f \in gone : disk' = [disk EXCEPT ![place] = @ \ (gone \ {f})]
        /\ \E mistaken \in SUBSET unexported, left \in SUBSET DeletedExports(url, Version, {b}) :
             /\ Deleted(url, Version, {b}) = {} => mistaken = {}
             /\ post' = ToPost((Exported(url, Version, {b}) \intersect gone) \union left, {},
                               ((FilesOf(url, Version, {b}) \intersect kept)
                                \ Exported(url, Version, others)) \union mistaken)
  /\ pc' = "post"
  /\ UNCHANGED <<ini, script, template, cmd, todo, cur, place, url, listed, ret, latest, crashes,
                 upgrades>>

\* create_update_list: the entries that are new or newer, unless it is only the version
\* that is newer and what is on disk is right; and the old ones that have no successor.
UpdateList(u, v, w, bundles, there) ==
  LET Peer(f) == /\ f \in Listed(u, v, bundles)
                 /\ f \in Deleted(u, v, bundles) => f \in Deleted(u, w, bundles)
      Newer(f) == /\ Entry(u, v, bundles, f).since < Entry(u, w, bundles, f).since
                  /\ ~/\ SameContent(u, v, w, bundles, f)
                      /\ f \in there <=> f \in FilesOf(u, w, bundles)
  IN {f \in Listed(u, w, bundles) : Peer(f) => Newer(f)}
     \union (Listed(u, v, bundles) \ Listed(u, w, bundles))

\* update_repos: execute_update_extra brings the bundles to the latest version, and the
\* files it changed are post-processed; one without successor keeps its export flag.
UpToDate ==
  /\ pc = "process" /\ cmd.op = "update" /\ latest[url] <= Version
  /\ Done("ok") /\ Restored
  /\ UNCHANGED <<disks, listed, rest>>

\* The user is asked about new files with special permissions.
PermissionsRefused ==
  /\ pc = "process" /\ cmd.op = "update" /\ latest[url] > Version
  /\ Done("invalid_file") /\ Restored
  /\ UNCHANGED <<disks, listed, rest>>

UpdateRepo ==
  LET new == latest[url]
      changed == UpdateList(url, Version, new, Installed, disk[place])
      deleted == changed \ FilesOf(url, new, Installed)
  IN /\ pc = "process" /\ cmd.op = "update" /\ new > Version
     /\ home' = [home EXCEPT ![place] = Content(new, Installed)]
     /\ disk' = [disk EXCEPT ![place] = (@ \ deleted) \union (changed \ deleted)]
     /\ post' = ToPost({f \in changed : Entry(url, IF f \in Listed(url, new, Installed)
                                                     THEN new ELSE Version, Installed, f).exported},
                       deleted, {})
     /\ pc' = "post"
     /\ UNCHANGED <<ini, script, template, cmd, todo, cur, place, url, listed, ret, rest>>

\* repair_repos: the files of the installed bundles are put back, those that they delete
\* are removed, and the whole list is post-processed.
RepairRepo ==
  LET deleted == DeletedExports(url, Version, Installed)
  IN /\ pc = "process" /\ cmd.op = "repair"
     /\ disk' = [disk EXCEPT ![place] = (@ \ Deleted(url, Version, Installed))
                                        \union FilesOf(url, Version, Installed)]
     /\ post' = ToPost(Exported(url, Version, Installed) \union deleted, deleted, {})
     /\ pc' = "post"
     /\ UNCHANGED <<ini, home, script, template, cmd, todo, cur, place, url, listed, ret, rest>>

\* clean empties the cache of a repository, which is not modelled here.
CleanRepo ==
  /\ pc = "process" /\ cmd.op = "clean"
  /\ Done("ok") /\ Restored
  /\ UNCHANGED <<disks, listed, rest>>

\* diagnose says whether the files of the installed bundles are there.
DiagnoseRepo ==
  /\ pc = "process" /\ cmd.op = "diagnose"
  /\ Done(IF FilesOf(url, Version, Installed) \subseteq disk[place] THEN "ok" ELSE "no")
  /\ Restored
  /\ UNCHANGED <<disks, listed, rest>>

\* check-update says whether there is a newer version.
CheckUpdateRepo ==
  /\ pc = "process" /\ cmd.op = "check-update"
  /\ Done(IF Version < latest[url] THEN "ok" ELSE "no") /\ Restored
  /\ UNCHANGED <<disks, listed, rest>>

\* bundle-list, of all bundles or of those that a bundle includes: the result is kept
\* from one repository to the next, and an unknown bundle does not replace it.
ListRepo ==
  /\ pc = "process" /\ cmd.op = "bundle-list"
  /\ LET found == IF cmd.bundle \in {None} \union BundlesOf(url, Version)
                    THEN "ok" ELSE "invalid_bundle"
         kept == IF found # "invalid_bundle" \/ listed = "no" THEN found ELSE listed
     IN Done(kept) /\ listed' = kept
  /\ Restored
  /\ UNCHANGED <<disks, rest>>

\* info prints the addresses of a repository.
InfoRepo ==
  /\ pc = "process" /\ cmd.op = "info"
  /\ Done("ok") /\ Restored
  /\ UNCHANGED <<disks, listed, rest>>

\* bundle-info prints what the manifest of a bundle says.
InfoBundle ==
  /\ pc = "process" /\ cmd.op = "bundle-info"
  /\ Done(IF Head(todo) \in BundlesOf(url, Version) THEN "ok" ELSE "invalid_bundle")
  /\ Restored
  /\ UNCHANGED <<disks, listed, rest>>

\* The scripts.  A script that cannot be written is missing afterwards.
Post ==
  LET processed == ProcessFiles(CASE cmd.op = "bundle-add" -> "create"
                                  [] cmd.op = "bundle-remove" -> "remove_bundle"
                                  [] OTHER -> "update")
  IN /\ pc = "post"
     /\ \/ script' = processed.scripts /\ Done(processed.ret) /\ UNCHANGED faults
        \/ /\ Fault /\ cmd.op # "bundle-remove"
           /\ \E f \in post.exported :
                script' = [processed.scripts EXCEPT ![Base[f]] = None]
           /\ Done("couldnt_create_file")
     /\ Restored
     /\ UNCHANGED <<ini, home, disk, template, listed, latest, crashes, upgrades>>

----------------------------------------------------------------------------
(* The end of a command; after an update, the template of the scripts.     *)

End ==
  /\ pc \in {"select", "next"} /\ todo = <<>>
  /\ cmd.op # "update" \/ ret # "ok" \/ RepoNames = {} \/ template
  /\ Finish(ret)
  /\ UNCHANGED <<disks, rest>>

\* Mutant: the template is written before the scripts.
OutdatedFirst ==
  /\ pc = "next" /\ todo = <<>>
  /\ cmd.op = "update" /\ ret = "ok" /\ RepoNames # {} /\ ~template
  /\ todo' = NamesInOrder /\ pc' = "regenerate" /\ template' = TRUE
  /\ UNCHANGED <<ini, home, disk, script, cmd, cur, place, url, post, listed, ret, rest>>

Outdated ==
  /\ pc = "next" /\ todo = <<>>
  /\ cmd.op = "update" /\ ret = "ok" /\ RepoNames # {} /\ ~template
  /\ todo' = NamesInOrder /\ pc' = "regenerate"
  /\ UNCHANGED <<disks, cmd, cur, place, url, post, listed, ret, rest>>

\* regenerate_all_wrapper_scripts for one repository.
Regenerate ==
  /\ pc = "regenerate" /\ todo # <<>>
  /\ LET n == Head(todo)
         processed == ProcessFiles("regenerate")
     IN /\ cur' = n
        /\ \/ /\ SetRepo(n)
              /\ script' = processed.scripts
              /\ ret' = IF processed.ret = "ok" THEN ret ELSE Outcome(processed.ret)
              /\ UNCHANGED faults
           \/ SetRepoFails(n) /\ ret' = Outcome("signature_failed") /\ UNCHANGED script
  /\ todo' = Tail(todo)
  /\ UNCHANGED <<ini, home, disk, template, cmd, pc, post, listed, latest, crashes, upgrades>>

\* The template is written whatever the scripts of the repositories did.
WriteTemplate ==
  /\ pc = "regenerate" /\ todo = <<>>
  /\ \/ template' = TRUE /\ Finish(ret) /\ UNCHANGED faults
     \/ Fault /\ Finish("couldnt_write_file") /\ UNCHANGED template
  /\ UNCHANGED <<ini, home, disk, script, latest, crashes, upgrades>>

----------------------------------------------------------------------------
(* The world around.                                                       *)

Publish(u) ==
  /\ latest[u] < Len(Catalog[u])
  /\ latest' = [latest EXCEPT ![u] = @ + 1]
  /\ Idle
  /\ UNCHANGED <<disks, locals, faults, crashes, upgrades>>

\* A swupd with another SCRIPT_TEMPLATE is installed.
NewTemplate ==
  /\ Idle /\ upgrades > 0 /\ upgrades' = upgrades - 1
  /\ template' = FALSE
  /\ script' = [b \in Bases |->
       IF script[b] = None THEN None
       ELSE [repo |-> script[b].repo, file |-> script[b].file, fresh |-> FALSE]]
  /\ UNCHANGED <<ini, home, disk, locals, latest, faults, crashes>>

Kill ==
  /\ ~Idle /\ crashes > 0 /\ crashes' = crashes - 1 /\ faults = FaultBudget
  /\ Finish("killed")
  /\ UNCHANGED <<disks, latest, faults, upgrades>>

Next ==
  \/ \E c \in Commands : StartOne(c) \/ StartBundles(c) \/ StartRepos(c)
  \/ AddRefused \/ AddSetUp \/ ImportCertificate \/ ConfirmCertificate \/ AddCore \/ AddRepo
  \/ RemoveNotFound \/ RemoveLoad \/ RemoveIni \/ RewriteIni \/ RemoveDir \/ RemoveScripts
  \/ Select \/ SelectUnknown \/ NextRepo \/ SetUp
  \/ ProcessFails \/ AddBundleRefused \/ AddBundle \/ RemoveBundleRefused \/ RemoveBundle
  \/ UpToDate \/ PermissionsRefused \/ UpdateRepo \/ RepairRepo \/ Post
  \/ CleanRepo \/ DiagnoseRepo \/ CheckUpdateRepo \/ ListRepo \/ InfoRepo \/ InfoBundle
  \/ End \/ Outdated \/ Regenerate \/ WriteTemplate
  \/ (\E u \in Urls : Publish(u)) \/ NewTemplate \/ Kill

Spec == Init /\ [][Next]_vars

----------------------------------------------------------------------------
(* Properties.                                                             *)

\* Content is only ever changed in the directory of the repository that the command
\* works on, from the url of that repository, whichever repositories failed to be
\* set up before it: the globals are never those of another one, or of the system.
OnItsOwnRepo ==
  [][/\ disk'[Main] = disk[Main]
     /\ \A n \in Names : home'[n] # home[n] \/ disk'[n] # disk[n] =>
          /\ n = cur
          /\ pc = "process" => place = n /\ url = UrlOf(n)]_vars

\* A repository in repo.ini has content with os-core, so that commands can work on
\* it and remove it: whenever the command that adds or removes it is killed.
ListedReposWhole ==
  faults = FaultBudget =>
    \A n \in RepoNames : home[n].version > 0 /\ Core \in home[n].bundles

\* Between commands every wrapper script runs a binary that is on disk, unless a
\* call failed or a command was killed, for catalogs in which the entry of a file that is
\* kept exports it as soon as one of them does (ExportsKept).
ScriptsRun ==
  ExportsKept /\ Idle /\ faults = FaultBudget /\ crashes = CrashBudget =>
    \A b \in Bases : script[b] # None => script[b].file \in disk[script[b].repo]

\* Between commands the template on disk says that the scripts of the exported binaries
\* are those of this swupd: a kill while they are made again leaves the old template,
\* so that the next update does it.  One kill: a second one, between the files of an
\* update and its scripts, may find an old script that the first left behind its binary.
\* And for such catalogs only: a binary whose plain entry is kept is not looked at when
\* the scripts are made again, and would be exported by an old script once the bundle of
\* that entry is removed.
TemplateTellsTruth ==
  ExportsKept /\ Idle /\ template /\ faults = FaultBudget /\ crashes + 1 >= CrashBudget =>
    \A b \in Bases : script[b] # None =>
      LET n == script[b].repo
      IN n \in RepoNames /\ script[b].file \in disk[n]
         /\ script[b].file \in Exported(UrlOf(n), home[n].version, home[n].bundles)
           => script[b].fresh
=============================================================================

# swupd-client in TLA+

`swupd` installs and updates the bundles of a Clear Linux system. This directory
holds TLA+ models of the parts of it that are hard to test, the TLC
configurations that check them, and theorems about all of them that TLAPS proves.
Every definition is translated from the C source under `src/src`; where the code
and its own comments or manual disagree, the model follows the code, and a run
that is expected to fail shows the disagreement.

- [Inventory of the system](#inventory-of-the-system)
- [Modules](#modules)
- [Runs and their bounds](#runs-and-their-bounds)
- [Fairness](#fairness)
- [What is proved](#what-is-proved)
- [Disagreements found](#disagreements-found)
- [What is not modelled](#what-is-not-modelled)
- [Plan](#plan)

## Inventory of the system

| Component | State it keeps | Operations | What is hard | What makes it correct |
|---|---|---|---|---|
| Parallel downloads (`curl_async.c`, client `fullfile.c`) | hash map of files, libcurl multi stack, its size, list of failed files, limit of transfers, retries per file | start, enqueue, poll, end, cancel, clear; callback on a worker | worker and main thread; list edited while walked; retry, resume, errors half way | one user of a tar; every file delivered or reported; ends |
| Thread pool (`thread_pool.c`) | task list, threads | start, schedule, complete | join before reading results | no result read early |
| libcurl wrapper (`curl.c`) | static: resume failed, capath | set options, classify errors, single download | which errors are retried | bounded retries |
| Target root (`target_root.c`) | files on disk, `.update.` files, `.deleted.` directories | stage, fix parents, rename, remove | kill between two steps; links and files of the user in the way | success means installed; files replaced in one step; user files kept |
| Update (`update.c`) | versions, manifests, update list, staged files | compare, download, install, update again | an interrupted update run again; what a killed run left in the cache; servers that change meanwhile; format bump | only what was announced is installed; it converges to the newest release; updating again ends |
| bundle-add, bundle-remove (`bundle_add.c`, `bundle_remove.c`, `bundle.c`, `subscriptions.c`) | marker files, tracking directory | add, remove (`--force`, `--recursive`, `--orphans`) | transitive dependencies both ways, shared files, kill half way | dependencies stay satisfied; shared files stay; only installed bundles are tracked |
| Manifests (`manifest.c`, `manifest_parser.c`) | cached manifest files, lists of files | retrieve, verify, parse, link, consolidate | inconsistent hashes, stale caches | one entry per path, the right one |
| Start and end (`helpers.c`, `lock.c`, `statedir.c`) | lock, state directories, tracking directory | swupd_init, swupd_deinit | several processes; work done before the lock | one command at a time changes the system, and nobody disturbs it |
| Verify, repair, os-install (`verify.c`, `repair.c`, `os_install.c`, `extra_files.c`) | counters, marks on files, tree | add missing, fix, remove deleted, remove extra | one pass changes what another looked at; links in the way; a kill between two files | a repaired tree is the manifest's; diagnose agrees; nothing else is removed |
| Packs and deltas (`packs.c`, `delta.c`) | staged directory, delta directory, markers of packs | download, extract, apply | broken packs; what a killed run left | only verified content is installed |
| Versions, mirror (`version.c`, `mirror.c`) | addresses, mirror files | read versions, set, unset and drop a mirror | values of two servers mixed; no lock | a stale mirror does not hide an update |
| Third-party repositories (`3rd_party/`) | `repo.ini`, a root and state directories per repository, wrapper scripts, their template | add, remove, update, run on all | several steps, one failing or the last; global variables pointed at one repository after the other | no listed repository half there; scripts that run; no command on the wrong root |
| Clean (`clean.c`) | cached files | remove what is not in use | files in use, several processes | nothing but cache goes; current manifests stay |
| Scripts, heuristics | none | which paths are left alone | order of rules | state and config are kept |
| Reporting, configuration, helpers | none that outlives the command | | | |

They interact by calls in one process: a command calls `swupd_init` (state
directories, tracking directory, lock), loads manifests, computes lists of files,
downloads what is missing (packs, then full files, through the parallel
downloader, whose callbacks extract into the staged directory on a worker
thread), and hands the list to the target root. What survives a command is on
disk: the installed tree with the bundles' markers, the tracking directory, the
state directory with its caches and the lock file. `PROJECT.json` lists every
component with its status, and under `hazards` what is hard to test, at its line,
with the properties that watch it.

## Modules

| Module | Models |
|---|---|
| `ParallelDownload` | one download session of `curl_async.c`, the pool with one worker or none, and `download_fullfiles` with its callback |
| `DownloadSession` | what a session promises: content is staged once per hash, and success means all of it but what the client's callback called handled and lost |
| `RootInstall` | `update` from the comparison of manifests to the renamed files, on a tree with links and files of the user |
| `BundleManager` | `bundle-add` and `bundle-remove`, the tracking directory, the bundles' files |
| `Session` | several commands from `swupd_init` to `swupd_deinit`, and the `clean` command |
| `UpdateRun` | the whole `update` command with servers, mirror, cache, packs, deltas, and the update after an update |
| `Repair` | `diagnose`, `repair`, `os-install` and the old `verify` |
| `ThirdParty` | the `3rd-party` commands and the repositories they work on |
| `ParallelDownloadProofs`, `RootInstallProofs`, `BundleManagerProofs`, `SessionProofs`, `UpdateRunProofs`, `RepairProofs`, `ThirdPartyProofs` | theorems about the module named |
| `ParallelDownloadRefinement` | theorems about what a session delivers, and that it implements `DownloadSession` |
| `MC...` | the instances TLC checks |

The modules look at one another's subject as one step or as one failure: to
`UpdateRun` a parallel download brings all files or some, and an installed file is a
step (`ParallelDownload` and `RootInstall` have what happens inside); to `ThirdParty`
an update of a repository is a step (`UpdateRun`); to all of them the lock has been
taken (`Session`).

### ParallelDownload

Three parties interleave. The main thread goes through control points `pc`:
`enqueue` (`swupd_curl_parallel_download_enqueue` and the setup in
`process_download`), `enter`, `perform` and `drain` (`poll_fewer_than` and
`perform_curl_io_and_complete`, with `call` remembering who called), `join`, `scan`,
`retry` (the loop of `swupd_curl_parallel_download_end`), `cancel`, `finish` and
`clear`. libcurl is
`TransferEnds`, enabled while the main thread is in `curl_multi_perform`; it is
external and modelled from how its results are read. The worker takes a task
(`WorkerTakes`) and runs the callback (`WorkerRuns`), which writes `cb_retval`
without a lock, extracts the tar into the staged directory and unlinks the tar.

State corresponds to `struct swupd_curl_parallel_handle` and to
`struct multi_curl_file` (`hashmap`, `failed`, `max_xfer`, `mcurl_size`, `status`,
`retries`, `cb_retval`); `conn` is libcurl's view of a handle, `tar` and `staged`
are the disk, `queue` and `worker` the pool. The list of failed files is a
sequence with the position `left` counted from its end, because the loop's pointer
stays on its item while the drain prepends others.

`Handled` are the hashes whose callback returned TRUE, `staged` those whose content is
there. They are not the same: `download_successful` returns true of a tar that it could
not extract (`fullfile.c:56`), while `swupd_curl.h:114-117` wants false, so that the
download is tried again. `FailedCallbackReturns` has the answers a failed extraction may
give. What the session promises its client is told of `staged`, and what was called
handled without it is `Lost`.

### RootInstall

Paths are at most two deep: directories, files in them, links to a directory and
the os-release file, which holds the version. `update` compares the version
(`AlreadyUpToDate`), computes the list (`Compare`), downloads, stages each item
(`Stage...`, with `verify_fix_path` for a missing parent), and renames
(`Rename...`); directories that are not empty are retried last (`RemoveAgain`) and
otherwise moved to a `.deleted.` name. Every one of these is a step, and `Crash`
may follow each. The initial tree is what the old manifest installed, changed by
the user in one of the ways of `Damages`.

### BundleManager

A bundle is installed when its marker file exists, and the marker is one of its
files. A command is a first step that does all that is decided before files
change (`Add`, `RemoveNamed`, `RemoveRecursive`, `RemoveOrphans`, including
`safeguard_tracking_dir`, which treats an empty tracking directory as first use),
then one step per file in the order of the sorted list, then an end. Marks in the
tracking directory are made and removed one by one, and one that cannot be made
(`Tracks`) or removed (`Forgets`) is passed over, as `track_bundle` and
`remove_tracked` do: the bundle is removed all the same and stays tracked. `stuck` is a
history variable, the bundles of which that is so. The two
recursions over dependencies (`recurse_dependencies` downwards, `required_by`
upwards, and `add_subscriptions`) all compute what is reachable, and are written
with one operator, `Reach`, as the smallest closed set, so that facts about them
can be proved without induction.

### Session

Each process goes through the steps of `swupd_init`: `globals_init`, the clock against
the version stamp (`AdjustTime`), each state directory in turn (`CheckDir`,
`RemoveDir`, `MakeDir`), the tracking directory (`Safeguard`, `ReplaceTracking`,
`CopyMark`), `LockFile`, `InitSignature`; then one of the works done under the lock
(`Stage` and `Apply`, `Untrack` and `Delete`, the steps of `clean`), then `Deinit`. The
lock is the kernel's: `lockedBy` is given to the first that asks and goes with the
process, whichever way it ends. The state directories are a tree
(`Inside`), each absent or there with the right or the wrong mode, and what they
hold besides staged files are the `Items`, one for each kind of file the rules of
`clean` tell apart; the `Manifest.MoM` of the version installed (`current_mom`) and the
bundle manifests of that version (`current_manifest`) are two, since `clean` reads in the
first which of the second are in use, and when it is gone keeps none
(`clean.c:284-286`). A directory with the wrong mode is removed with what is in it and
made again, as `create_dir` does.

### UpdateRun

Releases are records: the format under which a server lists them, the certificate
they are signed with, and for each file its hash and the version of its last change.
`catalog` holds them all, `published` how many each server has. The control points
follow `execute_update_extra`: the stale mirror (`HandleMirrorIfStale`,
`UnsetMirror`), `GoToVersion`, four manifests each retrieved, verified and tried once
more (`Retrieve`, `VerifyMom`, `VerifyBundle`, `TryAgain`), `DownloadPacks`,
`CreateUpdateList` with the deltas, `DownloadFullfiles`, `StageFiles`, `InstallFile` per
file, `Record`, `PostUpdateScripts`, `Finish`, which may start over with the same options
(the code replaces the process by a new one). Beside it servers publish, and
the `mirror` command, which takes no lock, writes its two files. The file with the
version is truncated before it is written, so that a kill or a failing call may leave it
empty (`Unreadable`). `StageFiles` touches staged copies only; what `verify_fix_path`
may do to directories meanwhile is in `RootInstall`. The cache of
manifests, the staged files, the deltas and the markers of packs survive a kill.
`suspects` is a history variable: the files of an installation that did not end.

### Repair

`want` is the consolidated list of files (`Consolidated`, `Safe`), `sound` the files
marked `do_not_update`, `at` the place in the list. The passes of
`execute_verify_extra` are loops of one step per file: `Add...`, `Fix...`, `Remove...`,
`Extra...`. A file is put in place by `Stage` and `Rename`
(`target_root_install_single_file`), used by the first two. A copy that fails half way
(`cp`, then `tar`) leaves what it has written in a `.update.` file (`StageFails`), since
nobody knows of it who would remove it; the next copy of that file or a look for
strangers does. A path is looked at
through a link that has taken the place of its directory (`Seen`), but written
or removed only in a real directory (`InRealDir`), which is what the code does.
The counters are reduced to whether they are zero. Directories have no attributes here,
so that one whose attributes cannot be set is not told from one that is right.

### ThirdParty

`ini` is `repo.ini` in its order; `home` and `disk` are the content of each repository and
the binaries that are there; `script` the wrapper scripts by base name; `place` and `url`
the global variables that `third_party_set_repo` changes. Loops over repositories
(`NextRepo`) and over bundles (`Select`) point them at one repository after the other;
`Done` is what becomes of a result. Processing of a list of files
(`third_party_process_files`) is a function over the sorted binaries that keeps the last
error. The list it is given is the consolidated one: of the entries of several bundles
for one file `consolidate_files` keeps one (`Entry`), by what is there, the age of the
last change and the order of the list (`Sooner`, `Rank`), and never by whether the file
is exported. Deleted files are on it too, and processed.

## Runs and their bounds

| Run | Question | Bounds |
|---|---|---|
| `PD_core` | Does a session keep its files straight, and implement `DownloadSession`? | three files, two with one hash (a duplicate), two transfers at a time, two retries, one worker or none, three failing transfers or callbacks, one failing setup |
| `PD_live` | Does the session end, is one fault that is reported repaired, is the invariant of the proofs an invariant? | the default three retries, one fault, one failing `curl_multi` call, one failing setup |
| `RI_crash` | Does an update that is killed or fails half way and is run again keep its promises? | every pair of well-formed trees over two directories, an entry each and os-release; five damages; three runs, one kill, one failing call |
| `BM_commands` | Do bundles keep their dependencies, files and tracking? | os-core and three bundles, every acyclic graph (27, each need none, include or optional), three commands of all forms, one kill or failing call, on a tracking mark too |
| `SE_commands` | Does one command at a time have the system, undisturbed, and does clean take only cache? | two processes, six of the ten directories, thirty-five pairs of environment and works, one kill, one failing call |
| `UR_update` | Does an update install what it announced, and reach the newest release? | five releases with a change of format, five worlds (mirrors that lag, a missing certificate, a release without os-release), five options, two troubles in one world and one in the others: failures, kills, releases and mirror commands together |
| `RP_repair` | Do repairs repair, is diagnose right, and is nothing else removed? | twelve paths, two versions and a third of another format, eight disks, nineteen commands, three of them in a row, one kill, one failing call |
| `TP_repos` | Are repositories whole, and commands on their own repository? | two repositories of two versions, three binaries of which two share a base name and one is exported by one bundle and plain in another, seventeen commands any number of times, one failing call or one kill, one new template |
| `PD_poll_error`, `PD_extract`, `UR_scripts`, `RP_link` | the disagreements below; each is expected to be violated | as the run of the same module |

Why the bounds are enough for what is asked. Downloads: two files are needed for
the duplicate, a third to have one transfer running while another is drained and
a third retried; two retries give a first, a repeated and a last attempt; three
faults exhaust one file or hit three. Trees: a parent, an entry, a link that leads
to another directory and one path that sorts between them are what the code's
tests of parents, types and order tell apart. Three runs with one kill are a
killed run, the run after it and one that finds nothing to do. Bundles: three are
the smallest number with a chain, so that direct and transitive dependents
differ, and two of them share a file. Commands at once: a holder of the lock
and one that disturbs it are two; the six directories include one made inside
another two levels down, the one with mode 0700 and both data directories.
Releases: a change of format needs a last release of the old format
and a first of the new one, one more on each side gives an intermediate and a newer one.
Repairs: three commands are a killed one and two repairs, or two repairs and a
diagnose; the paths have one of each kind the passes tell apart. Repositories: two are
a wrong one and a right one, and commands repeat without bound. The theorems below
hold for any number.

Each property of a passing run has a mutant in `PROJECT.json`: a definition of the
model changed as a plausible bug would change the code (a dropped test, a filter
that is not applied, a wrong order), under which the run finds the property
violated. The operators marked "Mutant:" in the modules are used for nothing else.

What the passing runs show, beyond types:

- one user of `<hash>.tar` at a time (`TarExclusive`); callbacks get whole tars
  only (`CallbackOnWholeTar`); `cb_retval` is read when nobody can write it
  (`StackEmptyAtScan`); the counters and lists of a session agree (`IInv`); each file
  ends handled or on the failed list (`EveryFileAccounted`); what was handled is not
  touched again (`DeliveredIsFinal`); one broken transfer, or one failed extraction that
  the callback reports, is always repaired, and all is staged in the end
  (`OneFaultRecovered`); the session implements its abstract specification
  `DownloadSession`, told of what is staged and what was lost (`ImplementsSession`), and
  ends (`SessionEnds`). A failed extraction that is called handled is not repaired: see
  `PD_extract`;
- an update that says it succeeded has installed everything, also after killed runs
  (`OkMeansInstalled`); no file of both versions is missing at any moment
  (`FilesStayPresent`); the user's files are kept (`UserFilesKept`) and nothing behind
  his links is touched (`OnlyListedTouched`);
- installed bundles have what they include (`IncludesInstalled`), the files on disk
  are exactly those of the installed bundles (`FilesExact`), tracked bundles are
  installed and go only on request, but for those whose mark could not be removed when
  their files were (`TypeOK`, `TrackedOnlyOnRequest`), removing
  orphans leaves none (`OrphansGone`), and `--recursive` takes nothing that an
  installed bundle still lists (`RecursiveSpares`);
- no two commands are between the lock and its release (`OneHolder`); on a system
  whose state directories are in order nothing changes them under
  the holder (`HolderUndisturbed`; the condition `Calm` is needed, because a directory
  with another mode is removed before the lock is asked for); clean takes no marks of
  bundles, no 3rd-party data and, without `--all` and as long as its `Manifest.MoM` is
  cached, no manifest of the version installed (`CleanTakesOnlyCache`); the lock is given back (`LockGivenBack`);
- an update installs only what the version it announced has, and never goes back
  (`OnlyAnnounced`); after a success only files of installations cut short may be
  wrong (`OnlySuspectsLeft`); an update nothing disturbs succeeds whatever killed runs
  left in the cache, and leaves nothing newer, through changes of format
  (`ReachesNewest`); it ends (`RunEnds`);
- after two complete repairs that nothing disturbs every file is right, and what was
  deleted is gone unless the second could not replace a file (`TwoRepairsEnough`; one
  is not enough, see `RP_link`, and for deleted files a third may be needed, see the
  disagreements); diagnose finds a
  system sound exactly if it is (`DiagnoseTellsTruth`); commands remove only what no
  installed bundle lists or has deleted, or what is of another type, except that the old
  `verify --picky --bundles`, which knows only the files of the chosen bundles when it
  looks for strangers (`verify.c:773`), takes those of the others as well
  (`OnlyStrangersRemoved`); staged copies are left behind only by kills and by calls that
  fail (`TypeOK`);
- a repository in `repo.ini` has its os-core, whenever a command was killed
  (`ListedReposWhole`); scripts run binaries that exist (`ScriptsRun`), and the template on
  disk does not claim scripts to be fresh that are not, wherever one command was killed
  (`TemplateTellsTruth`), both for catalogs that do not have an exported binary as a
  plain file in a way that counts (`ExportsKept`, see the disagreements); a
  command changes only the repository it works on, from that one's address
  (`OnItsOwnRepo`).

## Fairness

`PD_live` assumes weak fairness of the main thread and of the worker, which the
system schedules, and strong fairness of the end of each running transfer. Every
transfer has a connect timeout and a low-speed limit (`curl.c:104-125`), so libcurl
ends it at last; it can do so only while the main thread is inside
`curl_multi_perform`, which the polling loop enters again and again but not all the
time, hence strong and not weak. `RI_crash` assumes that an update that is not killed goes on; a kill is never
forced and never excluded. Nothing is assumed about the user. `SE_commands` assumes that
each process that is not killed goes on: the lock is asked for without waiting
(`F_SETLK`), and no step waits for another process. `UR_update` assumes that the update
command goes on; downloads time out. Nothing is assumed of servers, of the mirror
command or of the user. `BM_commands`, `RP_repair` and `TP_repos` check safety only.

## What is proved

For any sets of files, hashes, bundles, repositories and paths, any dependencies,
releases and manifests, and any number of runs, failures and kills. The only
assumptions are the named `ASSUME`s of the modules, which TLC evaluates in the runs,
and the conditions in the statements of the theorems. Each module has an
inductive invariant, a conjunction of named parts, and a lemma per action or per part
that says how it is kept. Lists are worked off by the code in loops; what a loop leaves is
shown by induction on the place in the list, which is done without the induction
theorems of the library: natural numbers are well-founded, so there would be a least
place at which the statement fails (`LeastOf`, `Induction`).

`ParallelDownloadProofs`
: `TypeCorrect` (`TypeOK`): retries stay within the maximum, and the loop's position
  stays in the list although items are prepended and taken out.
: `Invariance` (`IInv`): the invariant the others follow from. `TarExclusive` alone is
  not inductive: that a retry does not start a second transfer of a file depends on
  each file being on the failed list at most once from the loop's position on and
  in nobody's use, and before it only with its retries used up (`ListInv`); that an
  enqueued file is not in use depends on the hash map (`UseInv`, `HashInv`); and the
  join depends on the counter being the number of handles (`CountInv`), since the
  loop before it ends when the counter is zero.
: `TarExclusion` (`TarExclusive`) and `ScanIsAlone` (`StackEmptyAtScan`).

`ParallelDownloadRefinement`
: `CallbackGetsWholeTar` (`CallbackOnWholeTar`), `FilesAccounted` (`EveryFileAccounted`) and
  `DeliveryIsFinal` (`DeliveredIsFinal`), from `DInv`, which is inductive relative to `IInv`:
  a file in use is neither answered for nor on the failed list, and one that is answered
  for is on that list exactly if its transfer failed for good (`AccountInv`); the retry loop is left only
  when nothing is under way, or after an error of the multi interface (`LoopInv`).
: `Refinement` (`ImplementsSession`) and `SuccessDelivers` (`OkMeansDelivered`), as long as
  no `curl_multi` call failed; the second also needs callbacks that report what they could
  not extract (TRUE is not one of `FailedCallbackReturns`). Both conditions are needed:
  without them `OkMeansDelivered` is what `PD_poll_error` and `PD_extract` find violated.
  `StepRefines` maps each action to a step of `DownloadSession` or to none; `delivered`
  is what is staged, and a callback that returns TRUE without it is a `Lose`.
: `Recovery` and `OneFaultIsRepaired` (`OneFaultRecovered`), for three retries or more and
  at most one failing transfer or callback, of a kind that is retried (`OneFault`) and
  without loss: the session returns success, and everything is staged. The
  invariant is the course of that fault (`Course`): how many attempts a file has
  used up and what they left of its tar decide what the next one does. An
  interrupted transfer is resumed; a server that cannot resume makes it start again, and
  one that can answers 206, which counts as a failure, so that the next attempt gets a
  416 and the one after it starts again. That is the third retry: with two, the
  property does not hold. Files of other hashes do not disturb it, and a tar has one file
  in a session (`HashInv`).

`RootInstallProofs`
: `Invariance`: `RInv` says what is staged before the place in the list (`StagedInv`),
  what is renamed (`RenameInv`), that a staged copy is one of the new manifest whichever
  run left it (`UpdateInv`), that files of both versions have their type or are gone
  (`KeepInv`), that the list has what changed, once (`ListInv`), and that errors are
  counted (`ErrInv`), without which success would mean nothing.
: `TypeCorrect` (`TypeOK`), `OkIsInstalled` (`OkMeansInstalled`), `FilesPresent`
  (`FilesStayPresent`), `UserFilesSafe` (`UserFilesKept`), `ListedOnly`
  (`OnlyListedTouched`), and `StagedBeforeRenamed`: the second loop never meets a
  file that the first one did not prepare. `TreeStep` is the lemma they share: what a
  step may do to one path, by where the command is.

`BundleManagerProofs`
: `TypeCorrect` (`TypeOK`, which holds that tracked bundles are installed, unless their
  mark is stuck). The strengthening `TrackedSafe` says that no file still to be removed
  is the marker of a tracked bundle that is not stuck; it holds at the start of a removal because `--recursive` adds
  only untracked bundles (`RecursedUntracked`) and the named ones were forgotten or are
  stuck.
: `DependenciesKept` (`IncludesInstalled`), for runs in which os-core includes no
  bundle. `CInv` says it of every step of a command for the bundles that will be
  left when it has ended (`Upcoming`). The heart is `MovedClosed`: a bundle that
  includes one that goes, goes as well, or blocks it; and the same for what
  `--recursive` adds (`RecursedClosed`). The condition on os-core
  (`CoreIncludesNothing`) is needed: naming
  os-core together with a bundle it includes removes the latter, since `required_by`
  leaves out the named bundles.
: `FilesAreExact` (`FilesExact`), `OrphansRemoved` (`OrphansGone`) and `RecursionSpares`
  (`RecursiveSpares`), with the same condition, from `EInv`: the files that will be left
  are those of the bundles that will be left, although a removal compares with what is
  installed and not with what stays.
: `TrackedRemain` (`TrackedOnlyOnRequest`), for bundles whose mark is not stuck.

`SessionProofs`
: `Exclusion` (`OneHolder`), for any number of processes, directories, environments,
  failures and kills. The invariant `HolderIsLocked` says that a process past
  `p_lockfile` is the one the kernel gave the lock to; every other action either stays
  on one side of the lock (`MoveKeepsHolder`) or gives it back (`ReleaseKeepsHolder`).
: `TypeCorrect` (`TypeOK`); `HolderIsUndisturbed` (`HolderUndisturbed`), by `CalmInv`: with
  directories in order and a mark that no command takes, nobody comes to replace
  anything; `CleanIsSafe` (`CleanTakesOnlyCache`), from what each of the calls of `clean`
  takes (`CleanTakes`) and that it walks its list from the first call (`WalkInv`). That the
  manifests of the version installed stay holds only while its `Manifest.MoM` is cached, and
  says so: a `clean` that finds none takes them.

`UpdateRunProofs`
: `Invariance`: `UInv` follows a run from one version to another. From the comparison
  of versions on, os-release is that of `current` (`GoingInv`); a file that is not on the
  list is as the new version has it, or suspect (`ListInv`); what is listed has
  been staged and verified (`StagedInv`); what was put in place is the new version's
  (`InstalledInv`); so that, but for suspects, the disk is that of one version
  (`ContentInv`), wherever it is killed.
: `TypeCorrect` (`TypeOK`), `SuspectsOnly` (`OnlySuspectsLeft`), `Announced`
  (`OnlyAnnounced`). They rest on `ReleaseAssumption`, what clients rely on the
  makers of releases for: the os-release of a release tells of no version older than one
  before it, and manifests tell of each file whether it changed. `create_update_list`
  takes a file whose last change is the same in both manifests for one that is there and
  does not look at the disk, so it depends on that. The releases of `UR_update` satisfy
  the assumption, the one that forgot its os-release among them.
: `NewestReached` (`ReachesNewest`). `CalmInv` says what a run meets that nothing disturbs:
  the format read at the start is still that of the system (`FormatRead`), the
  server has the version that is sought (`Sought`), what is tried a second time is
  gone from the cache and then good (`SecondAttempt`), no file fails and the version
  files agree (`NothingFails`), and where it ends nothing newer is left (`EndsWell`), a
  further update having been started if a change of format calls for one. It rests on
  `ReleasesFollow`: a release is listed for the format its predecessor brings, an
  os-release tells of a release of the same format, and nothing changed in a release
  before it was there. A client that has a format for which nothing is listed
  waits for ever, so the makers of releases have to keep to this; the releases of
  `UR_update` do (`MCReleases`). The system has to have an os-release that can be read, and
  the format of that release, for the reason given with the disagreements.

`RepairProofs`
: `Invariance`: `PInv` says that the list that is worked off is that of the bundles there
  are (`WantInv`), although the command itself puts back or removes the files
  that mark bundles as installed: those are files of the bundles (`MarkerEntry`), so that
  what a step does to them (`InstalledStep`, `BundlesStep`) does not change what was
  computed. With `--bundles` the list was compared with the bundles there were when
  the manifests were read, and `WantInv` remembers that.
: `TypeCorrect` (`TypeOK`: what is put in place is in the manifests, and a `.update.` file
  is left by a kill or a failing call only); `StrangersOnly` (`OnlyStrangersRemoved`), from what one step may
  do to a path (`DiskTouched`) and that files are removed only with the
  heuristics heeded (`RemoveInv`); `DiagnoseTruth` (`DiagnoseTellsTruth`), from `CheckInv`:
  each counter is that of the files gone through so far, and a file
  is counted as missing, corrupt or to be removed exactly if it is wrong (`WrongOnes`).
  They rest on `ManifestAssumption`: the manifests of a version do not contradict each
  other about a path that is there, and the file that marks a bundle is its own.
: `RepairsSettle` (`TwoRepairsEnough`), for any number of undisturbed repairs in a row.
  A repair makes right what lies in a directory that is one (`Firm`): the top of the tree
  in the first repair, everything from the second on, since by then every
  listed directory is a directory (`TreeAssumption`: manifests list the directories of
  their files, paths are sorted with a directory before what it holds, and a directory
  is no state file). What an earlier repair made right is not touched again
  (`Settled`), except by the step that renames its staged copy. `RoundInv` says this
  at each place of each pass: files before it are there while missing ones are added
  (`AddedInv`), right while corrupt ones are replaced (`FixedInv`), what the pass before
  put back is marked and right (`SoundInv`), a failure to replace is only counted where it
  can happen (`CountInv`), and deleted files are gone as far as the pass has come
  (`TidyInv`). `BetweenInv` carries what a repair leaves to the next one, past
  diagnoses and downloads, which write nothing.

`ThirdPartyProofs`
: `Bearings` (`BaseInv`) and `OwnRepoOnly` (`OnItsOwnRepo`): where a command works, the
  global variables are those of its repository, which is listed, whatever fails.
: `ListInvariance` (`ListInv`) and `ListedAreWhole` (`ListedReposWhole`), for names in lower
  case (`LowerNames`): the content is there before the section is written and
  after it was taken out, also while `repo.ini` is written again section by section.
  `repo.ini` is read in lower case, and a repository with another name is not found again.
: `RunsInvariance` (`RunsInv`) and `ScriptsAllRun` (`ScriptsRun`), for names in lower case
  and catalogs that are `ExportsKept`: of the entries for a file a plain one is not
  preferred to one that exports it, an update takes no export back, and it brings none
  without another content. All of these are needed, because consolidation does not look at
  the flag and what makes and removes scripts looks at nothing else (see
  the disagreements); the property states the condition itself. A script is of a binary that a listed repository
  exports (`Rightful`) or of one that is about to be removed for it (`Doomed`). What
  `third_party_process_files` leaves is shown file by file (`FileByFile`, `NextFile`).
: `TruthInvariance` (`TruthInv`) and `TemplateIsTrue` (`TemplateTellsTruth`), under the same
  conditions on names and exports and if no os-core exports a binary (`CoreExportsNothing`: the os-core that
  `3rd-party add` installs gets no scripts, `3rd_party_add.c:338`). Here one command
  may be killed. An old script of an exported binary is one the update is about to write
  (`Due`), or, while all scripts are made again, one of a repository that is still to
  be worked on (`Awaited`), and until then the template on disk is the old one
  (`FreshInv`). One kill is the most: a first may leave an old script behind whose binary
  is gone, and a second, between the files of an update that brings the binary back
  and its scripts, makes that script one of an exported binary under a template that says
  that all are new.

Only model-checked:

- liveness: `SessionEnds`, `RunEnds`, `LockGivenBack` (fairness and ENABLED are beyond
  the prover);
- what the violation runs show, which is false.

## Disagreements found

| Run | What the code does |
|---|---|
| `PD_poll_error` (`OkMeansDelivered`) | an error of `curl_multi_wait` or `curl_multi_perform` before the first scan leaves an empty failed list, and the session returns 0 although nothing was delivered |
| `PD_extract` (`OkMeansDelivered`) | `download_successful` returns true although the extraction failed (`fullfile.c:56`), while `swupd_curl.h:116-117` wants false to schedule a retry: the file is neither tried again nor reported, and the session returns 0 without its content |
| `UR_scripts` (`ScriptsBlock`) | when swupd is built with a post-update program, it is given `--no-block` exactly when it should block, so that the second update starts while the triggers of the first still run |
| `RP_link` (`RepairOkMeansRight`) | a directory has been replaced by a link: its file is there when missing files are added, seen through the link; the link is then replaced by an empty directory, the file is passed over as missing, and the repair says that all is well. A second repair finds it |

Others were met while reading and are modelled as they are, without a run of their own:

- the drain is said to handle at most COUNT messages
  (`curl_async.c:257`) but counts up (`:334`), which costs throughput only;
- a failed download of a parent directory's content becomes `true` in a `bool`
  (`target_root.c:528`); the chain of parents is not aborted, the absolute-path test then
  stops the run;
- an update killed after os-release was renamed is not completed by the next one, which
  finds the version current (`update.c:329`); killed between os-release and the file with
  the format, the system asks for the old format for ever (`ReachesNewest` only says of
  such a system that its updates succeed);
- a missing file is checked again after it was put back with its extended attributes left
  out of the hash (`verify.c:372`, `:404-410`), unlike in `verify_file` (`hash.c:235`), so that
  a file that has some is put back rightly and counted as not replaced, and the removal of
  deleted files is skipped (`verify.c:1242`). If such a file lies in a directory
  that a link had replaced, it is put back in the second repair only, and what was deleted
  goes with the third (`TwoRepairsEnough` allows for it);
- a tracking mark that cannot be removed is passed over (`bundle_remove.c:166-173`), and the
  bundle is removed but stays tracked; `clean` without a cached `Manifest.MoM` of the version
  installed takes that version's manifests too (`clean.c:284-286`);
- a `.update.` file that a failed copy leaves half written (`target_root.c:276-286`) is
  removed by nobody until the file is copied again or strangers are looked for;
- when `3rd-party bundle-remove` removes a bundle whose manifest has a deleted file, the next
  entry of the other bundles, of whatever file, is taken for one they share
  (`filter_file_to_delete`, `bundle_remove.c:175`), and a script of its name goes if that
  entry does not export it;
- `bundle-remove --force` of a bundle that os-core includes removes os-core
  (`bundle_remove.c:425`), and `--recursive` leaves a dependency behind that only the
  removed bundle lists (`bundle_remove.c:262`);
- `mirror --set` and `--unset` take no lock and write two files;
  `handle_mirror_if_stale` judges the address of the command line but removes the
  configured one;
- `3rd-party add` writes the repository to `repo.ini` although os-core could not be
  installed, and notices that another repository has the address only after the content
  is there (`3rd_party_add.c`); a `repo.ini` that cannot be opened for
  writing counts as written (`overwrite_repo_config_file`), and the content of the
  repository that is still listed is removed; names in mixed case are not found again,
  because section names are read in lower case (`config_file.c:73`);
- when one bundle exports a binary that another one has, for longer, as a plain file,
  `consolidate_files` keeps the older entry without a look at `is_exported`
  (`manifest.c:667-681`), so that `3rd-party remove` removes the repository and leaves its
  script, which runs nothing (`3rd_party_remove.c:210` wants it removed);
- `3rd-party bundle-list --has-dep` over all repositories fails when the first one does not
  have the bundle: the static result in `list_repo_bundles` becomes right with the second,
  but the loop over the repositories has kept the first (`3rd_party_bundle_list.c:158-160`
  promises otherwise);
- an exported binary that an update turns into a plain file keeps its script, because
  what is made, updated and removed after an update is decided for exported files only
  (`3rd_party_repos.c:602-627`, `:736-782`; the comment at `:767` and
  `docs/swupd.1.rst:578` promise otherwise), so that a later removal of the file leaves a
  script that runs nothing; with two entries of which the plain one is kept, the same goes
  for what is made again after a new template; `ScriptsRun` and `TemplateTellsTruth`
  therefore assume `ExportsKept`;
- a binary that moves to another directory in an update loses its script
  (`3rd_party_repos.c:747`); `3rd-party check-update` over all repositories says with its
  exit status that there are updates also when there are none, because the result it
  expects is not kept (`docs/swupd.1.rst:715`);
- `os-install --bundles` with unknown bundles and `--force` installs nothing and
  succeeds (`verify.c:1073`).

## What is not modelled

Contents of files are what the properties tell apart (hashes, old, new, own), and
verification either succeeds or fails: OpenSSL, xattrs and permissions are not
modelled beyond that. A kill is the death of the process: what the kernel was told
stays, so power loss and `sync` are not modelled. Failures of memory allocation end
the program in the code (`ON_NULL_ABORT`) and are not modelled. A command beside another
one is modelled where it can be without the lock: in `Session`, and the mirror
command in `UpdateRun`; elsewhere commands follow one another. Time is not
modelled (the names of backup directories have it in seconds).

Not modelled as components are: the commands that only report (`bundle-list`,
`bundle-info`, `info`, `search`, `hashdump`, whose exit status over several repositories
is in `ThirdParty`), progress, telemetry, statistics and the formats of output, the
parsing of arguments and of manifests, and the wrappers of libarchive and of the C
library. They keep no state that outlives the command, and what could go wrong in them
a unit test reaches. Parsing and the list functions are loops over data; where their
result matters, the models have what they compute as a set or a function.
`components` in `PROJECT.json` gives the reason for each part that is missing.

## Plan

The order was: the downloader, because threads, callbacks and retries meet there;
the target root, because a kill there damages a system; the bundle commands,
because their dependency rules are the most intricate; then the commands as a
whole: start and end with several processes, update, repair, 3rd-party
repositories; then the theorems, one module after the other. Every safety and action
property of the passing runs is now stated by a theorem. What the prover cannot
reach is liveness: `SessionEnds`, `RunEnds` and `LockGivenBack` hold on the instances that
TLC checks.

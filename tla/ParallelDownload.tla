-------------------------- MODULE ParallelDownload --------------------------
(***************************************************************************)
(* The parallel downloader of swupd (swupd_lib/curl_async.c) with the      *)
(* single-worker thread pool it hands finished downloads to                *)
(* (lib/thread_pool.c) and its only client, download_fullfiles             *)
(* (swupd_lib/fullfile.c).                                                 *)
(*                                                                         *)
(* Three parties interleave: the main thread, which enqueues, polls, scans *)
(* and retries; libcurl, whose transfers move inside curl_multi_perform;   *)
(* and the worker thread, which runs the success callback and writes       *)
(* cb_retval.                                                              *)
(***************************************************************************)
EXTENDS Integers, Sequences, SequencesExt, FiniteSets

CONSTANTS
  Files,            \* the files of need_download, one struct multi_curl_file each
  Hashes,           \* content hashes; the tar on disk is named after the hash
  HashOf,           \* the hash of each file
  MaxRetries,       \* globals.max_retries
  MaxXfer,          \* get_max_xfer(MAX_XFER)
  Threads,          \* how many worker threads tp_start may manage: 1, or 0 when none starts
  Failures,         \* the statuses a failing transfer may end with
  FaultBudget,      \* bound: transfers and extractions that may fail
  MultiErrorBudget, \* bound: errors of curl_multi_perform and curl_multi_wait
  SetupErrorBudget, \* bound: errors while a transfer is being set up
  FailedCallbackReturns, \* what a callback that could not use its file may
                    \* return: FALSE as swupd_curl.h asks, TRUE as
                    \* download_successful does
  None              \* no file

DontRetryStatuses == {"not_found", "forbidden", "write_error", "server_unreachable"}
RetriableFailures == {"error", "timeout"}
Statuses == DontRetryStatuses \union RetriableFailures
              \union {"completed", "partial_file", "range_error", "range_not_satisfiable"}

Active == {"fresh", "resume"}

XferQueueBuffer == 5

ASSUME ConstantsAssumption ==
  /\ IsFiniteSet(Files)
  /\ None \notin Files
  /\ HashOf \in [Files -> Hashes]
  /\ MaxRetries \in Nat
  /\ MaxXfer \in Nat \ {0}
  /\ Threads \subseteq {0, 1}
  /\ Failures \subseteq DontRetryStatuses \union RetriableFailures
  /\ FaultBudget \in Nat
  /\ MultiErrorBudget \in Nat
  /\ SetupErrorBudget \in Nat
  /\ FailedCallbackReturns \subseteq BOOLEAN

VARIABLES
  pc,            \* control point of the main thread
  call,          \* who called poll_fewer_than: "enqueue", "retry" or "end"
  hashmap,       \* h->curl_hashmap: the files accepted by enqueue
  skipped,       \* files enqueue dropped because their hash was already there
  conn,          \* per file: "off", a running transfer, or its unread final status
  mcurl_size,    \* h->mcurl_size
  max_xfer,      \* h->max_xfer
  resume_failed, \* h->resume_failed
  failed,        \* h->failed
  left,          \* items from the retry loop's cursor to the end of h->failed
  retry,         \* local variable of parallel_download_end
  status,        \* file->status
  retries,       \* file->retries
  cb_retval,     \* file->cb_retval
  queue,         \* tasks written to the pool's pipe and not yet read
  worker,        \* the file whose callback the worker is running
  tar,           \* content of <hash>.tar in the download directory
  staged,        \* hashes whose extracted content is in the staged directory
  env,           \* what the session finds: whether the server is local, whether it
                 \* resumes transfers, how many worker threads could be started
  faults,        \* fault budget left
  merrors,       \* multi error budget left
  serrors,       \* setup error budget left
  ret            \* what the client gets: "none" until the session is over

mainVars == <<pc, call, left, retry, ret>>
handleVars == <<hashmap, skipped, mcurl_size, max_xfer, resume_failed, failed>>
fileVars == <<status, retries, cb_retval>>
poolVars == <<queue, worker>>
diskVars == <<tar, staged>>
budgets == <<faults, merrors, serrors>>
vars == <<mainVars, handleVars, conn, fileVars, poolVars, diskVars, env, budgets>>

Attached == {f \in Files : conn[f] # "off"}
Unread == {f \in Files : conn[f] \in Statuses}
PoolIdle == queue = <<>> /\ worker = None
AwaitingCallback(f) == worker = f \/ \E i \in DOMAIN queue : queue[i] = f

----------------------------------------------------------------------------
(* swupd_curl_parallel_download_start: a fresh handle.                      *)

Init ==
  /\ pc = "enqueue" /\ call = "enqueue" /\ left = 0 /\ retry = TRUE /\ ret = "none"
  /\ hashmap = {} /\ skipped = {} /\ failed = <<>>
  /\ mcurl_size = 0
  /\ resume_failed = FALSE
  /\ conn = [f \in Files |-> "off"]
  /\ status = [f \in Files |-> "completed"]
  /\ retries = [f \in Files |-> 0]
  /\ cb_retval = [f \in Files |-> FALSE]
  /\ queue = <<>> /\ worker = None
  /\ tar = [h \in Hashes |-> "absent"] /\ staged = {}
  /\ env \in [local : BOOLEAN, ranges : BOOLEAN, threads : Threads]
  /\ max_xfer = IF env.threads = 0 THEN 0 ELSE MaxXfer
  /\ faults = FaultBudget /\ merrors = MultiErrorBudget
  /\ serrors = SetupErrorBudget

----------------------------------------------------------------------------
(* poll_fewer_than and what its three callers do with the result.          *)

XferHigh == IF call = "end" THEN 0 ELSE max_xfer
XferLow == IF call = "end" THEN 0 ELSE max_xfer \div 2

\* enqueue's caller cancels on an error, the retry loop ignores the result,
\* and parallel_download_end leaves its loop unless (0, and a retry is due).
PollReturns(r) ==
  pc' = CASE call = "enqueue" -> IF r < 0 THEN "cancel" ELSE "enqueue"
          [] call = "retry"   -> "retry"
          [] call = "end"     -> IF r = 0 /\ retry THEN "join" ELSE "finish"

PollResult ==
  IF XferLow # XferHigh /\ mcurl_size > XferHigh + XferQueueBuffer THEN -1 ELSE 0

\* The first curl_multi_perform and the test of the lower limit.
PollEnter ==
  /\ pc = "enter"
  /\ IF mcurl_size < XferHigh THEN PollReturns(0)
     ELSE IF mcurl_size > XferLow THEN pc' = "perform"
     ELSE PollReturns(PollResult)
  /\ UNCHANGED <<call, left, retry, ret, handleVars, conn, fileVars, poolVars,
                 diskVars, env, budgets>>

\* curl_multi_wait and curl_multi_perform inside the loop return without error.
PollPerform ==
  /\ pc = "perform"
  /\ pc' = "drain"
  /\ UNCHANGED <<call, left, retry, ret, handleVars, conn, fileVars, poolVars,
                 diskVars, env, budgets>>

\* curl_multi_perform or curl_multi_wait returns an error.
MultiError ==
  /\ pc \in {"enter", "perform"} /\ merrors > 0
  /\ merrors' = merrors - 1
  /\ PollReturns(-1)
  /\ UNCHANGED <<call, left, retry, ret, handleVars, conn, fileVars, poolVars,
                 diskVars, env, faults, serrors>>

\* curl_multi_info_read returned NULL: test running, then the loop condition.
DrainEnd ==
  /\ pc = "drain" /\ Unread = {}
  /\ IF Attached # {} /\ mcurl_size > XferLow
     THEN pc' = "perform"
     ELSE PollReturns(PollResult)
  /\ UNCHANGED <<call, left, retry, ret, handleVars, conn, fileVars, poolVars,
                 diskVars, env, budgets>>

----------------------------------------------------------------------------
(* libcurl: a transfer ends while curl_multi_perform runs.                  *)

\* What the transfer leaves on disk and the status that
\* process_curl_error_codes will make of it. A resumed transfer that works
\* answers 206, one that finds nothing left to send answers 416.
Outcomes(f) ==
  LET t == tar[HashOf[f]] IN
  IF conn[f] = "fresh" \/ env.local THEN {<<"completed", "complete">>}
  ELSE IF ~env.ranges THEN {<<"range_error", t>>}
  ELSE IF t = "complete" THEN {<<"range_not_satisfiable", t>>}
  ELSE {<<"partial_file", "complete">>}

\* A failing transfer delivered nothing or a part; an HTTP error delivers
\* no body (CURLOPT_FAILONERROR).
FaultyOutcomes(f) ==
  LET t == tar[HashOf[f]] IN
  {<<s, t>> : s \in Failures}
    \union {<<s, "partial">> : s \in IF t = "empty"
                                     THEN Failures \ {"not_found", "forbidden", "server_unreachable"}
                                     ELSE {}}

TransferEnds(f) ==
  /\ pc \in {"enter", "perform"} /\ conn[f] \in Active
  /\ \/ /\ \E o \in Outcomes(f) :
             /\ conn' = [conn EXCEPT ![f] = o[1]]
             /\ tar' = [tar EXCEPT ![HashOf[f]] = o[2]]
        /\ UNCHANGED faults
     \/ /\ faults > 0 /\ faults' = faults - 1
        /\ \E o \in FaultyOutcomes(f) :
             /\ conn' = [conn EXCEPT ![f] = o[1]]
             /\ tar' = [tar EXCEPT ![HashOf[f]] = o[2]]
  /\ UNCHANGED <<mainVars, handleVars, fileVars, poolVars, staged, env, merrors, serrors>>

----------------------------------------------------------------------------
(* The success callback: download_successful calling untar_full_download.   *)

\* Extraction works: the tar is consumed and the content staged.
CallbackOk(f) ==
  /\ staged' = staged \union {HashOf[f]}
  /\ tar' = [tar EXCEPT ![HashOf[f]] = "absent"]
  /\ cb_retval' = [cb_retval EXCEPT ![f] = TRUE]
  /\ UNCHANGED faults

\* Extraction fails: everything staged for the hash is unlinked.
CallbackFails(f) ==
  /\ faults > 0 /\ faults' = faults - 1
  /\ staged' = staged \ {HashOf[f]}
  /\ tar' = [tar EXCEPT ![HashOf[f]] = "absent"]
  /\ \E r \in FailedCallbackReturns : cb_retval' = [cb_retval EXCEPT ![f] = r]

RunCallback(f) == CallbackOk(f) \/ CallbackFails(f)

\* thread_run: the worker reads a task from the pipe ...
WorkerTakes ==
  /\ worker = None /\ queue # <<>>
  /\ worker' = Head(queue) /\ queue' = Tail(queue)
  /\ UNCHANGED <<mainVars, handleVars, conn, fileVars, diskVars, env, budgets>>

\* ... and runs it.
WorkerRuns ==
  /\ worker # None
  /\ RunCallback(worker)
  /\ worker' = None
  /\ UNCHANGED <<mainVars, handleVars, conn, status, retries, queue, env, merrors,
                 serrors>>

\* untar_full_download finds the wrong content and calls exit().
CallbackExits ==
  /\ \/ worker # None
     \/ env.threads = 0 /\ pc = "drain" /\ \E f \in Files : conn[f] = "completed"
  /\ faults > 0 /\ faults' = faults - 1
  /\ pc' = "exited" /\ ret' = "exited" /\ worker' = None /\ queue' = <<>>
  /\ UNCHANGED <<call, left, retry, handleVars, conn, fileVars, diskVars, env, merrors,
                 serrors>>

----------------------------------------------------------------------------
(* perform_curl_io_and_complete: one message of the multi stack.            *)

DontRetry(s) == env.local \/ s \in DontRetryStatuses

DetachRead(f) ==
  /\ status' = [status EXCEPT ![f] = conn[f]]
  /\ conn' = [conn EXCEPT ![f] = "off"]
  /\ mcurl_size' = mcurl_size - 1

\* Mutant: the callback is scheduled for whatever has arrived.
ReadInterrupted(f) ==
  /\ conn[f] \in {"completed", "error"}
  /\ queue' = Append(queue, f)
  /\ UNCHANGED <<cb_retval, diskVars, faults, retries, failed, resume_failed>>

\* A completed download goes to the pool, or is handled inline without one.
ReadCompleted(f) ==
  /\ conn[f] = "completed"
  /\ \/ /\ env.threads > 0
        /\ queue' = Append(queue, f)
        /\ UNCHANGED <<cb_retval, diskVars, faults>>
     \/ /\ env.threads = 0
        /\ RunCallback(f)
        /\ UNCHANGED queue
  /\ UNCHANGED <<retries, failed, resume_failed>>

\* Mutant: a file that will not be retried is not put on the failed list.
ReadFinalErrorForgotten(f) ==
  /\ conn[f] # "completed" /\ DontRetry(conn[f])
  /\ retries' = [retries EXCEPT ![f] = MaxRetries]
  /\ cb_retval' = [cb_retval EXCEPT ![f] = TRUE]
  /\ UNCHANGED <<failed, resume_failed, queue, diskVars, faults>>

\* A final error: no retry will be made, the file goes to the failed list.
ReadFinalError(f) ==
  /\ conn[f] # "completed" /\ DontRetry(conn[f])
  /\ retries' = [retries EXCEPT ![f] = MaxRetries]
  /\ cb_retval' = [cb_retval EXCEPT ![f] = TRUE]
  /\ failed' = <<f>> \o failed
  /\ UNCHANGED <<resume_failed, queue, diskVars, faults>>

\* Another error: cb_retval stays FALSE and the next scan finds the file.
ReadRetriableError(f) ==
  /\ conn[f] # "completed" /\ ~DontRetry(conn[f])
  /\ resume_failed' = (resume_failed \/ conn[f] = "range_error")
  /\ UNCHANGED <<retries, cb_retval, failed, queue, diskVars, faults>>

DrainOne(f) ==
  /\ pc = "drain" /\ conn[f] \in Statuses
  /\ DetachRead(f)
  /\ ReadCompleted(f) \/ ReadFinalError(f) \/ ReadRetriableError(f)
  /\ UNCHANGED <<mainVars, hashmap, skipped, max_xfer, worker, env, merrors, serrors>>

----------------------------------------------------------------------------
(* process_download and its two callers.                                   *)

\* Mutant: an answer 416 does not change the next attempt.
ResumesAfter416(f, n, t) == n > 0 /\ ~resume_failed /\ t # "absent"

\* n is the number of retries made so far and t the tar found on disk.
Resumes(f, n, t) ==
  n > 0 /\ ~resume_failed /\ t # "absent" /\ status[f] # "range_not_satisfiable"

\* RESUME_FROM of an empty file asks for the whole file.
Mode(f, n, t) ==
  IF Resumes(f, n, t) /\ t # "empty" THEN "resume" ELSE "fresh"

\* The handle is added to the multi stack; the file is opened for appending
\* or truncated.
StartTransfer(f, n, t) ==
  /\ conn' = [conn EXCEPT ![f] = Mode(f, n, t)]
  /\ tar' = [tar EXCEPT ![HashOf[f]] = IF Resumes(f, n, t) THEN t ELSE "empty"]
  /\ mcurl_size' = mcurl_size + 1
  /\ pc' = "enter"
  /\ UNCHANGED serrors

\* A libcurl setup call fails, after the file was opened or before.
SetupError(f, n, t) ==
  /\ serrors > 0 /\ serrors' = serrors - 1
  /\ \E new \in {t, IF Resumes(f, n, t) THEN t ELSE "empty"} :
       tar' = [tar EXCEPT ![HashOf[f]] = new]
  /\ pc' = IF call = "enqueue" THEN "cancel" ELSE "retry"
  /\ UNCHANGED <<conn, mcurl_size>>

\* Mutant: files are told apart by their address.
KnownFile(f) == f \in hashmap

KnownHash(f) == \E g \in hashmap : HashOf[g] = HashOf[f]

\* download_file -> parallel_download_enqueue; the old tar is unlinked.
Enqueue(f) ==
  /\ pc = "enqueue" /\ f \notin hashmap \union skipped /\ ~KnownHash(f)
  /\ hashmap' = hashmap \union {f}
  /\ StartTransfer(f, 0, "absent") \/ SetupError(f, 0, "absent")
  /\ UNCHANGED <<call, left, retry, ret, skipped, max_xfer, resume_failed, failed, fileVars,
                 poolVars, staged, env, faults, merrors>>

\* The hash is already in the download queue: enqueue frees the file.
EnqueueDuplicate(f) ==
  /\ pc = "enqueue" /\ f \notin hashmap \union skipped /\ KnownHash(f)
  /\ skipped' = skipped \union {f}
  /\ UNCHANGED <<mainVars, hashmap, mcurl_size, max_xfer, resume_failed, failed, conn,
                 fileVars, poolVars, diskVars, env, budgets>>

\* download_fullfiles has enqueued its list and calls parallel_download_end.
End ==
  /\ pc = "enqueue" /\ hashmap \union skipped = Files
  /\ pc' = "enter" /\ call' = "end" /\ retry' = TRUE
  /\ UNCHANGED <<left, ret, handleVars, conn, fileVars, poolVars, diskVars, env, budgets>>

----------------------------------------------------------------------------
(* parallel_download_end: one turn of its loop.                            *)

\* Mutant: the worker is not waited for.
JoinEarly ==
  /\ pc = "join"
  /\ pc' = "scan"
  /\ UNCHANGED <<call, left, retry, ret, handleVars, conn, fileVars, poolVars, diskVars,
                 env, budgets>>

\* tp_complete waits for the worker, tp_start makes a new pool.
Join ==
  /\ pc = "join" /\ PoolIdle
  /\ pc' = "scan"
  /\ UNCHANGED <<call, left, retry, ret, handleVars, conn, fileVars, poolVars, diskVars,
                 env, budgets>>

\* Mutants: files without a retry left, or none at all, are told apart.
UnhandledRetriable == {f \in hashmap : ~cb_retval[f] /\ retries[f] < MaxRetries}
UnhandledOrNot == hashmap

Unhandled == {f \in hashmap : ~cb_retval[f]}

\* The files that were not handled are prepended, in the order of the hash
\* buckets; the call that empties the multi stack finds it empty
\* (StackEmptyAtScan), so it reads nothing.
Scan ==
  /\ pc = "scan"
  /\ \E order \in Bijection(1 .. Cardinality(Unhandled), Unhandled) :
       /\ failed' = order \o failed
       /\ left' = Len(failed')
  /\ retry' = FALSE
  /\ pc' = "retry" /\ call' = "retry"
  /\ UNCHANGED <<ret, hashmap, skipped, mcurl_size, max_xfer, resume_failed, conn, fileVars,
                 poolVars, diskVars, env, budgets>>

\* The item under the cursor; items prepended meanwhile do not move it.
Cursor == Len(failed) - left + 1

\* Mutant: one retry too many.
MayRetryOnceMore(f) == retries[f] <= MaxRetries /\ status[f] # "write_error"

MayRetry(f) == retries[f] < MaxRetries /\ status[f] # "write_error"

\* The item is removed and the download started again; from the first retry
\* on only one transfer runs at a time. process_download's result is ignored.
RetryOne ==
  /\ pc = "retry" /\ left > 0 /\ MayRetry(failed[Cursor])
  /\ LET f == failed[Cursor]
         n == retries[f] + 1 IN
     /\ retries' = [retries EXCEPT ![f] = n]
     /\ StartTransfer(f, n, tar[HashOf[f]]) \/ SetupError(f, n, tar[HashOf[f]])
  /\ failed' = RemoveAt(failed, Cursor)
  /\ left' = left - 1
  /\ max_xfer' = 1
  /\ retry' = TRUE
  /\ UNCHANGED <<call, ret, hashmap, skipped, resume_failed, status, cb_retval, poolVars,
                 staged, env, faults, merrors>>

\* Mutant: the cursor is not moved past the item.
RetryExhaustedStuck ==
  /\ pc = "retry" /\ left > 0 /\ ~MayRetry(failed[Cursor])
  /\ UNCHANGED vars

\* No retry left: the item stays on the list.
RetryExhausted ==
  /\ pc = "retry" /\ left > 0 /\ ~MayRetry(failed[Cursor])
  /\ left' = left - 1
  /\ UNCHANGED <<pc, call, retry, ret, handleVars, conn, fileVars, poolVars, diskVars,
                 env, budgets>>

\* End of the list: back to the loop condition, which polls.
RetryEnd ==
  /\ pc = "retry" /\ left = 0
  /\ pc' = "enter" /\ call' = "end"
  /\ UNCHANGED <<left, retry, ret, handleVars, conn, fileVars, poolVars, diskVars,
                 env, budgets>>

\* After the loop: the result, then the multi handle is destroyed.
Finish ==
  /\ pc = "finish"
  /\ ret' = IF failed # <<>> THEN "failed" ELSE "ok"
  /\ conn' = [f \in Files |-> "off"] /\ mcurl_size' = 0
  /\ pc' = "clear"
  /\ UNCHANGED <<call, left, retry, hashmap, skipped, max_xfer, resume_failed, failed,
                 fileVars, poolVars, diskVars, env, budgets>>

\* download_fullfiles cancels the session after an enqueue error.
Cancel ==
  /\ pc = "cancel"
  /\ ret' = "failed"
  /\ conn' = [f \in Files |-> "off"] /\ mcurl_size' = 0
  /\ pc' = "clear"
  /\ UNCHANGED <<call, left, retry, hashmap, skipped, max_xfer, resume_failed, failed,
                 fileVars, poolVars, diskVars, env, budgets>>

\* parallel_download_clear waits for the worker before it frees the files.
Clear ==
  /\ pc = "clear" /\ PoolIdle
  /\ pc' = "done"
  /\ UNCHANGED <<call, left, retry, ret, handleVars, conn, fileVars, poolVars, diskVars,
                 env, budgets>>

Over == pc \in {"done", "exited"}

Terminated == Over /\ UNCHANGED vars

----------------------------------------------------------------------------
Poll == PollEnter \/ PollPerform \/ MultiError \/ DrainEnd \/ \E f \in Files : DrainOne(f)

EndLoop == Join \/ Scan \/ RetryOne \/ RetryExhausted \/ RetryEnd \/ Finish

Main == \/ \E f \in Files : Enqueue(f) \/ EnqueueDuplicate(f)
        \/ End \/ Poll \/ EndLoop \/ Cancel \/ Clear

Worker == ~Over /\ (WorkerTakes \/ WorkerRuns \/ CallbackExits)

Next == Main \/ Worker \/ (\E f \in Files : TransferEnds(f)) \/ Terminated

Spec == Init /\ [][Next]_vars

\* The main thread and the worker are scheduled; a transfer cannot stay
\* unfinished for ever while curl_multi_perform is called again and again
\* (connection and low-speed timeouts).
Fairness ==
  /\ WF_vars(Main)
  /\ WF_vars(Worker)
  /\ \A f \in Files : SF_vars(TransferEnds(f))

FairSpec == Spec /\ Fairness
----------------------------------------------------------------------------
(* Properties.                                                             *)

Tars == {"absent", "empty", "partial", "complete"}
MainPoints == {"enqueue", "enter", "perform", "drain", "join", "scan", "retry",
               "cancel", "finish", "clear", "done", "exited"}

\* Types of every variable; the list may hold an exhausted file several times.
TypeOK ==
  /\ pc \in MainPoints
  /\ call \in {"enqueue", "retry", "end"}
  /\ hashmap \subseteq Files /\ skipped \subseteq Files
  /\ conn \in [Files -> {"off"} \union Active \union Statuses]
  /\ mcurl_size \in Int
  /\ max_xfer \in Nat
  /\ resume_failed \in BOOLEAN /\ retry \in BOOLEAN
  /\ failed \in Seq(Files)
  /\ left \in 0 .. Len(failed)
  /\ status \in [Files -> Statuses]
  /\ retries \in [Files -> 0 .. MaxRetries]
  /\ cb_retval \in [Files -> BOOLEAN]
  /\ queue \in Seq(Files) /\ worker \in Files \union {None}
  /\ tar \in [Hashes -> Tars] /\ staged \subseteq Hashes
  /\ env \in [local : BOOLEAN, ranges : BOOLEAN, threads : Threads]
  /\ faults \in Nat /\ merrors \in Nat /\ serrors \in Nat
  /\ ret \in {"none", "ok", "failed", "exited"}

InUse(f) == conn[f] # "off" \/ AwaitingCallback(f)

\* <hash>.tar has one user at a time: two files with the same hash are never
\* downloaded or extracted together, and no file is downloaded again while its
\* callback is due (the comment above untar_full_download relies on it).
TarExclusive ==
  /\ \A f, g \in Files : InUse(f) /\ InUse(g) /\ HashOf[f] = HashOf[g] => f = g
  /\ \A f \in Files : ~(conn[f] # "off" /\ AwaitingCallback(f))
  /\ worker # None => \A i \in DOMAIN queue : queue[i] # worker
  /\ \A i, j \in DOMAIN queue : queue[i] = queue[j] => i = j

\* The success callback only ever gets a tar that was downloaded whole, not
\* the remains of an interrupted transfer.
CallbackOnWholeTar ==
  \A f \in Files : AwaitingCallback(f) \/ conn[f] = "completed"
                     => tar[HashOf[f]] = "complete"

\* cb_retval is read when nobody can write it any more: the pool has been
\* joined and the multi stack is empty, as the comment in the loop claims.
StackEmptyAtScan ==
  pc = "scan" => PoolIdle /\ Attached = {} /\ mcurl_size = 0

Wanted == {HashOf[f] : f \in Files}

\* The hashes whose success callback has returned TRUE; download_successful
\* does so of a tar that it could not extract, too.
Handled == {HashOf[f] : f \in {g \in hashmap : cb_retval[g] /\ status[g] = "completed"}}

\* What was called handled, though nothing is staged.
Lost == Handled \ staged

\* Unless a curl_multi call failed, parallel_download_end leaves each file
\* either handled or on the failed list, never both and never neither.
EveryFileAccounted ==
  call = "end" /\ pc \in {"finish", "clear", "done"} /\ merrors = MultiErrorBudget =>
    \A f \in hashmap : HashOf[f] \in Handled <=> \A i \in DOMAIN failed : failed[i] # f

\* A session that returned success has staged the content of every hash it was
\* asked for.
OkMeansDelivered == pc = "done" /\ ret = "ok" => staged = Wanted

\* One broken transfer is repaired by the default three retries, and so is one
\* failed extraction that the callback reports (FALSE, as swupd_curl.h asks; one
\* that it calls handled is lost): everything is staged in the end, unless
\* libcurl itself fails or the disk is full. (The answer to a resumed download,
\* 206, counts as a failed attempt, and so does the 416 after it.)
OneFaultRecovered ==
  /\ pc = "done" /\ ~env.local
  /\ merrors = MultiErrorBudget /\ serrors = SetupErrorBudget
  /\ \A f \in Files : status[f] # "write_error"
  /\ Lost = {}
  => ret = "ok" /\ staged = Wanted

\* What was handled stays so, what of it was staged stays staged, and none of it
\* is downloaded again.
DeliveredIsFinal ==
  [][\A h \in Handled : h \in Handled' /\ tar'[h] = tar[h]
                        /\ (h \in staged => h \in staged')]_vars

\* parallel_download_end returns: every retry is counted, so the loop stops.
SessionEnds == <>Over

----------------------------------------------------------------------------
(* The inductive invariant behind TarExclusive and StackEmptyAtScan.       *)

\* Who calls poll_fewer_than from where; the cursor is used by the retry loop.
PhaseInv ==
  /\ pc = "enqueue" => call = "enqueue"
  /\ pc = "retry" => call = "retry"
  /\ pc \in {"join", "scan"} => call = "end"
  /\ call # "retry" => left = 0

\* Only accepted files are in use, each by one party.
UseInv ==
  /\ \A f \in Files : InUse(f) => f \in hashmap
  /\ \A f \in Files : ~(conn[f] # "off" /\ AwaitingCallback(f))
  /\ worker # None => \A i \in DOMAIN queue : queue[i] # worker
  /\ \A i, j \in DOMAIN queue : queue[i] = queue[j] => i = j

\* The hash map holds one file per hash.
HashInv == \A f, g \in hashmap : HashOf[f] = HashOf[g] => f = g

Exhausted(f) == retries[f] = MaxRetries

\* Before the cursor every item has used up its retries; at and after it a
\* file that has not is there once and nobody uses it.
ListInv ==
  /\ \A f \in Files : status[f] = "write_error" => Exhausted(f)
  /\ \A i \in 1 .. Len(failed) : i < Cursor => Exhausted(failed[i])
  /\ \A i \in Cursor .. Len(failed) : ~Exhausted(failed[i]) =>
       /\ failed[i] \in hashmap /\ ~InUse(failed[i])
       /\ \A j \in Cursor .. Len(failed) : failed[j] = failed[i] => i = j

\* The counter is right, and the loop of parallel_download_end goes on only
\* with an empty multi stack, its scan only with an idle worker.
CountInv ==
  /\ mcurl_size = Cardinality(Attached)
  /\ pc \in {"join", "scan"} => Attached = {}
  /\ pc = "scan" => PoolIdle

\* The retry list never makes a file be downloaded twice at once: the facts
\* above hold together after every step, of whichever party.
IInv == PhaseInv /\ UseInv /\ HashInv /\ ListInv /\ CountInv

\* The refinement: what the client sees of a session is what is staged, not
\* what its callback has answered.
Session == INSTANCE DownloadSession WITH
  Wanted <- Wanted,
  Lossy <- TRUE \in FailedCallbackReturns,
  delivered <- staged,
  lost <- Lost,
  verdict <- IF Over THEN ret ELSE "none"

\* Every behaviour of the downloader is a download session.
ImplementsSession == Session!Spec
=============================================================================

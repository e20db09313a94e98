---------------------- MODULE ParallelDownloadRefinement ----------------------
(***************************************************************************)
(* What a session of ParallelDownload delivers: its callbacks get whole    *)
(* tars, each file ends handled or on the failed list, the default three   *)
(* retries repair one fault, and the session implements DownloadSession,   *)
(* for every set of files and any faults.                                  *)
(***************************************************************************)
EXTENDS ParallelDownloadProofs

USE DEF mainVars, handleVars, fileVars, poolVars, diskVars, budgets, vars

\* The file is somewhere on the failed list.
OnList(f) == \E i \in DOMAIN failed : failed[i] = f

\* A callback is due only for a file that has arrived.
WholeInv ==
  /\ CallbackOnWholeTar
  /\ \A f \in Files : AwaitingCallback(f) => status[f] = "completed"

\* A file that is downloaded or extracted is neither handled nor on the failed
\* list; of the files that are handled those are there that did not arrive, and
\* they are not tried again.
AccountInv ==
  /\ \A f \in Files : InUse(f) => ~cb_retval[f] /\ ~OnList(f)
  /\ \A f \in Files : cb_retval[f] \/ OnList(f) => f \in hashmap
  /\ \A f \in Files : cb_retval[f] => IF status[f] = "completed" THEN ~OnList(f)
                                      ELSE OnList(f) /\ Exhausted(f)

\* While no retry is due nothing is under way, and each file is accounted for;
\* only then, or after an error of the multi interface, the loop is left.
LoopInv ==
  /\ ~retry => /\ Attached = {} /\ PoolIdle
               /\ \A f \in hashmap : cb_retval[f] \/ OnList(f)
  /\ call = "enqueue" => retry
  /\ pc = "cancel" => call = "enqueue"
  /\ pc = "finish" => call = "end"
  /\ merrors <= MultiErrorBudget
  /\ call = "end" /\ pc \in {"finish", "clear", "done"} /\ merrors = MultiErrorBudget => ~retry

\* Success is answered after the loop, by an empty failed list; by then every
\* file has been accepted or has a twin that was.
AnswerInv ==
  /\ call # "enqueue" => hashmap \union skipped = Files
  /\ \A f \in skipped : \E g \in hashmap : HashOf[g] = HashOf[f]
  /\ pc \in {"clear", "done"} => ret \in {"ok", "failed"}
  /\ pc \in {"clear", "done"} /\ ret = "ok" => call = "end" /\ failed = <<>>

DInv == WholeInv /\ AccountInv /\ LoopInv /\ AnswerInv

----------------------------------------------------------------------------
(* Lemmas: who touches what.                                               *)

\* Two files in use have different tars, and a file in use has been accepted.
LEMMA OneUser ==
  ASSUME TypeOK, IInv
  PROVE  /\ \A f \in Files : InUse(f) => f \in hashmap
         /\ \A f, g \in Files : InUse(f) /\ g \in hashmap /\ HashOf[f] = HashOf[g] => f = g
BY DEF TypeOK, IInv, UseInv, HashInv

\* A callback changes the tar, the staged content and the result of its file only.
LEMMA CallbackEffect ==
  ASSUME TypeOK, NEW f \in Files, RunCallback(f)
  PROVE  /\ \A g \in Files \ {f} : cb_retval'[g] = cb_retval[g]
         /\ \A h \in Hashes \ {HashOf[f]} : tar'[h] = tar[h] /\ (h \in staged => h \in staged')
BY DEF TypeOK, RunCallback, CallbackOk, CallbackFails

\* Starting a transfer touches the tar and the handle of its file only.
LEMMA StartEffect ==
  ASSUME TypeOK, NEW f \in Files, conn[f] = "off", NEW n, NEW t,
         StartTransfer(f, n, t) \/ SetupError(f, n, t)
  PROVE  /\ conn'[f] # "completed"
         /\ \A g \in Files \ {f} : conn'[g] = conn[g]
         /\ \A h \in Hashes \ {HashOf[f]} : tar'[h] = tar[h]
         /\ pc' \in {"enter", "cancel", "retry"}
         /\ pc' = "cancel" => call = "enqueue"
<1>1. CASE StartTransfer(f, n, t)
  <2>1. /\ conn' = [conn EXCEPT ![f] = Mode(f, n, t)] /\ Mode(f, n, t) \in {"resume", "fresh"}
        /\ pc' = "enter"
        /\ \E u : tar' = [tar EXCEPT ![HashOf[f]] = u]
    BY <1>1 DEF StartTransfer, Mode
  <2> QED BY <2>1 DEF TypeOK
<1>2. CASE SetupError(f, n, t)
  <2>1. /\ conn' = conn
        /\ \E u : tar' = [tar EXCEPT ![HashOf[f]] = u]
        /\ pc' \in {"cancel", "retry"} /\ (pc' = "cancel" => call = "enqueue")
    BY <1>2 DEF SetupError
  <2> QED BY <2>1 DEF TypeOK
<1> QED BY <1>1, <1>2

\* A transfer that ends with "completed" has left a whole tar.
LEMMA CompletedIsWhole ==
  ASSUME TypeOK, NEW f \in Files, conn[f] \in Active,
         NEW o \in Outcomes(f) \union FaultyOutcomes(f), o[1] = "completed"
  PROVE  o[2] = "complete"
<1>1. "completed" \notin Failures
  BY ConstantsAssumption DEF DontRetryStatuses, RetriableFailures
<1>2. CASE o \in Outcomes(f)
  BY <1>2 DEF Outcomes
<1>3. CASE o \in FaultyOutcomes(f)
  BY <1>1, <1>3 DEF FaultyOutcomes
<1> QED BY <1>2, <1>3

\* A step that handles no file, puts none on the list and starts no transfer.
LEMMA QuietStep ==
  ASSUME TypeOK, WholeInv, AccountInv,
         UNCHANGED <<hashmap, failed, cb_retval, status, retries, tar>>,
         \A g \in Files : AwaitingCallback(g)' => AwaitingCallback(g),
         \A g \in Files : conn'[g] \in {"off", conn[g]}
  PROVE  WholeInv' /\ AccountInv'
<1>1. \A g \in Files : InUse(g)' => InUse(g)
  BY DEF InUse
<1>2. \A g \in Files : /\ OnList(g)' <=> OnList(g)
                       /\ Exhausted(g)' <=> Exhausted(g)
  BY DEF OnList, Exhausted
<1>3. WholeInv'
  BY DEF WholeInv, CallbackOnWholeTar
<1>4. AccountInv'
  BY <1>1, <1>2 DEF AccountInv
<1> QED BY <1>3, <1>4

----------------------------------------------------------------------------
(* The invariant, action by action.                                        *)

LEMMA InitDelivery == Init => DInv
<1> SUFFICES ASSUME Init PROVE DInv
  OBVIOUS
<1>1. \A f \in Files : ~AwaitingCallback(f) /\ ~InUse(f) /\ ~OnList(f)
  BY ConstantsAssumption DEF Init, AwaitingCallback, InUse, OnList
<1>2. WholeInv
  BY <1>1 DEF Init, WholeInv, CallbackOnWholeTar
<1>3. AccountInv
  BY <1>1 DEF Init, AccountInv
<1>4. LoopInv /\ AnswerInv
  BY ConstantsAssumption DEF Init, LoopInv, AnswerInv
<1> QED BY <1>2, <1>3, <1>4 DEF DInv

\* A new file: nobody uses its tar.
LEMMA EnqueueDelivery ==
  ASSUME TypeOK, IInv, DInv, NEW f \in Files, Enqueue(f)
  PROVE  DInv'
<1> USE DEF DInv
<1>1. /\ f \notin hashmap /\ hashmap' = hashmap \union {f} /\ ~KnownHash(f)
      /\ pc = "enqueue" /\ call = "enqueue"
      /\ StartTransfer(f, 0, "absent") \/ SetupError(f, 0, "absent")
      /\ UNCHANGED <<call, retry, ret, skipped, failed, cb_retval, status, retries, queue, worker,
                     merrors>>
  BY DEF Enqueue, IInv, PhaseInv
<1>2. ~InUse(f) /\ conn[f] = "off" /\ ~AwaitingCallback(f)
  BY <1>1, OneUser DEF InUse
<1>3. /\ conn'[f] # "completed"
      /\ \A g \in Files \ {f} : conn'[g] = conn[g]
      /\ \A h \in Hashes \ {HashOf[f]} : tar'[h] = tar[h]
      /\ pc' \in {"enter", "cancel", "retry"}
  BY <1>1, <1>2, StartEffect
<1>4. \A g \in Files : /\ AwaitingCallback(g)' <=> AwaitingCallback(g)
                       /\ OnList(g)' <=> OnList(g)
                       /\ Exhausted(g)' <=> Exhausted(g)
                       /\ g # f => (InUse(g)' <=> InUse(g))
  BY <1>1, <1>3 DEF AwaitingCallback, OnList, Exhausted, InUse
<1>5. \A g \in hashmap : HashOf[g] # HashOf[f] /\ HashOf[g] \in Hashes
  BY <1>1, ConstantsAssumption DEF KnownHash, TypeOK
<1>6. WholeInv'
  <2>1. \A g \in Files : AwaitingCallback(g)' \/ conn'[g] = "completed" =>
          g # f /\ g \in hashmap /\ (AwaitingCallback(g) \/ conn[g] = "completed")
    BY <1>2, <1>3, <1>4, OneUser DEF InUse
  <2> QED BY <1>1, <1>3, <1>4, <1>5, <2>1 DEF WholeInv, CallbackOnWholeTar
<1>7. AccountInv'
  <2>1. ~cb_retval[f] /\ ~OnList(f)
    BY <1>1 DEF AccountInv
  <2> QED BY <1>1, <1>4, <2>1 DEF AccountInv
<1>8. LoopInv' /\ AnswerInv'
  BY <1>1, <1>3 DEF LoopInv, AnswerInv
<1> QED BY <1>6, <1>7, <1>8

\* A retried file leaves the list, where it was once, and has not been handled.
LEMMA RetryDelivery ==
  ASSUME TypeOK, IInv, DInv, RetryOne
  PROVE  DInv'
<1> USE DEF DInv
<1> DEFINE f == failed[Cursor]
           n == retries[f] + 1
           t == tar[HashOf[f]]
<1>1. /\ Cursor \in 1 .. Len(failed) /\ Len(failed) \in Nat /\ DOMAIN failed = 1 .. Len(failed)
      /\ failed \in Seq(Files) /\ f \in Files
  BY LenProperties, ElementOfSeq DEF TypeOK, RetryOne, Cursor
<1>2. /\ pc = "retry" /\ call = "retry"
      /\ StartTransfer(f, n, t) \/ SetupError(f, n, t)
      /\ retries' = [retries EXCEPT ![f] = n]
      /\ failed' = RemoveAt(failed, Cursor)
      /\ retry' = TRUE
      /\ UNCHANGED <<call, ret, hashmap, skipped, status, cb_retval, queue, worker, merrors>>
  BY DEF RetryOne, IInv, PhaseInv
<1>3. ~Exhausted(f)
  BY <1>1, ConstantsAssumption DEF RetryOne, MayRetry, Exhausted, TypeOK
<1>4. /\ f \in hashmap /\ ~InUse(f) /\ conn[f] = "off" /\ ~AwaitingCallback(f)
      /\ \A j \in 1 .. Len(failed) : failed[j] = f => j = Cursor
  <2>1. \A j \in 1 .. Len(failed) : j < Cursor => failed[j] # f
    BY <1>3 DEF IInv, ListInv
  <2>2. /\ f \in hashmap /\ ~InUse(f)
        /\ \A j \in Cursor .. Len(failed) : failed[j] = f => j = Cursor
    BY <1>1, <1>3 DEF IInv, ListInv
  <2>3. \A j \in 1 .. Len(failed) : j < Cursor \/ j \in Cursor .. Len(failed)
    BY <1>1
  <2> QED BY <2>1, <2>2, <2>3 DEF InUse
<1>5. OnList(f) /\ ~cb_retval[f]
  BY <1>1, <1>3 DEF OnList, AccountInv
<1> HIDE DEF n, t
<1>6. /\ conn'[f] # "completed"
      /\ \A g \in Files \ {f} : conn'[g] = conn[g]
      /\ \A h \in Hashes \ {HashOf[f]} : tar'[h] = tar[h]
      /\ pc' \in {"enter", "retry"}
  BY <1>1, <1>2, <1>4, StartEffect
<1>7. \A g \in Files : OnList(g)' <=> OnList(g) /\ g # f
  <2>1. /\ failed' \in Seq(Files) /\ Len(failed') = Len(failed) - 1
        /\ \A i \in 1 .. Len(failed) - 1 :
             failed'[i] = IF i < Cursor THEN failed[i] ELSE failed[i + 1]
    BY <1>1, <1>2, RemoveAtProperties
  <2>2. DOMAIN failed' = 1 .. Len(failed) - 1
    BY <2>1, LenProperties
  <2>3. ASSUME NEW i \in DOMAIN failed' PROVE failed'[i] # f /\ OnList(failed'[i])
    <3>1. CASE i < Cursor
      <4>1. i \in 1 .. Len(failed) /\ failed'[i] = failed[i] /\ i # Cursor
        BY <1>1, <2>1, <2>2, <3>1
      <4> QED BY <1>1, <1>4, <4>1 DEF OnList
    <3>2. CASE i >= Cursor
      <4>1. i + 1 \in 1 .. Len(failed) /\ failed'[i] = failed[i + 1] /\ i + 1 # Cursor
        BY <1>1, <2>1, <2>2, <3>2
      <4> QED BY <1>1, <1>4, <4>1 DEF OnList
    <3> QED BY <1>1, <2>2, <3>1, <3>2
  <2>4. ASSUME NEW j \in DOMAIN failed, failed[j] # f
        PROVE  \E i \in DOMAIN failed' : failed'[i] = failed[j]
    <3>1. j # Cursor
      BY <2>4
    <3>2. CASE j < Cursor
      <4>1. j \in 1 .. Len(failed) - 1 /\ failed'[j] = failed[j]
        BY <1>1, <2>1, <3>2
      <4> QED BY <2>2, <4>1
    <3>3. CASE j > Cursor
      <4>1. j - 1 \in 1 .. Len(failed) - 1 /\ ~(j - 1 < Cursor) /\ (j - 1) + 1 = j
        BY <1>1, <3>3
      <4> QED BY <2>1, <2>2, <4>1
    <3> QED BY <1>1, <3>1, <3>2, <3>3
  <2> HIDE DEF f
  <2> QED BY <2>3, <2>4 DEF OnList
<1>8. \A g \in Files : /\ AwaitingCallback(g)' <=> AwaitingCallback(g)
                       /\ g # f => (InUse(g)' <=> InUse(g)) /\ (Exhausted(g)' <=> Exhausted(g))
  BY <1>1, <1>2, <1>6 DEF AwaitingCallback, InUse, Exhausted, TypeOK
<1>9. WholeInv'
  <2>1. \A g \in Files : AwaitingCallback(g)' \/ conn'[g] = "completed" =>
          /\ g # f /\ (AwaitingCallback(g) \/ conn[g] = "completed")
          /\ HashOf[g] \in Hashes \ {HashOf[f]}
    BY <1>1, <1>4, <1>6, <1>8, OneUser, ConstantsAssumption DEF InUse
  <2> QED BY <1>2, <1>6, <1>8, <2>1 DEF WholeInv, CallbackOnWholeTar
<1>10. AccountInv'
  <2> HIDE DEF f
  <2> QED BY <1>1, <1>2, <1>4, <1>5, <1>7, <1>8 DEF AccountInv
<1>11. LoopInv' /\ AnswerInv'
  BY <1>2, <1>6 DEF LoopInv, AnswerInv
<1> QED BY <1>9, <1>10, <1>11

\* The scan puts on the list what has not been handled.
LEMMA ScanDelivery ==
  ASSUME TypeOK, IInv, DInv, Scan
  PROVE  DInv'
<1> USE DEF DInv
<1> DEFINE m == Cardinality(Unhandled)
<1>1. PICK order \in Bijection(1 .. m, Unhandled) : failed' = order \o failed
  BY DEF Scan
<1>2. /\ pc = "scan" /\ pc' = "retry" /\ call' = "retry" /\ retry' = FALSE /\ call = "end"
      /\ UNCHANGED <<hashmap, skipped, conn, status, retries, cb_retval, queue, worker, tar,
                     merrors, ret>>
  BY DEF Scan, IInv, PhaseInv
<1>3. Unhandled \subseteq hashmap /\ hashmap \subseteq Files /\ m \in Nat
  <2>1. Unhandled \subseteq hashmap /\ hashmap \subseteq Files
    BY DEF Unhandled, TypeOK
  <2> QED BY <2>1, ConstantsAssumption, FS_Subset, FS_CardinalityType
<1> HIDE DEF m
<1>4. /\ order \in Seq(Files) /\ Len(order) = m
      /\ \A i \in 1 .. m : order[i] \in Unhandled
      /\ \A g \in Unhandled : \E i \in 1 .. m : order[i] = g
  BY <1>3 DEF Bijection, Surjection, Injection
<1>5. Attached = {} /\ PoolIdle
  BY <1>2 DEF IInv, CountInv
<1>6. \A g \in Files : OnList(g)' <=> OnList(g) \/ g \in Unhandled
  <2>1. failed \in Seq(Files) /\ Len(failed) \in Nat /\ DOMAIN failed = 1 .. Len(failed)
    BY LenProperties DEF TypeOK
  <2>2. /\ Len(order \o failed) = Len(order) + Len(failed)
        /\ order \o failed \in Seq(Files)
        /\ \A i \in 1 .. Len(order) + Len(failed) :
             (order \o failed)[i] = IF i <= Len(order) THEN order[i]
                                                        ELSE failed[i - Len(order)]
    BY ONLY <1>4, <2>1, ConcatProperties, Zenon
  <2>3. DOMAIN failed' = 1 .. m + Len(failed)
    BY <1>1, <1>4, <2>2, LenProperties
  <2>4. \A i \in 1 .. m : i \in DOMAIN failed' /\ failed'[i] = order[i]
    BY <1>1, <1>3, <1>4, <2>1, <2>2, <2>3
  <2>5. \A i \in 1 .. Len(failed) : i + m \in DOMAIN failed' /\ failed'[i + m] = failed[i]
    <3> TAKE i \in 1 .. Len(failed)
    <3>1. i + m \in 1 .. m + Len(failed) /\ ~(i + m <= m) /\ (i + m) - m = i
      BY <1>3, <2>1
    <3> QED BY <1>1, <1>4, <2>2, <2>3, <3>1
  <2>6. \A i \in DOMAIN failed' : i \in 1 .. m \/ i - m \in 1 .. Len(failed)
    BY <1>3, <2>1, <2>3
  <2>7. ASSUME NEW g \in Files, OnList(g)' PROVE OnList(g) \/ g \in Unhandled
    <3>1. PICK i \in DOMAIN failed' : failed'[i] = g
      BY <2>7 DEF OnList
    <3>2. CASE i \in 1 .. m
      BY <1>4, <2>4, <3>1, <3>2
    <3>3. CASE i - m \in 1 .. Len(failed)
      <4>1. (i - m) + m = i
        BY <1>3, <2>1, <2>3
      <4>2. failed[i - m] = g
        BY <2>5, <3>1, <3>3, <4>1
      <4> QED BY <2>1, <3>3, <4>2 DEF OnList
    <3> QED BY <2>6, <3>2, <3>3
  <2>8. ASSUME NEW g \in Files, OnList(g) \/ g \in Unhandled PROVE OnList(g)'
    <3>1. CASE OnList(g)
      <4>1. PICK i \in 1 .. Len(failed) : failed[i] = g
        BY <2>1, <3>1 DEF OnList
      <4> QED BY <2>5, <4>1 DEF OnList
    <3>2. CASE g \in Unhandled
      BY <1>4, <2>4, <3>2 DEF OnList
    <3> QED BY <2>8, <3>1, <3>2
  <2> QED BY <2>7, <2>8
<1>7. \A g \in Files : ~AwaitingCallback(g)' /\ ~InUse(g)' /\ (Exhausted(g)' <=> Exhausted(g))
  BY <1>2, <1>5, ConstantsAssumption DEF AwaitingCallback, InUse, Attached, PoolIdle, Exhausted
<1>8. WholeInv'
  BY <1>2, <1>7 DEF WholeInv, CallbackOnWholeTar, InUse
<1>9. AccountInv'
  BY <1>2, <1>3, <1>6, <1>7 DEF AccountInv, Unhandled
<1>10. LoopInv'
  BY <1>2, <1>3, <1>5, <1>6 DEF LoopInv, Attached, PoolIdle, Unhandled
<1>11. AnswerInv'
  BY <1>2 DEF AnswerInv
<1> QED BY <1>8, <1>9, <1>10, <1>11

\* A message of the multi stack: what arrived is handed on or extracted, what
\* failed for good goes to the list, and the rest is left to the next scan.
LEMMA DrainDelivery ==
  ASSUME TypeOK, IInv, DInv, NEW f \in Files, DrainOne(f)
  PROVE  DInv'
<1> USE DEF DInv
<1>1. /\ conn[f] # "off" /\ InUse(f) /\ ~AwaitingCallback(f) /\ ~cb_retval[f] /\ ~OnList(f)
      /\ f \in hashmap
  <2>1. conn[f] # "off" /\ InUse(f)
    BY OffIsNoTransfer DEF DrainOne, InUse
  <2> QED BY <2>1, OneUser DEF AccountInv, IInv, UseInv
<1>2. /\ pc = "drain"
      /\ UNCHANGED <<pc, call, retry, ret, hashmap, skipped, worker, merrors>>
      /\ status' = [status EXCEPT ![f] = conn[f]]
      /\ conn' = [conn EXCEPT ![f] = "off"]
  BY DEF DrainOne, DetachRead
<1>3. /\ conn'[f] = "off" /\ status'[f] = conn[f]
      /\ \A g \in Files \ {f} : conn'[g] = conn[g] /\ status'[g] = status[g]
  BY <1>2 DEF TypeOK
<1>4. retry
  BY <1>1 DEF LoopInv, Attached
<1>5. LoopInv' /\ AnswerInv'
  BY <1>2, <1>4 DEF LoopInv, AnswerInv
<1>6. \A g \in Files \ {f} : InUse(g) => HashOf[g] \in Hashes \ {HashOf[f]}
  BY <1>1, OneUser, ConstantsAssumption
<1>7. CASE ReadCompleted(f) /\ queue' = Append(queue, f) /\ UNCHANGED <<cb_retval, diskVars>>
  <2>1. conn[f] = "completed" /\ UNCHANGED <<failed, retries, cb_retval, tar>>
    BY <1>7 DEF ReadCompleted
  <2>2. \A g \in Files : AwaitingCallback(g)' <=> AwaitingCallback(g) \/ g = f
    <3>1. /\ DOMAIN queue = 1 .. Len(queue) /\ DOMAIN queue' = 1 .. Len(queue) + 1
          /\ Len(queue) \in Nat
          /\ \A i \in 1 .. Len(queue) : queue'[i] = queue[i]
          /\ queue'[Len(queue) + 1] = f
      BY <1>7, AppendProperties, LenProperties DEF TypeOK
    <3> QED BY <1>2, <3>1 DEF AwaitingCallback
  <2>3. \A g \in Files : /\ InUse(g)' => InUse(g)
                         /\ OnList(g)' <=> OnList(g)
                         /\ Exhausted(g)' <=> Exhausted(g)
    BY <1>1, <1>3, <2>1, <2>2 DEF InUse, OnList, Exhausted
  <2>4. WholeInv'
    BY <1>3, <2>1, <2>2 DEF WholeInv, CallbackOnWholeTar
  <2>5. AccountInv'
    BY <1>1, <1>2, <1>3, <2>1, <2>3 DEF AccountInv
  <2> QED BY <1>5, <2>4, <2>5
<1>8. CASE ReadCompleted(f) /\ RunCallback(f) /\ UNCHANGED queue
  <2>1. conn[f] = "completed" /\ UNCHANGED <<failed, retries>>
    BY <1>8 DEF ReadCompleted
  <2>2. /\ \A g \in Files \ {f} : cb_retval'[g] = cb_retval[g]
        /\ \A h \in Hashes \ {HashOf[f]} : tar'[h] = tar[h]
    BY <1>8, CallbackEffect
  <2>3. \A g \in Files : AwaitingCallback(g)' <=> AwaitingCallback(g)
    BY <1>2, <1>8 DEF AwaitingCallback
  <2>4. \A g \in Files : /\ InUse(g)' => InUse(g) /\ g # f
                         /\ OnList(g)' <=> OnList(g)
                         /\ Exhausted(g)' <=> Exhausted(g)
    BY <1>1, <1>3, <2>1, <2>3 DEF InUse, OnList, Exhausted
  <2>5. WholeInv'
    <3>1. \A g \in Files : AwaitingCallback(g)' \/ conn'[g] = "completed" =>
            g # f /\ InUse(g) /\ (AwaitingCallback(g) \/ conn[g] = "completed")
      BY <1>1, <1>3, <2>3 DEF InUse
    <3> QED BY <1>3, <1>6, <2>2, <2>3, <3>1 DEF WholeInv, CallbackOnWholeTar
  <2>6. AccountInv'
    BY <1>1, <1>2, <1>3, <2>1, <2>2, <2>4 DEF AccountInv
  <2> QED BY <1>5, <2>5, <2>6
<1>9. CASE ReadFinalError(f)
  <2>1. /\ conn[f] # "completed" /\ failed' = <<f>> \o failed
        /\ retries' = [retries EXCEPT ![f] = MaxRetries]
        /\ cb_retval' = [cb_retval EXCEPT ![f] = TRUE]
        /\ UNCHANGED <<queue, tar>>
    BY <1>9 DEF ReadFinalError
  <2>2. /\ cb_retval'[f] /\ Exhausted(f)'
        /\ \A g \in Files \ {f} : /\ cb_retval'[g] = cb_retval[g]
                                  /\ Exhausted(g)' <=> Exhausted(g)
    BY <2>1 DEF TypeOK, Exhausted
  <2>3. \A g \in Files : OnList(g)' <=> OnList(g) \/ g = f
    <3>1. failed \in Seq(Files) /\ Len(failed) \in Nat /\ DOMAIN failed = 1 .. Len(failed)
      BY LenProperties DEF TypeOK
    <3>2. /\ DOMAIN failed' = 1 .. 1 + Len(failed)
          /\ failed'[1] = f
          /\ \A i \in 1 .. Len(failed) : failed'[i + 1] = failed[i]
      BY <2>1, <3>1, ConcatProperties
    <3>3. \A i \in 1 .. Len(failed) : i + 1 \in DOMAIN failed'
      BY <3>1, <3>2
    <3>4. \A i \in DOMAIN failed' : i = 1 \/ (i - 1 \in 1 .. Len(failed) /\ (i - 1) + 1 = i)
      BY <3>1, <3>2
    <3>5. 1 \in DOMAIN failed'
      BY <3>1, <3>2
    <3>6. ASSUME NEW g \in Files, OnList(g)' PROVE OnList(g) \/ g = f
      <4>1. PICK i \in DOMAIN failed' : failed'[i] = g
        BY <3>6 DEF OnList
      <4>2. CASE i = 1
        BY <3>2, <4>1, <4>2
      <4>3. CASE i - 1 \in 1 .. Len(failed) /\ (i - 1) + 1 = i
        <5>1. failed[i - 1] = g
          BY <3>2, <4>1, <4>3
        <5> QED BY <3>1, <4>3, <5>1 DEF OnList
      <4> QED BY <3>4, <4>2, <4>3
    <3>7. ASSUME NEW g \in Files, OnList(g) PROVE OnList(g)'
      <4>1. PICK i \in 1 .. Len(failed) : failed[i] = g
        BY <3>1, <3>7 DEF OnList
      <4> QED BY <3>2, <3>3, <4>1 DEF OnList
    <3>8. OnList(f)'
      BY <3>2, <3>5 DEF OnList
    <3> QED BY <3>6, <3>7, <3>8
  <2>4. \A g \in Files : /\ AwaitingCallback(g)' <=> AwaitingCallback(g)
                         /\ InUse(g)' => InUse(g) /\ g # f
    BY <1>1, <1>2, <1>3, <2>1 DEF AwaitingCallback, InUse
  <2>5. WholeInv'
    BY <1>1, <1>3, <2>1, <2>4 DEF WholeInv, CallbackOnWholeTar
  <2>6. AccountInv'
    BY <1>1, <1>2, <1>3, <2>1, <2>2, <2>3, <2>4 DEF AccountInv
  <2> QED BY <1>5, <2>5, <2>6
<1>10. CASE ReadRetriableError(f)
  <2>1. conn[f] # "completed" /\ UNCHANGED <<retries, cb_retval, failed, queue, tar>>
    BY <1>10 DEF ReadRetriableError
  <2>2. \A g \in Files : /\ AwaitingCallback(g)' <=> AwaitingCallback(g)
                         /\ InUse(g)' => InUse(g) /\ g # f
                         /\ OnList(g)' <=> OnList(g)
                         /\ Exhausted(g)' <=> Exhausted(g)
    BY <1>1, <1>2, <1>3, <2>1 DEF AwaitingCallback, InUse, OnList, Exhausted
  <2>3. WholeInv'
    BY <1>1, <1>3, <2>1, <2>2 DEF WholeInv, CallbackOnWholeTar
  <2>4. AccountInv'
    BY <1>1, <1>2, <1>3, <2>1, <2>2 DEF AccountInv
  <2> QED BY <1>5, <2>3, <2>4
<1> QED BY <1>7, <1>8, <1>9, <1>10 DEF DrainOne, ReadCompleted

\* The worker extracts a file: nobody else uses its tar.
LEMMA CallbackDelivery ==
  ASSUME TypeOK, IInv, DInv, WorkerRuns
  PROVE  DInv'
<1> USE DEF DInv
<1>1. PICK f \in Files : f = worker
  BY DEF WorkerRuns, TypeOK
<1>2. /\ RunCallback(f) /\ worker' = None
      /\ UNCHANGED <<pc, call, retry, ret, hashmap, skipped, failed, conn, status, retries,
                     queue, merrors>>
  BY <1>1 DEF WorkerRuns
<1>3. /\ AwaitingCallback(f) /\ InUse(f) /\ ~cb_retval[f] /\ ~OnList(f)
      /\ f \in hashmap /\ conn[f] = "off" /\ status[f] = "completed"
  <2>1. AwaitingCallback(f) /\ InUse(f)
    BY <1>1 DEF AwaitingCallback, InUse
  <2> QED BY <2>1, OneUser DEF AccountInv, WholeInv, IInv, UseInv
<1>4. /\ \A g \in Files \ {f} : cb_retval'[g] = cb_retval[g]
      /\ \A h \in Hashes \ {HashOf[f]} : tar'[h] = tar[h]
  BY <1>2, CallbackEffect
<1>5. \A g \in Files : AwaitingCallback(g)' => AwaitingCallback(g) /\ g # f
  <2>1. \A i \in DOMAIN queue : queue[i] # f
    BY <1>1, ConstantsAssumption DEF IInv, UseInv
  <2> QED BY <1>2, <2>1, ConstantsAssumption DEF AwaitingCallback
<1>6. \A g \in Files : /\ InUse(g)' => InUse(g) /\ g # f
                       /\ OnList(g)' <=> OnList(g)
                       /\ Exhausted(g)' <=> Exhausted(g)
  BY <1>2, <1>3, <1>5 DEF InUse, OnList, Exhausted
<1>7. WholeInv'
  <2>1. \A g \in Files : AwaitingCallback(g)' \/ conn'[g] = "completed" =>
          /\ g # f /\ (AwaitingCallback(g) \/ conn[g] = "completed")
          /\ HashOf[g] \in Hashes \ {HashOf[f]}
    BY <1>2, <1>3, <1>5, OneUser, ConstantsAssumption DEF InUse
  <2> QED BY <1>2, <1>4, <1>5, <2>1 DEF WholeInv, CallbackOnWholeTar
<1>8. AccountInv'
  BY <1>2, <1>3, <1>4, <1>6 DEF AccountInv
<1>9. LoopInv' /\ AnswerInv'
  <2>1. retry
    BY <1>1, ConstantsAssumption DEF LoopInv, PoolIdle
  <2> QED BY <1>2, <2>1 DEF LoopInv, AnswerInv
<1> QED BY <1>7, <1>8, <1>9

\* A transfer ends: "completed" means that the whole tar has arrived.
LEMMA TransferDelivery ==
  ASSUME TypeOK, IInv, DInv, NEW f \in Files, TransferEnds(f)
  PROVE  DInv'
<1> USE DEF DInv
<1>1. PICK o \in Outcomes(f) \union FaultyOutcomes(f) :
        conn' = [conn EXCEPT ![f] = o[1]] /\ tar' = [tar EXCEPT ![HashOf[f]] = o[2]]
  BY DEF TransferEnds
<1>2. /\ conn[f] \in Active
      /\ UNCHANGED <<pc, call, retry, ret, hashmap, skipped, failed, status, retries, cb_retval,
                     queue, worker, merrors>>
  BY DEF TransferEnds
<1>3. /\ HashOf[f] \in Hashes
      /\ conn'[f] = o[1] /\ tar'[HashOf[f]] = o[2]
      /\ \A g \in Files \ {f} : conn'[g] = conn[g]
      /\ \A h \in Hashes \ {HashOf[f]} : tar'[h] = tar[h]
  BY <1>1, ConstantsAssumption DEF TypeOK
<1>4. conn'[f] = "completed" => tar'[HashOf[f]] = "complete"
  BY <1>2, <1>3, CompletedIsWhole
<1>5. /\ conn[f] # "off" /\ InUse(f) /\ ~AwaitingCallback(f) /\ f \in hashmap /\ retry
  <2>1. conn[f] # "off" /\ InUse(f)
    BY <1>2, OffIsNoTransfer DEF InUse
  <2> QED BY <2>1, OneUser DEF IInv, UseInv, LoopInv, Attached
<1>6. \A g \in Files : /\ AwaitingCallback(g)' <=> AwaitingCallback(g)
                       /\ InUse(g)' => InUse(g)
                       /\ OnList(g)' <=> OnList(g)
                       /\ Exhausted(g)' <=> Exhausted(g)
  BY <1>2, <1>3, <1>5 DEF AwaitingCallback, InUse, OnList, Exhausted
<1>7. WholeInv'
  <2>1. ASSUME NEW g \in Files, AwaitingCallback(g)' \/ conn'[g] = "completed"
        PROVE  tar'[HashOf[g]] = "complete"
    <3>1. CASE g = f
      BY <1>4, <1>5, <1>6, <2>1, <3>1
    <3>2. CASE g # f
      <4>1. AwaitingCallback(g) \/ conn[g] = "completed"
        BY <1>3, <1>6, <2>1, <3>2
      <4>2. HashOf[g] \in Hashes \ {HashOf[f]}
        BY <1>5, <3>2, <4>1, OneUser, ConstantsAssumption DEF InUse
      <4> QED BY <1>3, <4>1, <4>2 DEF WholeInv, CallbackOnWholeTar
    <3> QED BY <3>1, <3>2
  <2> QED BY <1>2, <1>6, <2>1 DEF WholeInv, CallbackOnWholeTar
<1>8. AccountInv'
  BY <1>2, <1>6 DEF AccountInv
<1>9. LoopInv' /\ AnswerInv'
  BY <1>2, <1>5 DEF LoopInv, AnswerInv
<1> QED BY <1>7, <1>8, <1>9

\* What poll_fewer_than returns to: the loop of parallel_download_end is left
\* on an error, or when no retry is due.
LEMMA PollDelivery ==
  ASSUME TypeOK, IInv, LoopInv, AnswerInv, PollEnter \/ PollPerform \/ MultiError \/ DrainEnd
  PROVE  LoopInv' /\ AnswerInv'
<1>1. /\ UNCHANGED <<call, retry, ret, hashmap, skipped, failed, cb_retval, conn, queue, worker>>
      /\ merrors' <= merrors /\ merrors' \in Nat /\ merrors \in Nat
      /\ pc \notin {"clear", "done", "finish", "cancel"}
  BY DEF PollEnter, PollPerform, MultiError, DrainEnd, TypeOK
<1>2. \/ pc' \in {"perform", "drain"}
      \/ PollReturns(-1) /\ merrors' < merrors
      \/ PollReturns(0)
      \/ PollReturns(PollResult) /\ UNCHANGED merrors
  BY DEF PollEnter, PollPerform, MultiError, DrainEnd, TypeOK
<1>3. call = "end" => PollResult = 0
  BY DEF PollResult, XferLow, XferHigh
<1>4. /\ pc' \in {"perform", "drain", "cancel", "enqueue", "retry", "join", "finish"}
      /\ pc' = "cancel" => call = "enqueue"
      /\ pc' = "finish" => call = "end"
      /\ pc' = "finish" => ~retry \/ merrors' < merrors
  BY <1>2, <1>3 DEF PollReturns, TypeOK
<1>5. \A g \in Files : OnList(g)' <=> OnList(g)
  BY <1>1 DEF OnList
<1>6. LoopInv'
  <2>1. Attached' = Attached /\ (PoolIdle' <=> PoolIdle)
    BY <1>1 DEF Attached, PoolIdle
  <2>2. hashmap \subseteq Files /\ MultiErrorBudget \in Nat
    BY ConstantsAssumption DEF TypeOK
  <2> QED BY <1>1, <1>4, <1>5, <2>1, <2>2 DEF LoopInv
<1>7. AnswerInv'
  BY <1>1, <1>4 DEF AnswerInv
<1> QED BY <1>6, <1>7

\* The main thread moves on, or destroys the multi handle: no file is touched.
LEMMA ControlDelivery ==
  ASSUME TypeOK, IInv, LoopInv, AnswerInv,
         End \/ Join \/ RetryExhausted \/ RetryEnd \/ Finish \/ Cancel \/ Clear
  PROVE  LoopInv' /\ AnswerInv'
<1>1. /\ UNCHANGED <<hashmap, skipped, failed, cb_retval, queue, worker, merrors>>
      /\ Attached' \subseteq Attached
  BY DEF End, Join, RetryExhausted, RetryEnd, Finish, Cancel, Clear, Attached
<1>2. hashmap \subseteq Files /\ \A g \in Files : OnList(g)' <=> OnList(g)
  BY <1>1 DEF OnList, TypeOK
<1>3. PoolIdle' <=> PoolIdle
  BY <1>1 DEF PoolIdle
<1>4. CASE End
  BY <1>1, <1>2, <1>3, <1>4 DEF End, LoopInv, AnswerInv
<1>5. CASE Join \/ RetryExhausted
  BY <1>1, <1>2, <1>3, <1>5 DEF Join, RetryExhausted, LoopInv, AnswerInv
<1>6. CASE RetryEnd
  BY <1>1, <1>2, <1>3, <1>6 DEF RetryEnd, LoopInv, AnswerInv, IInv, PhaseInv
<1>7. CASE Finish \/ Cancel
  BY <1>1, <1>2, <1>3, <1>7 DEF Finish, Cancel, LoopInv, AnswerInv
<1>8. CASE Clear
  BY <1>1, <1>2, <1>3, <1>8 DEF Clear, LoopInv, AnswerInv
<1> QED BY <1>4, <1>5, <1>6, <1>7, <1>8

\* Every step, of whichever party, preserves the invariant.
LEMMA NextDelivery == TypeOK /\ IInv /\ DInv /\ [Next]_vars => DInv'
<1> SUFFICES ASSUME TypeOK, IInv, DInv, [Next]_vars PROVE DInv'
  OBVIOUS
<1> USE DEF DInv
<1>1. ASSUME NEW f \in Files, EnqueueDuplicate(f) PROVE DInv'
  <2>1. WholeInv' /\ AccountInv'
    BY <1>1, QuietStep DEF EnqueueDuplicate, AwaitingCallback
  <2>2. LoopInv'
    BY <1>1 DEF EnqueueDuplicate, LoopInv, Attached, PoolIdle, OnList
  <2>3. AnswerInv'
    BY <1>1 DEF EnqueueDuplicate, AnswerInv, KnownHash, IInv, PhaseInv
  <2> QED BY <2>1, <2>2, <2>3
<1>2. CASE PollEnter \/ PollPerform \/ MultiError \/ DrainEnd
  <2>1. WholeInv' /\ AccountInv'
    BY <1>2, QuietStep DEF PollEnter, PollPerform, MultiError, DrainEnd, AwaitingCallback
  <2> QED BY <1>2, <2>1, PollDelivery
<1>3. CASE End \/ Join \/ RetryExhausted \/ RetryEnd \/ Finish \/ Cancel \/ Clear
  <2>1. WholeInv' /\ AccountInv'
    BY <1>3, QuietStep
       DEF End, Join, RetryExhausted, RetryEnd, Finish, Cancel, Clear, AwaitingCallback
  <2> QED BY <1>3, <2>1, ControlDelivery
<1>4. CASE WorkerTakes
  <2>1. \A g \in Files : AwaitingCallback(g)' => AwaitingCallback(g)
    <3> DEFINE n == Len(queue)
    <3>1. /\ n \in Nat \ {0} /\ DOMAIN queue = 1 .. n
          /\ DOMAIN queue' = 1 .. n - 1
          /\ \A i \in 1 .. n - 1 : queue'[i] = queue[i + 1]
          /\ worker' = queue[1]
      BY <1>4, EmptySeq, LenProperties, HeadTailProperties DEF WorkerTakes, TypeOK
    <3> HIDE DEF n
    <3>2. /\ 1 \in DOMAIN queue
          /\ \A i \in DOMAIN queue' : i + 1 \in DOMAIN queue /\ queue'[i] = queue[i + 1]
      BY <3>1
    <3>3. ASSUME NEW g \in Files, AwaitingCallback(g)'
          PROVE  \E i \in DOMAIN queue : queue[i] = g
      <4>1. worker' = g \/ \E i \in DOMAIN queue' : queue'[i] = g
        BY <3>3 DEF AwaitingCallback
      <4>2. worker' = queue[1]
        BY <3>1
      <4> QED BY <3>2, <4>1, <4>2
    <3> QED BY <3>3 DEF AwaitingCallback
  <2>2. WholeInv' /\ AccountInv'
    BY <1>4, <2>1, QuietStep DEF WorkerTakes
  <2>3. retry
    BY <1>4 DEF WorkerTakes, LoopInv, PoolIdle
  <2>4. LoopInv' /\ AnswerInv'
    BY <1>4, <2>3 DEF WorkerTakes, LoopInv, AnswerInv
  <2> QED BY <2>2, <2>4
<1>5. CASE CallbackExits
  <2>1. \A g \in Files : ~AwaitingCallback(g)'
    BY <1>5, ConstantsAssumption DEF CallbackExits, AwaitingCallback
  <2>2. WholeInv' /\ AccountInv'
    BY <1>5, <2>1, QuietStep DEF CallbackExits
  <2>3. LoopInv' /\ AnswerInv'
    BY <1>5 DEF CallbackExits, LoopInv, AnswerInv, Attached, PoolIdle, OnList
  <2> QED BY <2>2, <2>3
<1>6. CASE UNCHANGED vars
  <2>1. WholeInv' /\ AccountInv'
    BY <1>6, QuietStep DEF AwaitingCallback
  <2>2. LoopInv' /\ AnswerInv'
    BY <1>6 DEF LoopInv, AnswerInv, Attached, PoolIdle, OnList
  <2> QED BY <2>1, <2>2
<1> QED
  BY <1>1, <1>2, <1>3, <1>4, <1>5, <1>6, EnqueueDelivery, RetryDelivery, ScanDelivery,
     DrainDelivery, CallbackDelivery, TransferDelivery
     DEF Next, Main, Poll, EndLoop, Worker, Terminated

LEMMA Delivery == Spec => []DInv
<1>1. Init => DInv
  BY InitDelivery
<1>2. TypeOK /\ IInv /\ DInv /\ [Next]_vars => DInv'
  BY NextDelivery
<1> QED BY <1>1, <1>2, TypeCorrect, Invariance, PTL DEF Spec

\* The success callback is only ever given a tar that was downloaded whole,
\* however many transfers and extractions failed before.
THEOREM CallbackGetsWholeTar == Spec => []CallbackOnWholeTar
<1>1. DInv => CallbackOnWholeTar
  BY DEF DInv, WholeInv
<1> QED BY <1>1, Delivery, PTL

\* parallel_download_end returns with each file handled or on the failed list,
\* never both and never neither, unless a call of the multi interface failed.
THEOREM FilesAccounted == Spec => []EveryFileAccounted
<1>1. TypeOK /\ IInv /\ DInv => EveryFileAccounted
  <2> SUFFICES ASSUME TypeOK, IInv, DInv, call = "end", pc \in {"finish", "clear", "done"},
                      merrors = MultiErrorBudget, NEW f \in hashmap
               PROVE  HashOf[f] \in Handled <=> ~OnList(f)
    BY DEF EveryFileAccounted, OnList
  <2>1. hashmap \subseteq Files /\ (cb_retval[f] \/ OnList(f))
    BY DEF DInv, LoopInv, TypeOK
  <2>2. cb_retval[f] => IF status[f] = "completed" THEN ~OnList(f) ELSE OnList(f)
    BY <2>1 DEF DInv, AccountInv
  <2>3. HashOf[f] \in Handled <=> cb_retval[f] /\ status[f] = "completed"
    BY DEF Handled, IInv, HashInv
  <2> QED BY <2>1, <2>2, <2>3
<1> QED BY <1>1, TypeCorrect, Invariance, Delivery, PTL

----------------------------------------------------------------------------
(* What a step does to the staged content.                                 *)

\* The files whose success callback has returned TRUE.
Extracted == {g \in hashmap : cb_retval[g] /\ status[g] = "completed"}

LEMMA HandledIsExtracted == Handled = {HashOf[e] : e \in Extracted}
BY DEF Handled, Extracted

\* The step concerns one file, which has not been extracted: the tar of its hash, and
\* the staged content if its callback runs. One that fails removes that content, and
\* calls it handled only where callbacks do so.
Concerns(f) ==
  /\ f \notin Extracted /\ \A g \in hashmap : HashOf[g] = HashOf[f] => g = f
  /\ \A h \in Hashes \ {HashOf[f]} : tar'[h] = tar[h]
  /\ \/ staged' = staged /\ Extracted' = Extracted
     \/ staged' = staged \union {HashOf[f]} /\ Extracted' = Extracted \union {f}
     \/ staged' = staged \ {HashOf[f]} /\ Extracted' = Extracted
     \/ /\ staged' = staged \ {HashOf[f]} /\ Extracted' = Extracted \union {f}
        /\ TRUE \in FailedCallbackReturns

\* What a callback does to the content of its hash, and answers.
LEMMA CallbackStages ==
  ASSUME TypeOK, NEW f \in Files, RunCallback(f)
  PROVE  \/ staged' = staged \union {HashOf[f]} /\ cb_retval'[f]
         \/ /\ staged' = staged \ {HashOf[f]}
            /\ cb_retval'[f] => TRUE \in FailedCallbackReturns
<1>1. CASE CallbackOk(f)
  BY <1>1 DEF CallbackOk, TypeOK
<1>2. CASE CallbackFails(f)
  <2>1. PICK r \in FailedCallbackReturns : cb_retval' = [cb_retval EXCEPT ![f] = r]
    BY <1>2 DEF CallbackFails
  <2>2. cb_retval'[f] = r /\ r \in BOOLEAN
    BY <2>1, ConstantsAssumption DEF TypeOK
  <2>3. r => TRUE \in FailedCallbackReturns
    BY <2>1, <2>2
  <2> QED BY <1>2, <2>2, <2>3 DEF CallbackFails
<1> QED BY <1>1, <1>2 DEF RunCallback

\* A callback that runs for a file in use concerns that file.
LEMMA CallbackConcerns ==
  ASSUME TypeOK, IInv, NEW f \in hashmap \ Extracted, RunCallback(f), hashmap' = hashmap,
         status'[f] = "completed",
         \A g \in Files \ {f} : status'[g] = status[g],
         \A g \in hashmap : HashOf[g] = HashOf[f] => g = f
  PROVE  Concerns(f)
<1>1. f \in Files /\ hashmap \subseteq Files
  BY DEF TypeOK
<1>2. /\ \A g \in Files \ {f} : cb_retval'[g] = cb_retval[g]
      /\ \A h \in Hashes \ {HashOf[f]} : tar'[h] = tar[h]
  BY <1>1, CallbackEffect
<1>3. Extracted' = IF cb_retval'[f] THEN Extracted \union {f} ELSE Extracted
  BY <1>1, <1>2 DEF Extracted
<1>4. CASE staged' = staged \union {HashOf[f]} /\ cb_retval'[f]
  BY <1>2, <1>3, <1>4 DEF Concerns
<1>5. CASE /\ staged' = staged \ {HashOf[f]}
           /\ cb_retval'[f] => TRUE \in FailedCallbackReturns
  BY <1>2, <1>3, <1>5 DEF Concerns
<1> QED BY <1>1, <1>4, <1>5, CallbackStages

\* A file in use is one such file.
LEMMA InUseIsOpen ==
  ASSUME TypeOK, IInv, DInv, NEW f \in Files, InUse(f)
  PROVE  f \in hashmap \ Extracted /\ \A g \in hashmap : HashOf[g] = HashOf[f] => g = f
<1>1. f \in hashmap /\ ~cb_retval[f] /\ hashmap \subseteq Files
  BY OneUser DEF DInv, AccountInv, TypeOK
<1>2. \A g \in hashmap : HashOf[g] = HashOf[f] => g = f
  BY <1>1, OneUser
<1> QED BY <1>1, <1>2 DEF Extracted

\* Each step concerns one file at most.
LEMMA StepConcerns ==
  ASSUME TypeOK, IInv, DInv, Next
  PROVE  \/ UNCHANGED <<tar, staged, Extracted>>
         \/ \E f \in Files : Concerns(f)
<1>1. ASSUME NEW f \in Files, Enqueue(f) PROVE Concerns(f)
  <2>1. /\ f \notin hashmap /\ hashmap' = hashmap \union {f} /\ ~KnownHash(f)
        /\ StartTransfer(f, 0, "absent") \/ SetupError(f, 0, "absent")
        /\ UNCHANGED <<cb_retval, status, staged>>
    BY <1>1 DEF Enqueue
  <2>2. conn[f] = "off" /\ ~cb_retval[f]
    BY <2>1, OneUser DEF InUse, DInv, AccountInv
  <2>3. \A h \in Hashes \ {HashOf[f]} : tar'[h] = tar[h]
    BY <2>1, <2>2, StartEffect
  <2> QED BY <2>1, <2>2, <2>3 DEF Concerns, Extracted, KnownHash
<1>2. ASSUME RetryOne PROVE \E f \in Files : Concerns(f)
  <2> DEFINE f == failed[Cursor]
             n == retries[f] + 1
             t == tar[HashOf[f]]
  <2>1. /\ Cursor \in 1 .. Len(failed) /\ Cursor \in DOMAIN failed /\ f \in Files
    BY <1>2, LenProperties, ElementOfSeq DEF TypeOK, RetryOne, Cursor
  <2>2. /\ StartTransfer(f, n, t) \/ SetupError(f, n, t)
        /\ UNCHANGED <<hashmap, status, cb_retval, staged>>
    BY <1>2 DEF RetryOne
  <2>3. ~Exhausted(f)
    BY <1>2, <2>1, ConstantsAssumption DEF RetryOne, MayRetry, Exhausted, TypeOK
  <2>4. f \in hashmap /\ conn[f] = "off" /\ ~cb_retval[f]
    <3>1. OnList(f)
      BY <2>1 DEF OnList
    <3>2. f \in hashmap /\ ~InUse(f)
      BY <2>1, <2>3, LenProperties DEF IInv, ListInv, TypeOK
    <3> QED BY <2>1, <2>3, <3>1, <3>2 DEF InUse, DInv, AccountInv
  <2> HIDE DEF n, t
  <2>5. \A h \in Hashes \ {HashOf[f]} : tar'[h] = tar[h]
    BY <2>1, <2>2, <2>4, StartEffect
  <2> HIDE DEF f
  <2>6. Concerns(f)
    BY <2>2, <2>4, <2>5 DEF Concerns, Extracted, IInv, HashInv
  <2> QED BY <2>1, <2>6
<1>3. ASSUME NEW f \in Files, DrainOne(f)
      PROVE  UNCHANGED <<tar, staged, Extracted>> \/ Concerns(f)
  <2>1. /\ f \in hashmap \ Extracted /\ ~cb_retval[f]
        /\ \A g \in hashmap : HashOf[g] = HashOf[f] => g = f
    <3>1. InUse(f)
      BY <1>3, OffIsNoTransfer DEF DrainOne, InUse
    <3> QED BY <3>1, InUseIsOpen DEF DInv, AccountInv
  <2>2. /\ hashmap' = hashmap /\ status'[f] = conn[f]
        /\ \A g \in Files \ {f} : status'[g] = status[g]
    BY <1>3 DEF DrainOne, DetachRead, TypeOK
  <2>3. hashmap \subseteq Files
    BY DEF TypeOK
  <2>4. CASE ReadCompleted(f) /\ RunCallback(f)
    <3>1. conn[f] = "completed"
      BY <2>4 DEF ReadCompleted
    <3> QED BY <2>1, <2>2, <2>4, <3>1, CallbackConcerns
  <2>5. CASE UNCHANGED <<cb_retval, diskVars>>
    BY <2>1, <2>2, <2>3, <2>5 DEF Extracted
  <2>6. CASE ReadFinalError(f)
    <3>1. /\ conn[f] # "completed" /\ UNCHANGED diskVars
          /\ \A g \in Files \ {f} : cb_retval'[g] = cb_retval[g]
      BY <2>6 DEF ReadFinalError, TypeOK
    <3> QED BY <2>1, <2>2, <2>3, <3>1 DEF Extracted
  <2> QED BY <1>3, <2>4, <2>5, <2>6 DEF DrainOne, ReadCompleted, ReadRetriableError
<1>4. ASSUME WorkerRuns PROVE \E f \in Files : Concerns(f)
  <2>1. PICK f \in Files : f = worker
    BY <1>4 DEF WorkerRuns, TypeOK
  <2>2. /\ f \in hashmap \ Extracted
        /\ \A g \in hashmap : HashOf[g] = HashOf[f] => g = f
    BY <2>1, InUseIsOpen DEF InUse, AwaitingCallback
  <2>3. RunCallback(f) /\ UNCHANGED <<hashmap, status>>
    BY <1>4, <2>1 DEF WorkerRuns
  <2>4. status[f] = "completed"
    BY <2>1 DEF DInv, WholeInv, AwaitingCallback
  <2> QED BY <2>2, <2>3, <2>4, CallbackConcerns
<1>5. ASSUME NEW f \in Files, TransferEnds(f) PROVE Concerns(f)
  <2>1. /\ f \in hashmap \ Extracted
        /\ \A g \in hashmap : HashOf[g] = HashOf[f] => g = f
    <3>1. InUse(f)
      BY <1>5, OffIsNoTransfer DEF TransferEnds, InUse
    <3> QED BY <3>1, InUseIsOpen
  <2>2. \E u : tar' = [tar EXCEPT ![HashOf[f]] = u]
    BY <1>5 DEF TransferEnds
  <2>3. \A h \in Hashes \ {HashOf[f]} : tar'[h] = tar[h]
    BY <2>2 DEF TypeOK
  <2>4. UNCHANGED <<hashmap, cb_retval, status, staged>>
    BY <1>5 DEF TransferEnds
  <2> QED BY <2>1, <2>3, <2>4 DEF Concerns, Extracted
<1>6. CASE UNCHANGED <<tar, staged, hashmap, cb_retval, status>>
  BY <1>6 DEF Extracted
<1>7. ASSUME \/ \E f \in Files : EnqueueDuplicate(f)
             \/ End \/ PollEnter \/ PollPerform \/ MultiError \/ DrainEnd
             \/ Join \/ Scan \/ RetryExhausted \/ RetryEnd \/ Finish \/ Cancel \/ Clear
             \/ WorkerTakes \/ CallbackExits \/ Terminated
      PROVE  UNCHANGED <<tar, staged, hashmap, cb_retval, status>>
  BY <1>7 DEF EnqueueDuplicate, End, PollEnter, PollPerform, MultiError, DrainEnd, Join, Scan,
              RetryExhausted, RetryEnd, Finish, Cancel, Clear, WorkerTakes, CallbackExits,
              Terminated
<1> QED
  BY <1>1, <1>2, <1>3, <1>4, <1>5, <1>6, <1>7 DEF Next, Main, Poll, EndLoop, Worker

\* What was handled stays so, what of it was staged stays staged, and none of it is
\* downloaded again: no later transfer, retry or extraction touches its tar.
THEOREM DeliveryIsFinal == Spec => DeliveredIsFinal
<1>1. ASSUME TypeOK, IInv, DInv, [Next]_vars
      PROVE  [\A h \in Handled : h \in Handled' /\ tar'[h] = tar[h]
                                 /\ (h \in staged => h \in staged')]_vars
  <2>1. SUFFICES ASSUME Next, NEW h \in Handled
                 PROVE  h \in Handled' /\ tar'[h] = tar[h] /\ (h \in staged => h \in staged')
    BY <1>1
  <2>2. PICK e \in Extracted : h = HashOf[e]
    BY <2>1, HandledIsExtracted
  <2>3. e \in hashmap /\ h \in Hashes
    BY <2>2, ConstantsAssumption, <1>1 DEF Extracted, TypeOK
  <2>4. e \in Extracted' => h \in Handled'
    BY <2>2, ConstantsAssumption DEF Handled, Extracted
  <2>5. CASE UNCHANGED <<tar, staged, Extracted>>
    BY <2>2, <2>4, <2>5
  <2>6. ASSUME NEW f \in Files, Concerns(f)
        PROVE  h \in Handled' /\ tar'[h] = tar[h] /\ (h \in staged => h \in staged')
    <3>1. h # HashOf[f]
      BY <2>2, <2>3, <2>6 DEF Concerns
    <3> QED BY <2>2, <2>3, <2>4, <2>6, <3>1 DEF Concerns
  <2> QED BY <1>1, <2>1, <2>5, <2>6, StepConcerns
<1> QED BY <1>1, TypeCorrect, Invariance, Delivery, PTL DEF Spec, DeliveredIsFinal

----------------------------------------------------------------------------
(* What is staged is what was handled, less what was lost.                 *)

\* Nothing is staged but by a callback that answers TRUE; where callbacks report their
\* failures, nothing is lost.
StagedInv ==
  /\ staged \subseteq Handled
  /\ TRUE \notin FailedCallbackReturns => Handled \subseteq staged

LEMMA Staging == Spec => []StagedInv
<1>1. Init => StagedInv
  BY DEF Init, StagedInv, Handled
<1>2. ASSUME TypeOK, IInv, DInv, StagedInv, [Next]_vars PROVE StagedInv'
  <2>1. /\ Handled = {HashOf[e] : e \in Extracted}
        /\ Handled' = {HashOf[e] : e \in Extracted'}
    BY HandledIsExtracted DEF Handled, Extracted
  <2>2. CASE UNCHANGED vars
    BY <1>2, <2>2 DEF StagedInv, Handled
  <2>3. CASE UNCHANGED <<tar, staged, Extracted>>
    BY <1>2, <2>1, <2>3 DEF StagedInv
  <2>4. ASSUME NEW f \in Files, Concerns(f) PROVE StagedInv'
    <3>1. HashOf[f] \notin Handled
      BY <2>1, <2>4 DEF Concerns, Extracted
    <3>2. Extracted' = Extracted \union {f} => Handled' = Handled \union {HashOf[f]}
      BY <2>1
    <3> QED BY <1>2, <2>1, <2>4, <3>1, <3>2 DEF Concerns, StagedInv
  <2> QED BY <1>2, <2>2, <2>3, <2>4, StepConcerns
<1> QED BY <1>1, <1>2, TypeCorrect, Invariance, Delivery, PTL DEF Spec

----------------------------------------------------------------------------
(* The refinement.                                                         *)

\* No call of the multi interface has failed yet.
MultiInterfaceWorks == merrors = MultiErrorBudget

\* When the session answers, all is accounted for; an empty failed list means
\* that every hash was handled.
LEMMA SuccessIsComplete ==
  ASSUME TypeOK, IInv, DInv, MultiInterfaceWorks, pc \in {"clear", "done"}, ret = "ok"
  PROVE  Handled = Wanted
<1>1. call = "end" /\ failed = <<>> /\ hashmap \union skipped = Files
  BY DEF DInv, AnswerInv
<1>2. \A f \in hashmap : f \in Files /\ cb_retval[f] /\ ~OnList(f)
  BY <1>1 DEF DInv, LoopInv, OnList, MultiInterfaceWorks, TypeOK
<1>3. \A f \in hashmap : HashOf[f] \in Handled
  BY <1>2 DEF DInv, AccountInv, Handled
<1>4. \A f \in Files : HashOf[f] \in Handled
  BY <1>1, <1>3 DEF DInv, AnswerInv
<1>5. Handled \subseteq Wanted
  BY DEF Handled, Wanted, TypeOK
<1> QED BY <1>4, <1>5 DEF Wanted

\* A session that returned success has staged every hash it was asked for, if no call
\* of the multi interface failed and the callbacks report what they could not extract
\* (the runs PD_poll_error and PD_extract show why the conditions are needed).
THEOREM SuccessDelivers ==
  TRUE \notin FailedCallbackReturns => (Spec /\ []MultiInterfaceWorks => []OkMeansDelivered)
<1> SUFFICES ASSUME TRUE \notin FailedCallbackReturns
             PROVE  Spec /\ []MultiInterfaceWorks => []OkMeansDelivered
  OBVIOUS
<1>1. TypeOK /\ IInv /\ DInv /\ StagedInv /\ MultiInterfaceWorks => OkMeansDelivered
  BY SuccessIsComplete DEF OkMeansDelivered, StagedInv
<1> QED BY <1>1, TypeCorrect, Invariance, Delivery, Staging, PTL

\* Each step of the downloader is a step of the session its client sees, or
\* none: one delivery or loss, the answer, the end of the process, or a stutter.
LEMMA StepRefines ==
  ASSUME TypeOK, IInv, DInv, StagedInv, MultiInterfaceWorks, [Next]_vars
  PROVE  [Session!Next]_(Session!vars)
<1> USE DEF Session!vars
<1>1. CASE UNCHANGED vars
  BY <1>1 DEF Handled, Lost, Over
<1>2. CASE Terminated
  BY <1>2 DEF Terminated, Handled, Lost, Over
<1>3. CASE Clear
  <2>1. /\ pc = "clear" /\ pc' = "done" /\ UNCHANGED <<ret, hashmap, cb_retval, status, staged>>
        /\ ret \in {"ok", "failed"}
    BY <1>3 DEF Clear, DInv, AnswerInv
  <2>2. staged' = staged /\ Lost' = Lost
    BY <2>1 DEF Handled, Lost
  <2>3. CASE ret = "ok"
    <3>1. staged \union Lost = Wanted
      BY <2>1, <2>3, SuccessIsComplete DEF StagedInv, Lost
    <3> QED BY <2>1, <2>2, <2>3, <3>1 DEF Session!Next, Session!Succeed, Over
  <2>4. CASE ret = "failed"
    BY <2>1, <2>2, <2>4 DEF Session!Next, Session!Fail, Over
  <2> QED BY <2>1, <2>3, <2>4
<1>4. CASE ~Over /\ CallbackExits
  <2>1. /\ pc' = "exited" /\ ret' = "exited" /\ UNCHANGED <<hashmap, cb_retval, status, staged>>
    BY <1>4 DEF CallbackExits
  <2>2. staged' = staged /\ Lost' = Lost
    BY <2>1 DEF Handled, Lost
  <2> QED BY <1>4, <2>1, <2>2 DEF Session!Next, Session!Exit, Over
<1>5. ASSUME Next, ~Terminated, ~Clear, ~(~Over /\ CallbackExits)
      PROVE  [Session!Next]_(Session!vars)
  <2>1. ~Over /\ ~Over'
    <3>1. \/ \E f \in Files : EnqueueDuplicate(f) \/ DrainOne(f) \/ TransferEnds(f)
          \/ End \/ PollPerform \/ Join \/ Scan \/ RetryExhausted \/ RetryEnd \/ Finish \/ Cancel
          \/ ~Over /\ WorkerTakes
          \/ ~Over /\ WorkerRuns
          => ~Over /\ ~Over'
      BY DEF EnqueueDuplicate, DrainOne, TransferEnds, End, PollPerform, Join, Scan,
             RetryExhausted, RetryEnd, Finish, Cancel, WorkerTakes, WorkerRuns, Over
    <3>2. PollEnter \/ MultiError \/ DrainEnd => ~Over /\ ~Over'
      BY DEF PollEnter, MultiError, DrainEnd, PollReturns, Over, TypeOK
    <3>3. (\E f \in Files : Enqueue(f)) \/ RetryOne => ~Over /\ ~Over'
      BY DEF Enqueue, RetryOne, StartTransfer, SetupError, Over
    <3> QED BY <1>5, <3>1, <3>2, <3>3 DEF Next, Main, Poll, EndLoop, Worker
  <2>2. /\ Handled = {HashOf[e] : e \in Extracted}
        /\ Handled' = {HashOf[e] : e \in Extracted'}
    BY DEF Handled, Extracted
  <2>3. CASE staged' = staged /\ Extracted' = Extracted
    BY <2>1, <2>2, <2>3 DEF Lost
  <2>4. ASSUME NEW f \in Files, Concerns(f) PROVE [Session!Next]_(Session!vars)
    <3>1. HashOf[f] \notin Handled /\ staged \subseteq Handled /\ HashOf[f] \in Wanted
      BY <1>5, <2>2, <2>4 DEF Concerns, Extracted, StagedInv, Wanted
    <3>2. CASE staged' = staged \ {HashOf[f]} /\ Extracted' = Extracted
      BY <2>1, <2>2, <3>1, <3>2 DEF Lost
    <3>3. CASE staged' = staged \union {HashOf[f]} /\ Extracted' = Extracted \union {f}
      <4>1. Handled' = Handled \union {HashOf[f]}
        BY <2>2, <3>3
      <4>2. Lost' = Lost /\ HashOf[f] \notin staged \union Lost
        BY <3>1, <3>3, <4>1 DEF Lost
      <4>3. Session!Deliver(HashOf[f])
        BY <2>1, <3>3, <4>2 DEF Session!Deliver, Session!Open
      <4> QED BY <3>1, <4>3 DEF Session!Next
    <3>4. CASE /\ staged' = staged \ {HashOf[f]} /\ Extracted' = Extracted \union {f}
               /\ TRUE \in FailedCallbackReturns
      <4>1. Handled' = Handled \union {HashOf[f]} /\ staged' = staged
        BY <2>2, <3>1, <3>4
      <4>2. Lost' = Lost \union {HashOf[f]} /\ HashOf[f] \notin staged \union Lost
        BY <3>1, <4>1 DEF Lost
      <4>3. Session!Lose(HashOf[f])
        BY <2>1, <3>4, <4>1, <4>2 DEF Session!Lose, Session!Open
      <4> QED BY <3>1, <4>3 DEF Session!Next
    <3> QED BY <2>3, <2>4, <3>2, <3>3, <3>4 DEF Concerns
  <2> QED BY <1>5, <2>3, <2>4, StepConcerns
<1> QED BY <1>1, <1>2, <1>3, <1>4, <1>5

\* The downloader implements the session its client sees, as long as no call of
\* the multi interface fails: content is staged once per hash, and success is answered
\* only when all of it was, but for what a callback called handled and lost.
THEOREM Refinement == Spec /\ []MultiInterfaceWorks => ImplementsSession
<1>1. Init => Session!Init
  BY DEF Init, Session!Init, Handled, Lost, Over
<1>2. TypeOK /\ IInv /\ DInv /\ StagedInv /\ MultiInterfaceWorks /\ [Next]_vars => [Session!Next]_(Session!vars)
  BY StepRefines
<1> QED
  BY <1>1, <1>2, TypeCorrect, Invariance, Delivery, Staging, PTL DEF Spec, ImplementsSession, Session!Spec

----------------------------------------------------------------------------
(* One fault is repaired.                                                  *)

\* The default number of retries; one transfer or extraction fails, with a status that
\* is retried or because the disk is full.
OneFault ==
  /\ MaxRetries >= 3 /\ FaultBudget <= 1
  /\ Failures \intersect DontRetryStatuses \subseteq {"write_error"}

\* libcurl works, the server is not local, and the disk is not full.
Clean ==
  /\ merrors = MultiErrorBudget /\ serrors = SetupErrorBudget /\ ~env.local
  /\ \A f \in Files : status[f] # "write_error"

\* The next scan finds the file.
Waits(f) == ~InUse(f) /\ ~cb_retval[f]

\* The attempts that one fault costs: a transfer that is interrupted is resumed; a server
\* that cannot do that makes it start again, and one that can answers 206, which counts as
\* a failure; the next attempt finds nothing left to send, and the one after it
\* starts again.
Course(f) ==
  LET t == tar[HashOf[f]]
      n == retries[f]
  IN /\ conn[f] = "fresh" /\ n = 0 => t = "empty"
     /\ conn[f] \in DontRetryStatuses \union RetriableFailures => conn[f] \in Failures
     /\ conn[f] \in Failures => n = 0 /\ t # "complete"
     /\ conn[f] = "resume" => \/ n = 1 /\ t # "complete"
                              \/ n = 2 /\ t = "complete" /\ env.ranges
     /\ conn[f] = "range_error" => n = 1
     /\ conn[f] = "partial_file" => n = 1 /\ t = "complete" /\ env.ranges
     /\ conn[f] = "range_not_satisfiable" => n = 2
     /\ Waits(f) => \/ n = 0 /\ t # "complete"
                    \/ n = 1 /\ status[f] = "range_error" /\ resume_failed
                    \/ n = 1 /\ status[f] = "partial_file" /\ t = "complete" /\ env.ranges
                    \/ n = 2 /\ status[f] = "range_not_satisfiable"
     /\ faults > 0 => conn[f] \in {"off", "fresh", "completed"} /\ ~Waits(f)

CleanInv ==
  /\ \A f \in hashmap : Course(f)
  /\ faults > 0 => \A f \in Files : retries[f] = 0
  /\ \A f \in Files : cb_retval[f] => status[f] = "completed"
  /\ pc # "cancel"
  /\ pc \in {"clear", "done"} => ret = "ok"

RecoverInv ==
  /\ serrors <= SetupErrorBudget /\ faults <= FaultBudget
  /\ \A f \in Files : status[f] = "write_error" => cb_retval[f]
  /\ Clean /\ pc # "exited" => CleanInv

\* A file that nobody touches keeps its place in this course.
LEMMA CourseKept ==
  ASSUME NEW g \in Files, Course(g), InUse(g) => InUse(g)',
         conn'[g] = conn[g], tar'[HashOf[g]] = tar[HashOf[g]], retries'[g] = retries[g],
         status'[g] = status[g], cb_retval'[g] = cb_retval[g],
         env' = env, resume_failed => resume_failed', faults' <= faults, faults \in Nat, faults' \in Nat
  PROVE  Course(g)'
<1>1. Waits(g)' => Waits(g)
  BY DEF Waits
<1>2. faults' > 0 => faults > 0
  OBVIOUS
<1>3. PICK c, t, n, s, w, w2, x, x2 :
        /\ c = conn[g] /\ t = tar[HashOf[g]] /\ n = retries[g] /\ s = status[g]
        /\ w = Waits(g) /\ w2 = Waits(g)' /\ x = resume_failed /\ x2 = resume_failed'
  OBVIOUS
<1> QED BY <1>1, <1>2 DEF Course, DontRetryStatuses, RetriableFailures

\* The worst statuses are handled, budgets are only spent, and what is not clean stays so.
LEMMA RecoverBase ==
  ASSUME TypeOK, IInv, DInv, RecoverInv, [Next]_vars
  PROVE  /\ serrors' <= SetupErrorBudget /\ faults' <= FaultBudget
         /\ \A f \in Files : status'[f] = "write_error" => cb_retval'[f]
         /\ Clean' => Clean /\ serrors' = serrors /\ merrors' = merrors /\ env' = env
<1> DEFINE Spends == /\ serrors' = serrors \/ (serrors > 0 /\ serrors' = serrors - 1)
                     /\ merrors' = merrors \/ (merrors > 0 /\ merrors' = merrors - 1)
                     /\ faults' = faults \/ (faults > 0 /\ faults' = faults - 1)
                     /\ env' = env
           Handles == \A f \in Files : status'[f] = "write_error" => cb_retval'[f]
<1>1. Spends
  <2>1. ASSUME NEW f \in Files, Enqueue(f) PROVE Spends
    BY <2>1 DEF Enqueue, StartTransfer, SetupError
  <2>2. CASE RetryOne
    BY <2>2 DEF RetryOne, StartTransfer, SetupError
  <2>3. CASE \/ \E f \in Files : EnqueueDuplicate(f) \/ DrainOne(f) \/ TransferEnds(f)
             \/ End \/ Poll \/ Join \/ Scan \/ RetryExhausted \/ RetryEnd \/ Finish \/ Cancel \/ Clear
             \/ UNCHANGED vars
    BY <2>3 DEF EnqueueDuplicate, DrainOne, TransferEnds, End, Poll, PollEnter, PollPerform, MultiError,
                DrainEnd, Join, Scan, RetryExhausted, RetryEnd, Finish, Cancel, Clear,
                ReadCompleted, ReadFinalError, ReadRetriableError, RunCallback, CallbackOk, CallbackFails
  <2>4. CASE WorkerTakes \/ WorkerRuns \/ CallbackExits
    BY <2>4 DEF WorkerTakes, WorkerRuns, CallbackExits, RunCallback, CallbackOk, CallbackFails
  <2> QED BY <2>1, <2>2, <2>3, <2>4 DEF Next, Main, Poll, EndLoop, Worker, Terminated
<1>2. \/ UNCHANGED <<status, cb_retval>>
      \/ \E f \in Files : DrainOne(f)
      \/ WorkerRuns
  <2>1. CASE \/ \E f \in Files : Enqueue(f) \/ EnqueueDuplicate(f) \/ TransferEnds(f)
             \/ End \/ PollEnter \/ PollPerform \/ MultiError \/ DrainEnd \/ EndLoop \/ Cancel \/ Clear
             \/ UNCHANGED vars
    BY <2>1 DEF Enqueue, EnqueueDuplicate, TransferEnds, End, PollEnter, PollPerform, MultiError,
                DrainEnd, EndLoop, Join, Scan, RetryOne, RetryExhausted, RetryEnd, Finish, Cancel, Clear
  <2>2. CASE WorkerTakes \/ CallbackExits
    BY <2>2 DEF WorkerTakes, CallbackExits
  <2> QED BY <2>1, <2>2 DEF Next, Main, Poll, Worker, Terminated
<1>3. ASSUME NEW f \in Files, DrainOne(f)
      PROVE  /\ ~cb_retval[f] /\ status' = [status EXCEPT ![f] = conn[f]]
             /\ \A g \in Files \ {f} : cb_retval'[g] = cb_retval[g]
             /\ conn[f] = "write_error" => cb_retval'[f]
  <2>1. InUse(f) /\ status' = [status EXCEPT ![f] = conn[f]]
    BY <1>3, OffIsNoTransfer DEF DrainOne, DetachRead, InUse
  <2>2. ~cb_retval[f]
    BY <2>1 DEF DInv, AccountInv
  <2>3. CASE ReadCompleted(f)
    BY <2>1, <2>2, <2>3, CallbackEffect DEF ReadCompleted
  <2>4. CASE ReadFinalError(f)
    BY <2>1, <2>2, <2>4 DEF ReadFinalError, TypeOK
  <2>5. CASE ReadRetriableError(f)
    BY <2>1, <2>2, <2>5 DEF ReadRetriableError, DontRetry, DontRetryStatuses
  <2> QED BY <1>3, <2>3, <2>4, <2>5 DEF DrainOne
<1>4. Handles
  <2>1. CASE UNCHANGED <<status, cb_retval>>
    BY <2>1 DEF RecoverInv
  <2>2. ASSUME NEW f \in Files, DrainOne(f) PROVE Handles
    BY <1>3, <2>2 DEF RecoverInv, TypeOK
  <2>3. CASE WorkerRuns
    <3>1. PICK f \in Files : f = worker
      BY <2>3 DEF WorkerRuns, TypeOK
    <3>2. RunCallback(f) /\ status' = status /\ AwaitingCallback(f)
      BY <2>3, <3>1 DEF WorkerRuns, AwaitingCallback
    <3>3. status[f] = "completed" /\ \A g \in Files \ {f} : cb_retval'[g] = cb_retval[g]
      BY <3>2, CallbackEffect DEF DInv, WholeInv
    <3> QED BY <3>2, <3>3 DEF RecoverInv
  <2> QED BY <1>2, <2>1, <2>2, <2>3
<1>5. Clean' => serrors' = serrors /\ merrors' = merrors
  BY <1>1, ConstantsAssumption DEF Clean, RecoverInv, TypeOK, DInv, LoopInv
<1>6. Clean' => \A f \in Files : status[f] # "write_error"
  <2>1. CASE UNCHANGED <<status, cb_retval>>
    BY <2>1 DEF Clean
  <2>2. ASSUME NEW f \in Files, DrainOne(f), Clean' PROVE \A g \in Files : status[g] # "write_error"
    BY <1>3, <2>2 DEF Clean, RecoverInv, TypeOK
  <2>3. CASE WorkerRuns
    BY <2>3 DEF WorkerRuns, Clean
  <2> QED BY <1>2, <2>1, <2>2, <2>3
<1> QED BY <1>1, <1>4, <1>5, <1>6, ConstantsAssumption DEF Clean, RecoverInv, TypeOK

\* A session that is clean so far, with at most one fault.
Recovering ==
  /\ TypeOK /\ IInv /\ DInv /\ RecoverInv /\ OneFault
  /\ Clean /\ pc # "exited" /\ CleanInv

\* A new file is downloaded from its start.
LEMMA RecoverEnqueue ==
  ASSUME Recovering, NEW f \in Files, Enqueue(f), Clean', serrors' = serrors, TypeOK'
  PROVE  CleanInv'
<1> USE DEF Recovering
<1>1. /\ f \notin hashmap /\ hashmap' = hashmap \union {f} /\ ~KnownHash(f) /\ pc' = "enter"
      /\ StartTransfer(f, 0, "absent")
      /\ UNCHANGED <<ret, resume_failed, status, retries, cb_retval, queue, worker, env, faults>>
  BY DEF Enqueue, StartTransfer, SetupError, TypeOK
<1>2. conn[f] = "off" /\ HashOf[f] \in Hashes /\ hashmap \subseteq Files
  BY <1>1, OneUser, ConstantsAssumption DEF InUse, TypeOK
<1>3. /\ conn'[f] = "fresh" /\ tar'[HashOf[f]] = "empty"
      /\ \A g \in Files \ {f} : conn'[g] = conn[g]
      /\ \A h \in Hashes \ {HashOf[f]} : tar'[h] = tar[h]
  <2>1. Mode(f, 0, "absent") = "fresh" /\ ~Resumes(f, 0, "absent")
    BY DEF Mode, Resumes
  <2> QED BY <1>1, <1>2, <2>1 DEF StartTransfer, TypeOK
<1>4. Course(f)'
  <2>1. "fresh" \notin Failures
    BY ConstantsAssumption DEF DontRetryStatuses, RetriableFailures
  <2>2. ~Waits(f)'
    BY <1>3 DEF Waits, InUse
  <2> QED BY <1>3, <2>1, <2>2 DEF Course, DontRetryStatuses, RetriableFailures
<1>5. ASSUME NEW g \in hashmap PROVE Course(g)'
  <2>1. g \in Files \ {f} /\ HashOf[g] \in Hashes \ {HashOf[f]}
    BY <1>1, <1>2, ConstantsAssumption DEF KnownHash
  <2>2. InUse(g) => InUse(g)'
    BY <1>1, <1>3, <2>1 DEF InUse, AwaitingCallback
  <2> QED BY <1>1, <1>3, <2>1, <2>2, CourseKept DEF CleanInv, TypeOK
<1> QED BY <1>1, <1>4, <1>5 DEF CleanInv

\* The next attempt, by what the last one was.
LEMMA RecoverRetry ==
  ASSUME Recovering, RetryOne, Clean', serrors' = serrors, TypeOK'
  PROVE  CleanInv'
<1> USE DEF Recovering
<1>1. /\ Cursor \in 1 .. Len(failed) /\ Len(failed) \in Nat /\ DOMAIN failed = 1 .. Len(failed)
      /\ failed \in Seq(Files) /\ failed[Cursor] \in Files
  BY LenProperties, ElementOfSeq DEF TypeOK, RetryOne, Cursor
<1>a. PICK f \in Files : f = failed[Cursor]
  BY <1>1
<1>b. PICK n, t : n = retries[f] + 1 /\ t = tar[HashOf[f]]
  OBVIOUS
<1>0. f = failed[Cursor] /\ n = retries[f] + 1 /\ t = tar[HashOf[f]]
  BY <1>a, <1>b
<1>2. /\ StartTransfer(f, n, t) /\ pc' = "enter"
      /\ retries' = [retries EXCEPT ![f] = n]
      /\ UNCHANGED <<ret, hashmap, resume_failed, status, cb_retval, queue, worker, env, faults>>
  BY <1>0 DEF RetryOne, StartTransfer, SetupError, TypeOK
<1>3. ~Exhausted(f)
  BY <1>0, <1>1, ConstantsAssumption DEF RetryOne, MayRetry, Exhausted, TypeOK
<1>4. f \in hashmap /\ ~InUse(f) /\ conn[f] = "off"
  BY <1>0, <1>1, <1>3 DEF IInv, ListInv, InUse
<1>5. ~cb_retval[f]
  BY <1>0, <1>1, <1>3 DEF OnList, DInv, AccountInv
<1>6. Waits(f) /\ HashOf[f] \in Hashes /\ n \in Nat /\ n = retries[f] + 1 /\ retries[f] \in Nat
  <2>1. retries[f] \in Nat /\ HashOf[f] \in Hashes
    BY ConstantsAssumption DEF TypeOK
  <2> QED BY <1>0, <1>4, <1>5, <2>1 DEF Waits
<1>7. /\ retries'[f] = n
      /\ \A g \in Files \ {f} : retries'[g] = retries[g]
  BY <1>1, <1>2, <1>6 DEF TypeOK
<1>8. /\ conn'[f] = Mode(f, n, t) /\ tar'[HashOf[f]] = IF Resumes(f, n, t) THEN t ELSE "empty"
      /\ \A g \in Files \ {f} : conn'[g] = conn[g]
      /\ \A h \in Hashes \ {HashOf[f]} : tar'[h] = tar[h]
  BY <1>1, <1>2, <1>6 DEF StartTransfer, TypeOK
<1>9. Course(f)'
  <2>1. \/ retries[f] = 0 /\ t # "complete"
        \/ retries[f] = 1 /\ status[f] = "range_error" /\ resume_failed
        \/ retries[f] = 1 /\ status[f] = "partial_file" /\ t = "complete" /\ env.ranges
        \/ retries[f] = 2 /\ status[f] = "range_not_satisfiable"
    BY <1>0, <1>4, <1>6 DEF CleanInv, Course
  <2>2. conn'[f] \in {"fresh", "resume"} /\ {"fresh", "resume"} \intersect Failures = {}
    BY <1>8, ConstantsAssumption DEF Mode, DontRetryStatuses, RetriableFailures
  <2>3. ~Waits(f)'
    BY <2>2 DEF Waits, InUse
  <2>4. conn'[f] = "resume" => \/ n = 1 /\ tar'[HashOf[f]] # "complete"
                               \/ n = 2 /\ tar'[HashOf[f]] = "complete" /\ env.ranges
    BY <1>6, <1>8, <2>1 DEF Mode, Resumes
  <2>5. ~(faults > 0)
    BY <1>1, <1>4, <1>6 DEF CleanInv, Course
  <2> QED BY <1>2, <1>6, <1>7, <2>2, <2>3, <2>4, <2>5 DEF Course, DontRetryStatuses, RetriableFailures
<1>10. ASSUME NEW g \in hashmap, g # f PROVE Course(g)'
  <2>1. g \in Files \ {f} /\ HashOf[g] \in Hashes \ {HashOf[f]}
    BY <1>4, <1>10, ConstantsAssumption DEF IInv, HashInv, TypeOK
  <2>2. InUse(g) => InUse(g)'
    BY <1>2, <1>8, <2>1 DEF InUse, AwaitingCallback
  <2> QED BY <1>2, <1>7, <1>8, <2>1, <2>2, CourseKept DEF CleanInv, TypeOK
<1>11. ~(faults > 0)
  BY <1>4, <1>6 DEF CleanInv, Course
<1> QED BY <1>2, <1>9, <1>10, <1>11 DEF CleanInv

\* A callback that fails, with the one fault there is, leaves its file to the next scan.
LEMMA RecoverCallback ==
  ASSUME Recovering, NEW f \in hashmap, RunCallback(f), ~cb_retval[f], ~InUse(f)', TypeOK',
         status'[f] = "completed", UNCHANGED <<hashmap, retries, env, resume_failed, pc, ret>>,
         conn'[f] = "off",
         \A g \in Files \ {f} : conn'[g] = conn[g] /\ status'[g] = status[g] /\ (InUse(g) => InUse(g)')
  PROVE  CleanInv'
<1> USE DEF Recovering
<1>1. /\ f \in Files /\ HashOf[f] \in Hashes /\ hashmap \subseteq Files
      /\ faults \in Nat /\ faults' \in Nat /\ faults' <= faults /\ FaultBudget <= 1
  BY ConstantsAssumption DEF TypeOK, RunCallback, CallbackOk, CallbackFails, OneFault
<1>2. /\ \A g \in Files \ {f} : cb_retval'[g] = cb_retval[g]
      /\ \A h \in Hashes \ {HashOf[f]} : tar'[h] = tar[h]
  BY <1>1, CallbackEffect
<1>3. tar'[HashOf[f]] = "absent"
  BY <1>1 DEF RunCallback, CallbackOk, CallbackFails, TypeOK
<1>4. Waits(f)' => faults > 0 /\ faults' = faults - 1
  <2>1. CASE CallbackOk(f)
    BY <1>1, <2>1 DEF CallbackOk, Waits, TypeOK
  <2>2. CASE CallbackFails(f)
    BY <2>2 DEF CallbackFails
  <2> QED BY <2>1, <2>2 DEF RunCallback
<1>5. Course(f)'
  <2>1. "off" \notin Failures
    BY ConstantsAssumption DEF DontRetryStatuses, RetriableFailures
  <2>2. Waits(f)' => retries[f] = 0 /\ ~(faults' > 0)
    <3>1. faults > 0 => retries[f] = 0
      BY <1>1 DEF CleanInv
    <3>2. faults <= FaultBudget /\ FaultBudget \in Nat
      BY ConstantsAssumption DEF RecoverInv
    <3> QED BY <1>1, <1>4, <3>1, <3>2
  <2>3. faults' > 0 => ~Waits(f)'
    BY <2>2
  <2> QED BY <1>3, <2>1, <2>2, <2>3 DEF Course, DontRetryStatuses, RetriableFailures
<1>6. ASSUME NEW g \in hashmap, g # f PROVE Course(g)'
  <2>1. g \in Files \ {f} /\ HashOf[g] \in Hashes \ {HashOf[f]}
    BY <1>1, <1>6, ConstantsAssumption DEF IInv, HashInv, TypeOK
  <2> QED BY <1>1, <1>2, <2>1, CourseKept DEF CleanInv
<1>7. faults' > 0 => faults > 0
  BY <1>1
<1> QED BY <1>1, <1>2, <1>5, <1>6, <1>7 DEF CleanInv

LEMMA RecoverWorker ==
  ASSUME Recovering, WorkerRuns, TypeOK'
  PROVE  CleanInv'
<1> USE DEF Recovering
<1>1. PICK f \in Files : f = worker
  BY DEF WorkerRuns, TypeOK
<1>2. /\ RunCallback(f) /\ worker' = None
      /\ UNCHANGED <<pc, ret, hashmap, conn, status, retries, queue, env, resume_failed>>
  BY <1>1 DEF WorkerRuns
<1>3. /\ AwaitingCallback(f) /\ InUse(f) /\ ~cb_retval[f] /\ f \in hashmap
      /\ conn[f] = "off" /\ status[f] = "completed"
  <2>1. AwaitingCallback(f) /\ InUse(f)
    BY <1>1 DEF AwaitingCallback, InUse
  <2> QED BY <2>1, OneUser DEF DInv, AccountInv, WholeInv, IInv, UseInv
<1>4. ~InUse(f)' /\ \A g \in Files \ {f} : InUse(g) => InUse(g)'
  <2>1. \A i \in DOMAIN queue : queue[i] # f
    BY <1>1, ConstantsAssumption DEF IInv, UseInv
  <2>2. ~AwaitingCallback(f)'
    BY <1>2, <2>1, ConstantsAssumption DEF AwaitingCallback
  <2>3. \A g \in Files \ {f} : AwaitingCallback(g) => AwaitingCallback(g)'
    BY <1>1, <1>2 DEF AwaitingCallback
  <2> QED BY <1>2, <1>3, <2>2, <2>3 DEF InUse
<1> QED BY <1>2, <1>3, <1>4, RecoverCallback

\* A message of the multi stack.
LEMMA RecoverDrain ==
  ASSUME Recovering, NEW f \in Files, DrainOne(f), Clean', TypeOK'
  PROVE  CleanInv'
<1> USE DEF Recovering
<1>1. /\ conn[f] # "off" /\ conn[f] \in Statuses /\ ~AwaitingCallback(f) /\ ~cb_retval[f] /\ f \in hashmap
  <2>1. conn[f] # "off" /\ conn[f] \in Statuses /\ InUse(f)
    BY OffIsNoTransfer DEF DrainOne, InUse
  <2> QED BY <2>1, OneUser DEF DInv, AccountInv, IInv, UseInv
<1>2. /\ pc = "drain" /\ UNCHANGED <<pc, ret, hashmap, worker, env>>
      /\ status' = [status EXCEPT ![f] = conn[f]]
      /\ conn' = [conn EXCEPT ![f] = "off"]
  BY DEF DrainOne, DetachRead
<1>3. /\ conn'[f] = "off" /\ status'[f] = conn[f]
      /\ \A g \in Files \ {f} : conn'[g] = conn[g] /\ status'[g] = status[g]
  BY <1>2 DEF TypeOK
<1>4. hashmap \subseteq Files /\ faults \in Nat /\ faults' \in Nat
  BY DEF TypeOK
<1>5. CASE ReadCompleted(f) /\ queue' = Append(queue, f) /\ UNCHANGED <<cb_retval, diskVars, faults>>
  <2>1. conn[f] = "completed" /\ UNCHANGED <<retries, cb_retval, tar, faults, resume_failed>>
    BY <1>5 DEF ReadCompleted
  <2>2. \A g \in Files : AwaitingCallback(g)' <=> AwaitingCallback(g) \/ g = f
    <3>1. /\ DOMAIN queue = 1 .. Len(queue) /\ DOMAIN queue' = 1 .. Len(queue) + 1
          /\ Len(queue) \in Nat
          /\ \A i \in 1 .. Len(queue) : queue'[i] = queue[i]
          /\ queue'[Len(queue) + 1] = f
      BY <1>5, AppendProperties, LenProperties DEF TypeOK
    <3> QED BY <1>2, <3>1 DEF AwaitingCallback
  <2>3. \A g \in Files : InUse(g) => InUse(g)'
    BY <1>3, <2>2 DEF InUse
  <2>4. Course(f)'
    <3>1. ~Waits(f)'
      BY <2>2 DEF Waits, InUse
    <3>2. "off" \notin Failures
      BY ConstantsAssumption DEF DontRetryStatuses, RetriableFailures
    <3> QED BY <1>3, <3>1, <3>2 DEF Course, DontRetryStatuses, RetriableFailures
  <2>5. ASSUME NEW g \in hashmap, g # f PROVE Course(g)'
    BY <1>2, <1>3, <1>4, <2>1, <2>3, <2>5, CourseKept DEF CleanInv
  <2>6. ASSUME NEW g \in Files, cb_retval'[g] PROVE status'[g] = "completed"
    BY <1>1, <1>3, <2>1, <2>6 DEF CleanInv
  <2> QED BY <1>2, <2>1, <2>4, <2>5, <2>6 DEF CleanInv
<1>6. CASE ReadCompleted(f) /\ RunCallback(f) /\ UNCHANGED queue
  <2>1. conn[f] = "completed" /\ UNCHANGED <<retries, resume_failed>>
    BY <1>6 DEF ReadCompleted
  <2>2. \A g \in Files : AwaitingCallback(g)' <=> AwaitingCallback(g)
    BY <1>2, <1>6 DEF AwaitingCallback
  <2>3. ~InUse(f)' /\ \A g \in Files \ {f} : InUse(g) => InUse(g)'
    BY <1>1, <1>3, <2>2 DEF InUse
  <2> QED BY <1>1, <1>2, <1>3, <1>6, <2>1, <2>3, RecoverCallback
<1>7. CASE ReadFinalError(f)
  <2>1. conn[f] \in DontRetryStatuses /\ conn[f] # "write_error"
    BY <1>3, <1>7 DEF ReadFinalError, DontRetry, Clean
  <2>2. conn[f] \notin Failures
    BY <2>1 DEF OneFault
  <2>3. conn[f] \in {"not_found", "forbidden", "server_unreachable"}
    BY <2>1 DEF DontRetryStatuses
  <2>4. FALSE
    <3>1. Course(f)
      BY <1>1 DEF CleanInv
    <3> QED BY <2>2, <2>3, <3>1 DEF Course, DontRetryStatuses, RetriableFailures
  <2> QED BY <2>4
<1>8. CASE ReadRetriableError(f)
  <2>1. /\ conn[f] # "completed" /\ ~DontRetry(conn[f])
        /\ resume_failed' = (resume_failed \/ conn[f] = "range_error")
        /\ UNCHANGED <<retries, cb_retval, queue, tar, faults>>
    BY <1>8 DEF ReadRetriableError
  <2>2. \A g \in Files \ {f} : InUse(g) => InUse(g)'
    BY <1>2, <1>3, <2>1 DEF InUse, AwaitingCallback
  <2>3. Course(f)'
    <3>1. Course(f)
      BY <1>1 DEF CleanInv
    <3>2. "off" \notin Failures
      BY ConstantsAssumption DEF DontRetryStatuses, RetriableFailures
    <3>3. conn[f] \in RetriableFailures \union {"partial_file", "range_error", "range_not_satisfiable"}
      BY <1>1, <2>1 DEF Statuses, DontRetry
    <3>4. /\ ~(faults > 0)
          /\ \/ retries[f] = 0 /\ tar[HashOf[f]] # "complete"
             \/ retries[f] = 1 /\ conn[f] = "range_error"
             \/ retries[f] = 1 /\ conn[f] = "partial_file" /\ tar[HashOf[f]] = "complete" /\ env.ranges
             \/ retries[f] = 2 /\ conn[f] = "range_not_satisfiable"
      BY <3>1, <3>3 DEF Course, RetriableFailures
    <3>5. /\ status'[f] = conn[f] /\ conn'[f] = "off" /\ retries' = retries /\ tar' = tar
          /\ faults' = faults /\ env' = env /\ (conn[f] = "range_error" => resume_failed')
      BY <1>2, <1>3, <2>1
    <3> HIDE DEF Recovering
    <3>6. \/ retries'[f] = 0 /\ tar'[HashOf[f]] # "complete"
          \/ retries'[f] = 1 /\ status'[f] = "range_error" /\ resume_failed'
          \/ retries'[f] = 1 /\ status'[f] = "partial_file" /\ tar'[HashOf[f]] = "complete" /\ env'.ranges
          \/ retries'[f] = 2 /\ status'[f] = "range_not_satisfiable"
      BY <3>4, <3>5
    <3>7. /\ conn'[f] = "off" /\ ~(faults' > 0)
      BY <3>4, <3>5
    <3> QED BY <3>2, <3>6, <3>7 DEF Course, DontRetryStatuses, RetriableFailures
  <2>4. ASSUME NEW g \in hashmap, g # f PROVE Course(g)'
    <3>1. g \in Files \ {f} /\ Course(g) /\ (InUse(g) => InUse(g)')
      BY <1>4, <2>2, <2>4 DEF CleanInv
    <3>2. /\ conn'[g] = conn[g] /\ tar' = tar /\ retries' = retries /\ status'[g] = status[g]
          /\ cb_retval' = cb_retval /\ env' = env /\ (resume_failed => resume_failed') /\ faults' = faults
      BY <1>2, <1>3, <2>1, <3>1
    <3>3. faults' <= faults
      BY <1>4, <3>2
    <3> QED BY <1>4, <3>1, <3>2, <3>3, CourseKept
  <2>5. ASSUME NEW g \in Files, cb_retval'[g] PROVE status'[g] = "completed"
    BY <1>1, <1>3, <2>1, <2>5 DEF CleanInv
  <2> QED BY <1>2, <2>1, <2>3, <2>4, <2>5 DEF CleanInv
<1> QED BY <1>5, <1>6, <1>7, <1>8 DEF DrainOne, ReadCompleted

\* A transfer ends, with the one fault or as its course says.
LEMMA RecoverTransfer ==
  ASSUME Recovering, NEW f \in Files, TransferEnds(f), TypeOK'
  PROVE  CleanInv'
<1> USE DEF Recovering
<1>1. PICK o : /\ \/ o \in Outcomes(f) /\ faults' = faults
                  \/ o \in FaultyOutcomes(f) /\ faults > 0 /\ faults' = faults - 1
               /\ conn' = [conn EXCEPT ![f] = o[1]] /\ tar' = [tar EXCEPT ![HashOf[f]] = o[2]]
  BY DEF TransferEnds
<1>2. /\ conn[f] \in Active
      /\ UNCHANGED <<pc, ret, hashmap, status, retries, cb_retval, queue, worker, env, resume_failed>>
  BY DEF TransferEnds
<1>3. /\ HashOf[f] \in Hashes
      /\ conn'[f] = o[1] /\ tar'[HashOf[f]] = o[2]
      /\ \A g \in Files \ {f} : conn'[g] = conn[g]
      /\ \A h \in Hashes \ {HashOf[f]} : tar'[h] = tar[h]
  BY <1>1, ConstantsAssumption DEF TypeOK
<1>4. f \in hashmap /\ hashmap \subseteq Files /\ o[1] # "off"
  <2>1. InUse(f)
    BY <1>2, OffIsNoTransfer DEF InUse
  <2>2. o[1] \in Statuses
    BY <1>1, OutcomeTypes
  <2> QED BY <2>1, <2>2, OneUser, OffIsNoTransfer DEF TypeOK
<1>5. faults \in Nat /\ faults' \in Nat /\ faults' <= faults /\ FaultBudget <= 1
  BY <1>1 DEF TypeOK, OneFault
<1>6. ~Waits(f)' /\ \A g \in Files \ {f} : InUse(g) => InUse(g)'
  BY <1>2, <1>3, <1>4 DEF Waits, InUse, AwaitingCallback
<1>7. Course(f) /\ (faults > 0 => retries[f] = 0)
  BY <1>4 DEF CleanInv
<1>8. Course(f)'
  <2> DEFINE t == tar[HashOf[f]]
             n == retries[f]
  <2>0. DontRetryStatuses \intersect RetriableFailures = {} /\ Failures \subseteq DontRetryStatuses \union RetriableFailures
    BY ConstantsAssumption DEF DontRetryStatuses, RetriableFailures
  <2>1. CASE o \in Outcomes(f) /\ faults' = faults
    <3>1. /\ o[1] \notin Failures \union DontRetryStatuses \union RetriableFailures
          /\ o[1] # "fresh" /\ o[1] # "resume"
      BY <2>0, <2>1 DEF Outcomes, DontRetryStatuses, RetriableFailures
    <3>2. CASE conn[f] = "fresh"
      <4>1. o[1] = "completed"
        BY <2>1, <3>2 DEF Outcomes
      <4> QED BY <1>2, <1>3, <1>6, <3>1, <4>1 DEF Course, DontRetryStatuses, RetriableFailures
    <3>3. CASE conn[f] = "resume"
      <4>1. ~(faults > 0)
        BY <1>7, <3>3 DEF Course
      <4>2. \/ n = 1 /\ t # "complete"
            \/ n = 2 /\ t = "complete" /\ env.ranges
        BY <1>7, <3>3 DEF Course
      <4>3. \/ o[1] = "range_error" /\ ~env.ranges /\ o[2] = t
            \/ o[1] = "range_not_satisfiable" /\ t = "complete" /\ env.ranges
            \/ o[1] = "partial_file" /\ o[2] = "complete" /\ t # "complete" /\ env.ranges
        BY <2>1, <3>3 DEF Outcomes, Clean
      <4>4. /\ o[1] = "range_error" => retries[f] = 1
            /\ o[1] = "partial_file" => retries[f] = 1 /\ o[2] = "complete" /\ env.ranges
            /\ o[1] = "range_not_satisfiable" => retries[f] = 2
        BY <4>2, <4>3
      <4> HIDE DEF t, n
      <4> QED BY <1>2, <1>3, <1>6, <2>1, <3>1, <4>1, <4>4 DEF Course
    <3> QED BY <1>2, <3>2, <3>3 DEF Active
  <2>2. CASE o \in FaultyOutcomes(f) /\ faults > 0 /\ faults' = faults - 1
    <3>1. n = 0 /\ conn[f] = "fresh" /\ t = "empty"
      BY <1>2, <1>7, <2>2 DEF Course, Active
    <3>2. o[1] \in Failures /\ o[2] \in {"empty", "partial"}
      BY <2>2, <3>1 DEF FaultyOutcomes
    <3>3. o[1] \notin {"fresh", "resume", "range_error", "partial_file", "range_not_satisfiable"}
      BY <2>0, <3>2 DEF DontRetryStatuses, RetriableFailures
    <3>4. FaultBudget = 1 /\ faults' = 0
      BY <1>5, <2>2, ConstantsAssumption DEF OneFault, RecoverInv
    <3> QED BY <1>2, <1>3, <1>6, <3>1, <3>2, <3>3, <3>4 DEF Course, DontRetryStatuses, RetriableFailures
  <2> QED BY <1>1, <2>1, <2>2
<1>9. ASSUME NEW g \in hashmap, g # f PROVE Course(g)'
  <2>1. g \in Files \ {f} /\ HashOf[g] \in Hashes \ {HashOf[f]}
    BY <1>4, <1>9, ConstantsAssumption DEF IInv, HashInv, TypeOK
  <2> QED BY <1>2, <1>3, <1>5, <1>6, <2>1, CourseKept DEF CleanInv
<1>10. faults' > 0 => faults > 0
  BY <1>5
<1> QED BY <1>2, <1>8, <1>9, <1>10 DEF CleanInv

\* A step that leaves every file where it is.
LEMMA RecoverQuiet ==
  ASSUME Recovering, TypeOK',
         UNCHANGED <<hashmap, conn, tar, retries, status, cb_retval, env, resume_failed, faults>>,
         \A g \in Files : InUse(g) => InUse(g)',
         pc' # "cancel", pc' \in {"clear", "done"} => ret' = "ok"
  PROVE  CleanInv'
<1> USE DEF Recovering
<1>1. hashmap \subseteq Files /\ faults \in Nat
  BY DEF TypeOK
<1>2. ASSUME NEW g \in hashmap PROVE Course(g)'
  BY <1>1, <1>2, CourseKept DEF CleanInv
<1> QED BY <1>2 DEF CleanInv

\* The loop is left with an empty list: a file on it would have used up its retries.
LEMMA RecoverFinish ==
  ASSUME Recovering, Finish, TypeOK'
  PROVE  CleanInv'
<1> USE DEF Recovering
<1>1. /\ call = "end" /\ ~retry /\ left = 0
      /\ pc' = "clear"
      /\ UNCHANGED <<hashmap, tar, retries, status, cb_retval, env, resume_failed, faults, queue, worker>>
  BY DEF Finish, DInv, LoopInv, Clean, IInv, PhaseInv
<1>2. Attached = {} /\ PoolIdle
  BY <1>1 DEF DInv, LoopInv
<1>3. \A g \in Files : conn[g] = "off" /\ ~InUse(g)
  BY <1>2, ConstantsAssumption DEF Attached, PoolIdle, InUse, AwaitingCallback
<1>4. conn' = conn
  BY <1>3 DEF Finish, TypeOK
<1>5. failed = <<>>
  <2> SUFFICES ASSUME failed # <<>> PROVE FALSE
    OBVIOUS
  <2>1. Len(failed) \in Nat \ {0} /\ DOMAIN failed = 1 .. Len(failed)
    BY EmptySeq, LenProperties DEF TypeOK
  <2>2. PICK f \in Files : f = failed[1] /\ OnList(f)
    <3>1. 1 \in 1 .. Len(failed) /\ failed \in Seq(Files)
      BY <2>1 DEF TypeOK
    <3>2. failed[1] \in Files
      BY <3>1, ElementOfSeq
    <3> QED BY <2>1, <3>1, <3>2 DEF OnList
  <2>3. retries[f] = MaxRetries
    BY <1>1, <2>1, <2>2 DEF IInv, ListInv, Cursor, Exhausted
  <2>4. f \in hashmap /\ ~cb_retval[f]
    BY <2>2 DEF DInv, AccountInv, CleanInv
  <2>5. Waits(f) /\ Course(f)
    BY <1>3, <2>4 DEF Waits, CleanInv
  <2>6. retries[f] \in {0, 1, 2}
    BY <2>5 DEF Course
  <2> QED BY <2>3, <2>6 DEF OneFault
<1>6. ret' = "ok"
  BY <1>5 DEF Finish
<1>7. \A g \in Files : InUse(g) => InUse(g)'
  BY <1>3
<1> QED BY <1>1, <1>4, <1>6, <1>7, RecoverQuiet

\* poll_fewer_than finds no more than it may leave running: it fails only with libcurl.
LEMMA RecoverPoll ==
  ASSUME Recovering, PollEnter \/ PollPerform \/ DrainEnd
  PROVE  pc' \notin {"cancel", "clear", "done"}
<1> USE DEF Recovering
<1>1. XferLow <= XferHigh /\ XferHigh \in Nat /\ XferLow \in Nat
  BY DEF XferLow, XferHigh, TypeOK
<1>2. mcurl_size \in Nat /\ (Attached = {} => mcurl_size = 0)
  BY AttachedFinite DEF IInv, CountInv
<1>3. CASE PollEnter
  <2>1. CASE mcurl_size < XferHigh
    <3>1. PollReturns(0)
      BY <1>3, <2>1 DEF PollEnter
    <3> QED BY <3>1 DEF PollReturns, TypeOK
  <2>2. CASE ~(mcurl_size < XferHigh) /\ mcurl_size > XferLow
    BY <1>3, <2>2 DEF PollEnter
  <2>3. CASE ~(mcurl_size < XferHigh) /\ ~(mcurl_size > XferLow)
    <3>1. PollResult = 0
      BY <1>1, <1>2, <2>3 DEF PollResult, XferQueueBuffer
    <3>2. PollReturns(0)
      BY <1>3, <2>3, <3>1 DEF PollEnter
    <3> QED BY <3>2 DEF PollReturns, TypeOK
  <2> QED BY <2>1, <2>2, <2>3
<1>4. CASE PollPerform
  BY <1>4 DEF PollPerform
<1>5. CASE DrainEnd
  <2>1. CASE Attached # {} /\ mcurl_size > XferLow
    BY <1>5, <2>1 DEF DrainEnd
  <2>2. CASE ~(Attached # {} /\ mcurl_size > XferLow)
    <3>1. PollResult = 0
      BY <1>1, <1>2, <2>2 DEF PollResult, XferQueueBuffer
    <3>2. PollReturns(0)
      BY <1>5, <2>2, <3>1 DEF DrainEnd
    <3> QED BY <3>2 DEF PollReturns, TypeOK
  <2> QED BY <2>1, <2>2
<1> QED BY <1>3, <1>4, <1>5

\* A task that the worker takes stays due.
LEMMA TakenStaysDue ==
  ASSUME TypeOK, WorkerTakes
  PROVE  \A g \in Files : InUse(g) => InUse(g)'
<1> DEFINE n == Len(queue)
<1>1. /\ n \in Nat \ {0} /\ DOMAIN queue = 1 .. n
      /\ DOMAIN queue' = 1 .. n - 1
      /\ \A i \in 1 .. n - 1 : queue'[i] = queue[i + 1]
      /\ worker' = queue[1] /\ worker = None /\ conn' = conn
  BY EmptySeq, LenProperties, HeadTailProperties DEF WorkerTakes, TypeOK
<1> HIDE DEF n
<1>2. ASSUME NEW g \in Files, AwaitingCallback(g) PROVE AwaitingCallback(g)'
  <2>1. PICK i \in 1 .. n : queue[i] = g
    BY <1>1, <1>2, ConstantsAssumption DEF AwaitingCallback
  <2>2. CASE i = 1
    BY <1>1, <2>1, <2>2 DEF AwaitingCallback
  <2>3. CASE i # 1
    <3>1. i - 1 \in 1 .. n - 1 /\ (i - 1) + 1 = i
      BY <1>1, <2>3
    <3>2. i - 1 \in DOMAIN queue' /\ queue'[i - 1] = g
      BY <1>1, <2>1, <3>1
    <3> QED BY <3>2 DEF AwaitingCallback
  <2> QED BY <2>2, <2>3
<1> QED BY <1>1, <1>2 DEF InUse

\* Every step, of whichever party, keeps a clean session on its course.
LEMMA RecoverNext ==
  ASSUME TypeOK, IInv, DInv, RecoverInv, OneFault, [Next]_vars, TypeOK'
  PROVE  RecoverInv'
<1>1. /\ serrors' <= SetupErrorBudget /\ faults' <= FaultBudget
      /\ \A f \in Files : status'[f] = "write_error" => cb_retval'[f]
      /\ Clean' => Clean /\ serrors' = serrors /\ merrors' = merrors /\ env' = env
  BY RecoverBase
<1>2. SUFFICES ASSUME Clean', pc' # "exited" PROVE CleanInv'
  BY <1>1 DEF RecoverInv
<1>3. /\ Clean /\ serrors' = serrors /\ merrors' = merrors
      /\ merrors \in Nat
  BY <1>1, <1>2 DEF TypeOK
<1>4. CASE UNCHANGED vars
  <2>1. pc # "exited"
    BY <1>2, <1>4
  <2>2. Recovering
    BY <1>3, <2>1 DEF Recovering, RecoverInv
  <2>3. \A g \in Files : InUse(g) => InUse(g)'
    BY <1>4 DEF InUse, AwaitingCallback
  <2>4. pc' # "cancel" /\ (pc' \in {"clear", "done"} => ret' = "ok")
    BY <1>4, <2>2 DEF Recovering, CleanInv
  <2> QED BY <1>4, <2>2, <2>3, <2>4, RecoverQuiet
<1>5. CASE Next /\ ~UNCHANGED vars
  <2>1. pc # "exited"
    <3>1. SUFFICES ASSUME pc = "exited" PROVE FALSE
      OBVIOUS
    <3>2. CASE Main
      BY <3>1, <3>2
         DEF Main, Poll, EndLoop, Enqueue, EnqueueDuplicate, End, PollEnter, PollPerform, MultiError,
             DrainEnd, DrainOne, Join, Scan, RetryOne, RetryExhausted, RetryEnd, Finish, Cancel, Clear
    <3>3. CASE Worker \/ (\E f \in Files : TransferEnds(f)) \/ Terminated
      BY <1>5, <3>1, <3>3 DEF Worker, Over, TransferEnds, Terminated
    <3> QED BY <1>5, <3>2, <3>3 DEF Next
  <2>2. Recovering
    BY <1>3, <2>1 DEF Recovering, RecoverInv
  <2>3. pc # "cancel" /\ (pc \in {"clear", "done"} => ret = "ok")
    BY <2>2 DEF Recovering, CleanInv
  <2>4. ASSUME NEW f \in Files, Enqueue(f) PROVE CleanInv'
    BY <1>2, <1>3, <2>2, <2>4, RecoverEnqueue
  <2>5. ASSUME NEW f \in Files, EnqueueDuplicate(f) PROVE CleanInv'
    <3>1. \A g \in Files : InUse(g) => InUse(g)'
      BY <2>5 DEF EnqueueDuplicate, InUse, AwaitingCallback
    <3> QED BY <2>2, <2>3, <2>5, <3>1, RecoverQuiet DEF EnqueueDuplicate
  <2>6. CASE PollEnter \/ PollPerform \/ DrainEnd
    <3>1. \A g \in Files : InUse(g) => InUse(g)'
      BY <2>6 DEF PollEnter, PollPerform, DrainEnd, InUse, AwaitingCallback
    <3>2. pc' \notin {"cancel", "clear", "done"}
      BY <2>2, <2>6, RecoverPoll
    <3>3. UNCHANGED <<hashmap, conn, tar, retries, status, cb_retval, env, resume_failed, faults>>
      BY <2>6 DEF PollEnter, PollPerform, DrainEnd
    <3> QED BY <2>2, <3>1, <3>2, <3>3, RecoverQuiet
  <2>7. ~MultiError
    BY <1>3 DEF MultiError
  <2>8. ASSUME NEW f \in Files, DrainOne(f) PROVE CleanInv'
    BY <1>2, <2>2, <2>8, RecoverDrain
  <2>9. CASE End \/ Join \/ RetryExhausted \/ RetryEnd \/ Clear
    <3>1. \A g \in Files : InUse(g) => InUse(g)'
      BY <2>9 DEF End, Join, RetryExhausted, RetryEnd, Clear, InUse, AwaitingCallback
    <3>2. pc' # "cancel" /\ (pc' \in {"clear", "done"} => ret' = "ok")
      BY <2>3, <2>9 DEF End, Join, RetryExhausted, RetryEnd, Clear
    <3>3. UNCHANGED <<hashmap, conn, tar, retries, status, cb_retval, env, resume_failed, faults>>
      BY <2>9 DEF End, Join, RetryExhausted, RetryEnd, Clear
    <3> QED BY <2>2, <3>1, <3>2, <3>3, RecoverQuiet
  <2>10. CASE Scan
    <3>1. \A g \in Files : InUse(g) => InUse(g)'
      BY <2>10 DEF Scan, InUse, AwaitingCallback
    <3> QED BY <2>2, <2>10, <3>1, RecoverQuiet DEF Scan
  <2>11. CASE RetryOne
    BY <1>2, <1>3, <2>2, <2>11, RecoverRetry
  <2>12. CASE Finish
    BY <2>2, <2>12, RecoverFinish
  <2>13. ~Cancel
    BY <2>3 DEF Cancel
  <2>14. CASE WorkerTakes
    <3>1. \A g \in Files : InUse(g) => InUse(g)'
      BY <2>14, TakenStaysDue
    <3> QED BY <2>2, <2>3, <2>14, <3>1, RecoverQuiet DEF WorkerTakes
  <2>15. CASE WorkerRuns
    BY <2>2, <2>15, RecoverWorker
  <2>16. ~CallbackExits
    BY <1>2 DEF CallbackExits
  <2>17. ASSUME NEW f \in Files, TransferEnds(f) PROVE CleanInv'
    BY <2>2, <2>17, RecoverTransfer
  <2> QED
    BY <1>5, <2>4, <2>5, <2>6, <2>7, <2>8, <2>9, <2>10, <2>11, <2>12, <2>13, <2>14, <2>15, <2>16, <2>17
       DEF Next, Main, Poll, EndLoop, Worker, Terminated
<1> QED BY <1>4, <1>5

LEMMA RecoverInit == Init => RecoverInv
<1> SUFFICES ASSUME Init PROVE RecoverInv
  OBVIOUS
<1>1. CleanInv
  BY DEF Init, CleanInv
<1> QED BY <1>1, ConstantsAssumption DEF Init, RecoverInv

\* The course of the one fault: how many attempts it has cost a file so far, and what
\* these have left of its tar, decides what the next attempt does.
THEOREM Recovery == OneFault => (Spec => []RecoverInv)
<1> SUFFICES ASSUME OneFault PROVE Spec => []RecoverInv
  OBVIOUS
<1>1. Init => RecoverInv
  BY RecoverInit
<1>2. TypeOK /\ TypeOK' /\ IInv /\ DInv /\ RecoverInv /\ [Next]_vars => RecoverInv'
  BY RecoverNext
<1> QED BY <1>1, <1>2, TypeCorrect, Invariance, Delivery, PTL DEF Spec

\* The default three retries repair one interrupted transfer, or one failed extraction
\* that its callback reports: when libcurl works, the disk is not full and nothing was
\* lost, the session returns success and has staged all it was asked for.
THEOREM OneFaultIsRepaired == OneFault => (Spec => []OneFaultRecovered)
<1> SUFFICES ASSUME OneFault PROVE Spec => []OneFaultRecovered
  OBVIOUS
<1>1. TypeOK /\ IInv /\ DInv /\ StagedInv /\ RecoverInv => OneFaultRecovered
  <2> SUFFICES ASSUME TypeOK, IInv, DInv, StagedInv, RecoverInv, pc = "done", Clean, Lost = {}
               PROVE  ret = "ok" /\ staged = Wanted
    BY DEF OneFaultRecovered, Clean
  <2>1. ret = "ok"
    BY DEF RecoverInv, CleanInv
  <2>2. Handled = Wanted
    BY <2>1, SuccessIsComplete DEF Clean, MultiInterfaceWorks
  <2> QED BY <2>1, <2>2 DEF StagedInv, Lost
<1> QED BY <1>1, TypeCorrect, Invariance, Delivery, Staging, Recovery, PTL
=============================================================================

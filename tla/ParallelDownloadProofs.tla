----------------------- MODULE ParallelDownloadProofs -----------------------
(***************************************************************************)
(* Theorems about ParallelDownload, for every set of files and hashes, any *)
(* number of retries and transfers, and any faults.                        *)
(***************************************************************************)
EXTENDS ParallelDownload, FiniteSetTheorems, SequenceTheorems, TLAPS

----------------------------------------------------------------------------
(* Lemmas about the operators the model is built from.                     *)

\* Taking one item out of a list.
LEMMA RemoveAtProperties ==
  ASSUME NEW S, NEW s \in Seq(S), NEW c \in 1 .. Len(s)
  PROVE  /\ RemoveAt(s, c) \in Seq(S)
         /\ Len(RemoveAt(s, c)) = Len(s) - 1
         /\ \A i \in 1 .. Len(s) - 1 :
              RemoveAt(s, c)[i] = IF i < c THEN s[i] ELSE s[i + 1]
<1> DEFINE a == SubSeq(s, 1, c - 1)
           b == SubSeq(s, c + 1, Len(s))
<1>0. Len(s) \in Nat
  BY LenProperties
<1>1. a \in Seq(S) /\ Len(a) = c - 1 /\ \A i \in 1 .. c - 1 : a[i] = s[i]
  BY SubSeqProperties
<1>2. b \in Seq(S) /\ Len(b) = Len(s) - c /\ \A i \in 1 .. Len(s) - c : b[i] = s[c + i]
  <2>1. CASE c = Len(s)
    BY <2>1
  <2>2. CASE c < Len(s)
    BY <2>2
  <2> QED BY <2>1, <2>2
<1>3. RemoveAt(s, c) = a \o b
  BY DEF RemoveAt
<1> HIDE DEF a, b
<1>4. /\ a \o b \in Seq(S)
      /\ Len(a \o b) = Len(s) - 1
  <2>1. a \o b \in Seq(S) /\ Len(a \o b) = Len(a) + Len(b)
    BY <1>1, <1>2, ConcatProperties
  <2> QED BY <1>0, <1>1, <1>2, <2>1
<1>5. ASSUME NEW i \in 1 .. Len(s) - 1
      PROVE  (a \o b)[i] = IF i < c THEN s[i] ELSE s[i + 1]
  <2>1. (a \o b)[i] = IF i <= Len(a) THEN a[i] ELSE b[i - Len(a)]
    BY <1>1, <1>2, ConcatProperties
  <2>2. CASE i < c
    BY <1>1, <2>1, <2>2
  <2>3. CASE i >= c
    <3>1. i - Len(a) \in 1 .. Len(s) - c /\ c + (i - Len(a)) = i + 1
      BY <1>1, <2>3
    <3> QED BY <1>1, <1>2, <2>1, <2>3, <3>1
  <2>4. i < c \/ i >= c
    BY <1>0
  <2> QED BY <2>2, <2>3, <2>4
<1> QED BY <1>3, <1>4, <1>5

\* Every transition of a file to a transfer leaves a tar of a known kind.
LEMMA OutcomeTypes ==
  ASSUME TypeOK, NEW f \in Files
  PROVE  Outcomes(f) \union FaultyOutcomes(f) \subseteq Statuses \X Tars
<1>1. tar[HashOf[f]] \in Tars
  BY ConstantsAssumption DEF TypeOK
<1>2. Failures \subseteq Statuses
  BY ConstantsAssumption DEF Statuses
<1>3. {"completed", "range_error", "range_not_satisfiable", "partial_file"} \subseteq Statuses
  BY DEF Statuses
<1>4. "complete" \in Tars /\ "partial" \in Tars
  BY DEF Tars
<1>5. Outcomes(f) \subseteq Statuses \X Tars
  BY <1>1, <1>3, <1>4 DEF Outcomes
<1>6. FaultyOutcomes(f) \subseteq Statuses \X Tars
  BY <1>1, <1>2, <1>4 DEF FaultyOutcomes
<1> QED BY <1>5, <1>6

----------------------------------------------------------------------------
(* Type correctness.                                                       *)

USE DEF mainVars, handleVars, fileVars, poolVars, diskVars, budgets, vars

\* poll_fewer_than returns to a control point of the main thread.
LEMMA PollReturnsType ==
  ASSUME TypeOK, NEW r, PollReturns(r)
  PROVE  pc' \in MainPoints
BY DEF TypeOK, PollReturns, MainPoints

\* Adding a handle to the multi stack, or failing to.
LEMMA TransferType ==
  ASSUME TypeOK, NEW f \in Files, NEW n, NEW t \in Tars,
         StartTransfer(f, n, t) \/ SetupError(f, n, t)
  PROVE  /\ pc' \in MainPoints
         /\ conn' \in [Files -> {"off"} \union Active \union Statuses]
         /\ mcurl_size' \in Int
         /\ tar' \in [Hashes -> Tars]
         /\ serrors' \in Nat
<1>1. "empty" \in Tars /\ Mode(f, n, t) \in Active
  BY DEF Tars, Mode, Active
<1>2. CASE StartTransfer(f, n, t)
  <2>1. /\ conn' = [conn EXCEPT ![f] = Mode(f, n, t)]
        /\ mcurl_size' = mcurl_size + 1
        /\ pc' = "enter" /\ serrors' = serrors
    BY <1>2 DEF StartTransfer
  <2>2. PICK u \in Tars : tar' = [tar EXCEPT ![HashOf[f]] = u]
    BY <1>1, <1>2 DEF StartTransfer
  <2>3. conn' \in [Files -> {"off"} \union Active \union Statuses]
    BY <1>1, <2>1 DEF TypeOK
  <2>4. tar' \in [Hashes -> Tars]
    BY <2>2, ConstantsAssumption DEF TypeOK
  <2> QED BY <2>1, <2>3, <2>4 DEF TypeOK, MainPoints
<1>3. CASE SetupError(f, n, t)
  BY <1>1, <1>3, ConstantsAssumption DEF SetupError, TypeOK, MainPoints
<1> QED BY <1>2, <1>3

\* What the callback changes keeps its type.
LEMMA CallbackType ==
  ASSUME TypeOK, NEW f \in Files, RunCallback(f)
  PROVE  /\ cb_retval' \in [Files -> BOOLEAN]
         /\ tar' \in [Hashes -> Tars] /\ staged' \subseteq Hashes
         /\ faults' \in Nat
<1>1. HashOf[f] \in Hashes /\ "absent" \in Tars
  BY ConstantsAssumption DEF Tars
<1>2. CASE CallbackOk(f)
  BY <1>1, <1>2 DEF TypeOK, CallbackOk
<1>3. CASE CallbackFails(f)
  <2>1. \E r \in BOOLEAN : cb_retval' = [cb_retval EXCEPT ![f] = r]
    BY <1>3, ConstantsAssumption DEF CallbackFails
  <2>2. cb_retval' \in [Files -> BOOLEAN]
    BY <2>1 DEF TypeOK
  <2> QED BY <1>1, <1>3, <2>2 DEF TypeOK, CallbackFails
<1> QED BY <1>2, <1>3 DEF RunCallback

\* A fresh handle has the right types.
LEMMA InitType == Init => TypeOK
<1> SUFFICES ASSUME Init PROVE TypeOK
  OBVIOUS
<1>1. pc \in MainPoints /\ max_xfer \in Nat
  BY ConstantsAssumption DEF Init, MainPoints
<1>2. /\ status \in [Files -> Statuses]
      /\ tar \in [Hashes -> Tars]
      /\ retries \in [Files -> 0 .. MaxRetries]
  BY ConstantsAssumption DEF Init, Statuses, Tars
<1>3. failed \in Seq(Files) /\ queue \in Seq(Files) /\ left \in 0 .. Len(failed)
  BY EmptySeq DEF Init
<1>4. /\ conn \in [Files -> {"off"} \union Active \union Statuses]
      /\ cb_retval \in [Files -> BOOLEAN]
  BY DEF Init
<1>5. resume_failed \in BOOLEAN /\ retry \in BOOLEAN
  BY DEF Init
<1>6. /\ mcurl_size \in Int
      /\ faults \in Nat /\ merrors \in Nat /\ serrors \in Nat
  BY ConstantsAssumption DEF Init
<1> QED BY <1>1, <1>2, <1>3, <1>4, <1>5, <1>6 DEF Init, TypeOK

\* Every step, of whichever party, keeps the types.
LEMMA NextType == TypeOK /\ [Next]_vars => TypeOK'
<1> SUFFICES ASSUME TypeOK, [Next]_vars PROVE TypeOK'
  OBVIOUS
<1>1. ASSUME NEW f \in Files, Enqueue(f) PROVE TypeOK'
  <2>1. "absent" \in Tars
    BY DEF Tars
  <2> QED BY <1>1, <2>1, TransferType DEF TypeOK, Enqueue
<1>2. ASSUME NEW f \in Files, EnqueueDuplicate(f) PROVE TypeOK'
  BY <1>2 DEF TypeOK, EnqueueDuplicate
<1>3. CASE End
  BY <1>3 DEF TypeOK, End, MainPoints
<1>4. CASE PollEnter
  BY <1>4, PollReturnsType DEF TypeOK, PollEnter, MainPoints
<1>5. CASE PollPerform
  BY <1>5 DEF TypeOK, PollPerform, MainPoints
<1>6. CASE MultiError
  BY <1>6, PollReturnsType DEF TypeOK, MultiError
<1>7. CASE DrainEnd
  BY <1>7, PollReturnsType DEF TypeOK, DrainEnd, MainPoints
<1>8. ASSUME NEW f \in Files, DrainOne(f) PROVE TypeOK'
  <2>1. /\ conn[f] \in Statuses
        /\ status' \in [Files -> Statuses]
        /\ conn' \in [Files -> {"off"} \union Active \union Statuses]
        /\ mcurl_size' \in Int
    BY <1>8 DEF TypeOK, DrainOne, DetachRead
  <2>2. CASE ReadCompleted(f)
    <3>1. CASE env.threads > 0
      <4>1. queue' = Append(queue, f) /\ UNCHANGED <<cb_retval, diskVars, faults>>
        BY <2>2, <3>1, ConstantsAssumption DEF ReadCompleted
      <4>2. queue' \in Seq(Files)
        BY <4>1, AppendProperties DEF TypeOK
      <4> QED BY <1>8, <2>1, <2>2, <4>1, <4>2 DEF TypeOK, DrainOne, ReadCompleted
    <3>2. CASE RunCallback(f) /\ UNCHANGED queue
      BY <1>8, <2>1, <2>2, <3>2, CallbackType DEF TypeOK, DrainOne, ReadCompleted
    <3> QED BY <2>2, <3>1, <3>2 DEF ReadCompleted
  <2>3. CASE ReadFinalError(f)
    <3>1. /\ <<f>> \o failed \in Seq(Files)
          /\ Len(<<f>> \o failed) = 1 + Len(failed) /\ Len(failed) \in Nat
      BY ConcatProperties, LenProperties DEF TypeOK
    <3> QED BY <1>8, <2>1, <2>3, <3>1, ConstantsAssumption DEF TypeOK, DrainOne, ReadFinalError
  <2>4. CASE ReadRetriableError(f)
    BY <1>8, <2>1, <2>4 DEF TypeOK, DrainOne, ReadRetriableError
  <2> QED BY <1>8, <2>2, <2>3, <2>4 DEF DrainOne
<1>9. CASE Join
  BY <1>9 DEF TypeOK, Join, MainPoints
<1>10. CASE Scan
  <2>1. PICK order \in Bijection(1 .. Cardinality(Unhandled), Unhandled) :
          failed' = order \o failed /\ left' = Len(failed')
    BY <1>10 DEF Scan
  <2>2. Unhandled \subseteq Files /\ Cardinality(Unhandled) \in Nat
    <3>1. Unhandled \subseteq Files
      BY DEF Unhandled, TypeOK
    <3> QED BY <3>1, ConstantsAssumption, FS_Subset, FS_CardinalityType
  <2>3. order \in Seq(Files)
    BY <2>2, IsASeq DEF Bijection, Injection
  <2>4. failed' \in Seq(Files) /\ left' \in 0 .. Len(failed')
    BY <2>1, <2>3, ConcatProperties, LenProperties DEF TypeOK
  <2> QED BY <1>10, <2>4 DEF TypeOK, Scan, MainPoints
<1>11. CASE RetryOne
  <2> DEFINE f == failed[Cursor]
             n == retries[f] + 1
             t == tar[HashOf[f]]
  <2>1. Cursor \in 1 .. Len(failed) /\ Len(failed) \in Nat
    BY <1>11, LenProperties DEF TypeOK, RetryOne, Cursor
  <2>2. f \in Files /\ t \in Tars
    BY <2>1, ElementOfSeq, ConstantsAssumption DEF TypeOK
  <2>3. n \in 0 .. MaxRetries
    BY <1>11, <2>2, ConstantsAssumption DEF TypeOK, RetryOne, MayRetry
  <2>4. failed' \in Seq(Files) /\ left' \in 0 .. Len(failed')
    BY <1>11, <2>1, RemoveAtProperties DEF TypeOK, RetryOne
  <2>5. /\ StartTransfer(f, n, t) \/ SetupError(f, n, t)
        /\ retries' = [retries EXCEPT ![f] = n]
    BY <1>11 DEF RetryOne
  <2> HIDE DEF f, n, t
  <2>6. /\ pc' \in MainPoints
        /\ conn' \in [Files -> {"off"} \union Active \union Statuses]
        /\ mcurl_size' \in Int
        /\ tar' \in [Hashes -> Tars]
        /\ serrors' \in Nat
    BY <2>2, <2>5, TransferType
  <2>7. retries' \in [Files -> 0 .. MaxRetries]
    BY <2>2, <2>3, <2>5 DEF TypeOK
  <2> QED BY <1>11, <2>4, <2>6, <2>7 DEF TypeOK, RetryOne
<1>12. CASE RetryExhausted
  BY <1>12, LenProperties DEF TypeOK, RetryExhausted
<1>13. CASE RetryEnd
  BY <1>13 DEF TypeOK, RetryEnd, MainPoints
<1>14. CASE Finish
  BY <1>14 DEF TypeOK, Finish, MainPoints
<1>15. CASE Cancel
  BY <1>15 DEF TypeOK, Cancel, MainPoints
<1>16. CASE Clear
  BY <1>16 DEF TypeOK, Clear, MainPoints
<1>17. CASE WorkerTakes
  BY <1>17, HeadTailProperties DEF TypeOK, WorkerTakes
<1>18. CASE WorkerRuns
  BY <1>18, CallbackType DEF TypeOK, WorkerRuns
<1>19. CASE CallbackExits
  BY <1>19, EmptySeq DEF TypeOK, CallbackExits, MainPoints
<1>20. ASSUME NEW f \in Files, TransferEnds(f) PROVE TypeOK'
  <2>1. PICK o \in Statuses \X Tars :
          /\ conn' = [conn EXCEPT ![f] = o[1]]
          /\ tar' = [tar EXCEPT ![HashOf[f]] = o[2]]
    BY <1>20, OutcomeTypes DEF TransferEnds
  <2>2. faults' \in Nat
    BY <1>20 DEF TypeOK, TransferEnds
  <2> QED BY <1>20, <2>1, <2>2 DEF TypeOK, TransferEnds
<1>21. CASE UNCHANGED vars
  BY <1>21 DEF TypeOK
<1> QED
  BY <1>1, <1>2, <1>3, <1>4, <1>5, <1>6, <1>7, <1>8, <1>9, <1>10, <1>11, <1>12, <1>13,
     <1>14, <1>15, <1>16, <1>17, <1>18, <1>19, <1>20, <1>21
     DEF Next, Main, Poll, EndLoop, Worker, Terminated

\* Every variable keeps its type; in particular the retry counters stay
\* within the limit and the cursor of the retry loop within the list.
THEOREM TypeCorrect == Spec => []TypeOK
<1>1. Init => TypeOK
  BY InitType
<1>2. TypeOK /\ [Next]_vars => TypeOK'
  BY NextType
<1> QED BY <1>1, <1>2, PTL DEF Spec

----------------------------------------------------------------------------
(* The inductive invariant.                                                *)

\* A handle that is not in the multi stack is neither running nor unread.
LEMMA OffIsNoTransfer == "off" \notin Active \union Statuses
BY DEF Active, Statuses, DontRetryStatuses, RetriableFailures

\* The multi stack is finite, so its handles can be counted.
LEMMA AttachedFinite ==
  /\ IsFiniteSet(Attached)
  /\ Cardinality(Attached) \in Nat
  /\ Cardinality(Attached) = 0 <=> Attached = {}
<1>1. Attached \subseteq Files /\ IsFiniteSet(Files)
  BY ConstantsAssumption DEF Attached
<1>2. IsFiniteSet(Attached)
  BY <1>1, FS_Subset
<1> QED BY <1>2, FS_CardinalityType, FS_EmptySet

\* A step that neither attaches nor detaches a handle, and leaves the pool and
\* the retry list alone.
LEMMA Frame ==
  ASSUME TypeOK, UseInv, HashInv, ListInv, CountInv,
         UNCHANGED <<hashmap, queue, worker, failed, left, retries, status, mcurl_size>>,
         \A g \in Files : conn'[g] = "off" <=> conn[g] = "off"
  PROVE  /\ UseInv' /\ HashInv' /\ ListInv'
         /\ Attached' = Attached /\ mcurl_size' = Cardinality(Attached')
<1>1. Attached' = Attached
  BY DEF Attached
<1>2. \A g \in Files : InUse(g)' <=> InUse(g)
  BY DEF InUse, AwaitingCallback
<1>3. UseInv'
  BY <1>2 DEF UseInv, AwaitingCallback
<1>4. HashInv'
  BY DEF HashInv
<1>5. ListInv'
  <2>1. Cursor' = Cursor /\ \A g : Exhausted(g)' <=> Exhausted(g)
    BY DEF Cursor, Exhausted
  <2>2. \A g \in Files : ~InUse(g) => ~InUse(g)'
    BY <1>2
  <2>3. hashmap \subseteq Files
    BY DEF TypeOK
  <2> QED BY <2>1, <2>2, <2>3 DEF ListInv
<1> QED BY <1>1, <1>3, <1>4, <1>5 DEF CountInv

\* What poll_fewer_than returns to keeps the phases, and only an answer of 0
\* leads on to the join.
LEMMA PollReturnsPhase ==
  ASSUME TypeOK, PhaseInv, NEW r \in Int, PollReturns(r), UNCHANGED <<call, left>>
  PROVE  /\ PhaseInv'
         /\ pc' # "scan"
         /\ pc' = "join" => r = 0 /\ call = "end"
BY DEF TypeOK, PhaseInv, PollReturns

\* Starting a transfer for a file that has none counts it once.
LEMMA StartCount ==
  ASSUME TypeOK, CountInv, NEW f \in Files, conn[f] = "off", NEW n, NEW t,
         StartTransfer(f, n, t) \/ SetupError(f, n, t)
  PROVE  /\ mcurl_size' = Cardinality(Attached')
         /\ \A g \in Files \ {f} : conn'[g] = conn[g]
         /\ pc' \in {"enter", "cancel", "retry"}
         /\ pc' = "retry" => call # "enqueue"
<1>1. CASE StartTransfer(f, n, t)
  <2>1. conn' = [conn EXCEPT ![f] = Mode(f, n, t)] /\ Mode(f, n, t) # "off"
    BY <1>1 DEF StartTransfer, Mode
  <2>2. Attached' = Attached \union {f} /\ f \notin Attached
    BY <2>1 DEF Attached, TypeOK
  <2>3. Cardinality(Attached \union {f}) = Cardinality(Attached) + 1
    BY <2>2, AttachedFinite, FS_AddElement
  <2>4. mcurl_size' = Cardinality(Attached')
    BY <1>1, <2>2, <2>3 DEF StartTransfer, CountInv
  <2> QED BY <1>1, <2>1, <2>4 DEF StartTransfer, TypeOK
<1>2. CASE SetupError(f, n, t)
  <2>1. UNCHANGED <<conn, mcurl_size>>
    BY <1>2 DEF SetupError
  <2>2. mcurl_size' = Cardinality(Attached')
    BY <2>1 DEF Attached, CountInv
  <2> QED BY <1>2, <2>1, <2>2 DEF SetupError
<1> QED BY <1>1, <1>2

\* The invariant holds of a fresh handle.
LEMMA InitInv == Init => IInv
<1> SUFFICES ASSUME Init PROVE IInv
  OBVIOUS
<1>1. PhaseInv /\ HashInv
  BY DEF Init, PhaseInv, HashInv
<1>2. UseInv
  BY ConstantsAssumption DEF Init, UseInv, InUse, AwaitingCallback
<1>3. ListInv
  BY DEF Init, ListInv, Cursor
<1>4. CountInv
  <2>1. Attached = {}
    BY DEF Init, Attached
  <2> QED BY <2>1, FS_EmptySet DEF Init, CountInv
<1> QED BY <1>1, <1>2, <1>3, <1>4 DEF IInv

\* Enqueueing a file nobody knows yet.
LEMMA EnqueueInv ==
  ASSUME TypeOK, IInv, NEW f \in Files, Enqueue(f)
  PROVE  IInv'
<1> USE DEF IInv
<1>1. f \notin hashmap /\ hashmap' = hashmap \union {f} /\ call = "enqueue" /\ left = 0
  BY DEF Enqueue, PhaseInv
<1>2. ~InUse(f) /\ conn[f] = "off"
  BY <1>1 DEF UseInv, InUse
<1>3. StartTransfer(f, 0, "absent") \/ SetupError(f, 0, "absent")
  BY DEF Enqueue
<1>4. /\ mcurl_size' = Cardinality(Attached')
      /\ \A g \in Files \ {f} : conn'[g] = conn[g]
      /\ pc' \in {"enter", "cancel"}
  BY <1>1, <1>2, <1>3, StartCount
<1>5. UNCHANGED <<call, left, failed, status, retries, queue, worker>>
  BY DEF Enqueue
<1>6. PhaseInv'
  BY <1>1, <1>4, <1>5 DEF PhaseInv
<1>7. UseInv'
  <2>1. \A g \in Files : AwaitingCallback(g)' <=> AwaitingCallback(g)
    BY <1>5 DEF AwaitingCallback
  <2>2. ~AwaitingCallback(f)
    BY <1>2 DEF InUse
  <2>3. \A g \in Files : InUse(g)' => g = f \/ InUse(g)
    BY <1>4, <2>1 DEF InUse
  <2>4. \A g \in Files : ~(conn'[g] # "off" /\ AwaitingCallback(g)')
    BY <1>4, <2>1, <2>2 DEF UseInv
  <2> QED BY <1>1, <1>5, <2>3, <2>4 DEF UseInv
<1>8. HashInv'
  <2>1. \A g \in hashmap : HashOf[g] # HashOf[f]
    BY DEF Enqueue, KnownHash
  <2> QED BY <1>1, <2>1 DEF HashInv
<1>9. ListInv'
  <2>1. Cursor' = Cursor /\ Cursor = Len(failed) + 1 /\ Len(failed) \in Nat
    BY <1>1, <1>5, LenProperties DEF Cursor, TypeOK
  <2>2. Cursor .. Len(failed) = {}
    BY <2>1
  <2> QED BY <1>5, <2>1, <2>2 DEF ListInv, Exhausted
<1>10. CountInv'
  BY <1>4 DEF CountInv
<1> QED BY <1>6, <1>7, <1>8, <1>9, <1>10

\* Retrying the item under the cursor.
LEMMA RetryInv ==
  ASSUME TypeOK, IInv, RetryOne
  PROVE  IInv'
<1> USE DEF IInv
<1> DEFINE f == failed[Cursor]
           n == retries[f] + 1
           t == tar[HashOf[f]]
<1>1. /\ Cursor \in 1 .. Len(failed) /\ Len(failed) \in Nat /\ left \in Nat /\ left > 0
      /\ failed \in Seq(Files) /\ f \in Files
  BY LenProperties, ElementOfSeq DEF TypeOK, RetryOne, Cursor
<1>2. ~Exhausted(f) /\ status[f] # "write_error"
  BY <1>1, ConstantsAssumption DEF RetryOne, MayRetry, Exhausted, TypeOK
<1>3. /\ f \in hashmap /\ ~InUse(f) /\ conn[f] = "off" /\ ~AwaitingCallback(f)
      /\ \A j \in Cursor .. Len(failed) : failed[j] = f => j = Cursor
  BY <1>1, <1>2 DEF ListInv, InUse
<1>4. /\ pc = "retry" /\ call = "retry"
      /\ StartTransfer(f, n, t) \/ SetupError(f, n, t)
      /\ retries' = [retries EXCEPT ![f] = n]
      /\ failed' = RemoveAt(failed, Cursor)
      /\ left' = left - 1
      /\ UNCHANGED <<call, hashmap, status, queue, worker>>
  BY DEF RetryOne, PhaseInv
<1> HIDE DEF n, t
<1>5. /\ mcurl_size' = Cardinality(Attached')
      /\ \A g \in Files \ {f} : conn'[g] = conn[g]
      /\ pc' \in {"enter", "cancel", "retry"}
  BY <1>1, <1>3, <1>4, StartCount
<1>6. /\ Len(failed') = Len(failed) - 1 /\ Cursor' = Cursor
      /\ \A i \in 1 .. Len(failed) - 1 :
           failed'[i] = IF i < Cursor THEN failed[i] ELSE failed[i + 1]
  BY <1>1, <1>4, RemoveAtProperties DEF Cursor
<1>7. PhaseInv'
  BY <1>4, <1>5 DEF PhaseInv
<1>8. UseInv'
  <2>1. \A g \in Files : AwaitingCallback(g)' <=> AwaitingCallback(g)
    BY <1>4 DEF AwaitingCallback
  <2>2. \A g \in Files : InUse(g)' => g = f \/ InUse(g)
    BY <1>5, <2>1 DEF InUse
  <2>3. \A g \in Files : ~(conn'[g] # "off" /\ AwaitingCallback(g)')
    BY <1>3, <1>5, <2>1 DEF UseInv
  <2> QED BY <1>3, <1>4, <2>2, <2>3 DEF UseInv
<1>9. HashInv'
  BY <1>4 DEF HashInv
<1>10. ListInv'
  <2>1. \A g \in Files \ {f} : /\ Exhausted(g)' <=> Exhausted(g)
                               /\ InUse(g)' <=> InUse(g)
    BY <1>1, <1>4, <1>5 DEF Exhausted, InUse, AwaitingCallback, TypeOK
  <2>2. \A i \in 1 .. Len(failed) : failed[i] \in Files
    BY <1>1, ElementOfSeq
  <2>3. \A g \in Files : status'[g] = "write_error" => Exhausted(g)'
    BY <1>2, <1>4, <2>1 DEF ListInv
  <2>4. ASSUME NEW i \in 1 .. Len(failed'), i < Cursor' PROVE Exhausted(failed[i])'
    <3>1. failed'[i] = failed[i] /\ i < Cursor /\ i \in 1 .. Len(failed)
      BY <1>1, <1>6, <2>4
    <3>2. Exhausted(failed[i])
      BY <3>1 DEF ListInv
    <3>3. failed'[i] \in Files \ {f}
      BY <1>2, <2>2, <3>1, <3>2
    <3> QED BY <2>1, <3>1, <3>2, <3>3 DEF Exhausted
  <2>5. ASSUME NEW i \in Cursor' .. Len(failed'), ~Exhausted(failed[i])'
        PROVE  /\ failed'[i] \in hashmap' /\ ~InUse(failed[i])'
               /\ \A j \in Cursor' .. Len(failed') : failed'[j] = failed'[i] => i = j
    <3>1. \A j \in Cursor' .. Len(failed') :
            /\ failed'[j] = failed[j + 1] /\ j \in Nat
            /\ j + 1 \in Cursor .. Len(failed) /\ j + 1 # Cursor
      BY <1>1, <1>6
    <3>2. failed'[i] \in Files \ {f}
      BY <1>1, <1>3, <2>2, <3>1
    <3>3. ~Exhausted(failed[i + 1])
      BY <2>1, <2>5, <3>1, <3>2 DEF Exhausted
    <3>4. /\ failed[i + 1] \in hashmap /\ ~InUse(failed[i + 1])
          /\ \A j \in Cursor .. Len(failed) : failed[j] = failed[i + 1] => i + 1 = j
      BY <3>1, <3>3 DEF ListInv
    <3>5. ~InUse(failed[i])'
      BY <2>1, <3>1, <3>2, <3>4 DEF InUse, AwaitingCallback
    <3>6. \A j \in Cursor' .. Len(failed') : failed'[j] = failed'[i] => i = j
      <4> TAKE j \in Cursor' .. Len(failed')
      <4> HAVE failed'[j] = failed'[i]
      <4>1. j + 1 \in Cursor .. Len(failed) /\ failed[j + 1] = failed[i + 1]
        BY <3>1
      <4>2. i + 1 = j + 1
        BY <3>4, <4>1
      <4> QED BY <3>1, <4>2
    <3> QED BY <1>4, <3>1, <3>4, <3>5, <3>6
  <2>6. Cursor' .. Len(failed') \subseteq 1 .. Len(failed')
    BY <1>1, <1>6
  <2> HIDE DEF f
  <2> QED BY <2>3, <2>4, <2>5, <2>6 DEF ListInv, Exhausted, InUse, AwaitingCallback
<1>11. CountInv'
  BY <1>5 DEF CountInv
<1> QED BY <1>7, <1>8, <1>9, <1>10, <1>11

\* Passing an exhausted item.
LEMMA ExhaustedInv ==
  ASSUME TypeOK, IInv, RetryExhausted
  PROVE  IInv'
<1> USE DEF IInv
<1>1. /\ Cursor \in 1 .. Len(failed) /\ Len(failed) \in Nat
      /\ failed \in Seq(Files) /\ failed[Cursor] \in Files
  BY LenProperties, ElementOfSeq DEF TypeOK, RetryExhausted, Cursor
<1>2. Exhausted(failed[Cursor])
  BY <1>1, ConstantsAssumption DEF RetryExhausted, MayRetry, Exhausted, ListInv, TypeOK
<1>3. Cursor' = Cursor + 1 /\ pc = "retry" /\ call = "retry"
  BY <1>1 DEF RetryExhausted, Cursor, TypeOK, PhaseInv
<1>4. UNCHANGED <<pc, call, failed, hashmap, conn, mcurl_size, status, retries, queue, worker>>
  BY DEF RetryExhausted
<1>5. PhaseInv'
  BY <1>3, <1>4 DEF PhaseInv
<1>6. UseInv' /\ HashInv'
  BY <1>4 DEF UseInv, HashInv, InUse, AwaitingCallback
<1>7. ListInv'
  <2>1. \A g : /\ Exhausted(g)' <=> Exhausted(g)
               /\ InUse(g)' <=> InUse(g)
    BY <1>4 DEF Exhausted, InUse, AwaitingCallback
  <2>2. \A i \in 1 .. Len(failed) : i < Cursor + 1 => i < Cursor \/ i = Cursor
    BY <1>1
  <2>3. \A i \in Cursor + 1 .. Len(failed) : i \in Cursor .. Len(failed)
    BY <1>1
  <2> QED BY <1>2, <1>3, <1>4, <2>1, <2>2, <2>3 DEF ListInv
<1>8. CountInv'
  BY <1>3, <1>4 DEF CountInv, Attached
<1> QED BY <1>5, <1>6, <1>7, <1>8

\* The scan, which finds nobody at work, makes the retry list.
LEMMA ScanInv ==
  ASSUME TypeOK, IInv, Scan
  PROVE  IInv'
<1> USE DEF IInv
<1>1. PICK order \in Bijection(1 .. Cardinality(Unhandled), Unhandled) :
        failed' = order \o failed /\ left' = Len(failed')
  BY DEF Scan
<1> DEFINE m == Cardinality(Unhandled)
<1>2. Unhandled \subseteq hashmap /\ hashmap \subseteq Files /\ m \in Nat
  <2>1. Unhandled \subseteq hashmap /\ hashmap \subseteq Files
    BY DEF Unhandled, TypeOK
  <2> QED BY <2>1, ConstantsAssumption, FS_Subset, FS_CardinalityType
<1>3. /\ order \in Seq(Files) /\ Len(order) = m
      /\ \A i \in 1 .. m : order[i] \in Unhandled
      /\ \A i, j \in 1 .. m : order[i] = order[j] => i = j
  BY <1>2 DEF Bijection, Injection, IsInjective
<1>4. /\ pc = "scan" /\ call = "end" /\ left = 0
      /\ pc' = "retry" /\ call' = "retry"
      /\ UNCHANGED <<hashmap, conn, mcurl_size, status, retries, queue, worker>>
  BY DEF Scan, PhaseInv
<1> HIDE DEF m
<1>5. /\ Len(failed) \in Nat /\ failed \in Seq(Files)
      /\ Len(failed') = m + Len(failed) /\ Cursor' = 1
      /\ \A i \in 1 .. m + Len(failed) :
           failed'[i] = IF i <= m THEN order[i] ELSE failed[i - m]
  <2>1. failed \in Seq(Files) /\ Len(failed) \in Nat
    BY LenProperties DEF TypeOK
  <2>2. /\ Len(failed') = m + Len(failed)
        /\ \A i \in 1 .. m + Len(failed) :
             failed'[i] = IF i <= m THEN order[i] ELSE failed[i - m]
    <3>1. order \in Seq(Files) /\ failed \in Seq(Files)
      BY <1>3, <2>1
    <3>2. /\ Len(order \o failed) = Len(order) + Len(failed)
          /\ \A i \in 1 .. Len(order) + Len(failed) :
               (order \o failed)[i] = IF i <= Len(order) THEN order[i]
                                                          ELSE failed[i - Len(order)]
      BY ONLY <3>1, ConcatProperties, Zenon
    <3> QED BY <1>1, <1>3, <3>2
  <2>3. m \in Nat
    BY <1>2 DEF m
  <2>4. Cursor' = 1
    <3>1. left' = m + Len(failed) /\ m + Len(failed) \in Nat
      BY <1>1, <2>1, <2>2, <2>3
    <3> QED BY <2>2, <3>1 DEF Cursor
  <2> QED BY <2>1, <2>2, <2>4
<1>6. \A g \in Files : ~InUse(g) /\ ~InUse(g)'
  <2>1. Attached = {} /\ PoolIdle
    BY <1>4 DEF CountInv
  <2>2. \A g \in Files : ~InUse(g)
    BY <2>1, ConstantsAssumption DEF Attached, PoolIdle, InUse, AwaitingCallback
  <2> QED BY <1>4, <2>2 DEF InUse, AwaitingCallback
<1>7. \A i \in 1 .. Len(failed) : Exhausted(failed[i])
  BY <1>4, <1>5 DEF ListInv, Cursor
<1>8. PhaseInv' /\ HashInv' /\ CountInv'
  BY <1>4 DEF PhaseInv, HashInv, CountInv, Attached
<1>9. UseInv'
  BY <1>4, <1>6 DEF UseInv, InUse, AwaitingCallback
<1>10. ListInv'
  <2>1. \A g : Exhausted(g)' <=> Exhausted(g)
    BY <1>4 DEF Exhausted
  <2>2. \A i \in 1 .. Len(failed') : ~Exhausted(failed'[i]) =>
          i \in 1 .. m /\ failed'[i] = order[i]
    <3>1. ASSUME NEW i \in 1 .. Len(failed'), i > m PROVE Exhausted(failed'[i])
      <4>1. i - m \in 1 .. Len(failed) /\ failed'[i] = failed[i - m]
        BY <1>2, <1>5, <3>1 DEF m
      <4> QED BY <1>7, <4>1
    <3>2. ASSUME NEW i \in 1 .. Len(failed'), i <= m
          PROVE  i \in 1 .. m /\ failed'[i] = order[i]
      BY <1>2, <1>5, <3>2 DEF m
    <3>3. m \in Nat
      BY <1>2 DEF m
    <3> QED BY <3>1, <3>2, <3>3
  <2>3. \A i \in 1 .. Len(failed') : ~(i < 1)
    BY <1>5
  <2>4. \A i, j \in 1 .. Len(failed') :
          ~Exhausted(failed'[i]) /\ failed'[j] = failed'[i] => i = j
    BY <1>3, <2>2
  <2>5. \A i \in 1 .. Len(failed') : ~Exhausted(failed'[i]) =>
          failed'[i] \in hashmap' /\ failed'[i] \in Files
    BY <1>2, <1>3, <1>4, <2>2
  <2>6. \A g \in Files : status'[g] = "write_error" => Exhausted(g)'
    BY <1>4, <2>1 DEF ListInv
  <2>7. \A i \in 1 .. Len(failed') : Exhausted(failed[i])' <=> Exhausted(failed'[i])
    BY <1>4 DEF Exhausted
  <2>8. \A i \in 1 .. Len(failed') : ~Exhausted(failed'[i]) => ~InUse(failed[i])'
    BY <1>6, <2>5 DEF InUse, AwaitingCallback
  <2> QED BY <1>5, <2>3, <2>4, <2>5, <2>6, <2>7, <2>8 DEF ListInv
<1> QED BY <1>8, <1>9, <1>10

\* Reading one message of the multi stack.
LEMMA DrainInv ==
  ASSUME TypeOK, IInv, NEW f \in Files, DrainOne(f)
  PROVE  IInv'
<1> USE DEF IInv
<1>1. /\ pc = "drain" /\ conn[f] \in Statuses /\ conn[f] # "off" /\ InUse(f) /\ f \in hashmap
      /\ ~AwaitingCallback(f)
  BY OffIsNoTransfer DEF DrainOne, UseInv, InUse
<1>2. /\ status' = [status EXCEPT ![f] = conn[f]]
      /\ conn' = [conn EXCEPT ![f] = "off"]
      /\ mcurl_size' = mcurl_size - 1
      /\ UNCHANGED <<pc, call, left, hashmap, worker>>
  BY DEF DrainOne, DetachRead
<1>3. /\ conn'[f] = "off" /\ status'[f] = conn[f]
      /\ \A g \in Files \ {f} : conn'[g] = conn[g] /\ status'[g] = status[g]
  BY <1>2 DEF TypeOK
<1>4. PhaseInv' /\ HashInv'
  BY <1>2 DEF PhaseInv, HashInv
<1>5. CountInv'
  <2>1. Attached' = Attached \ {f} /\ f \in Attached
    BY <1>1, <1>3 DEF Attached
  <2>2. Cardinality(Attached \ {f}) = Cardinality(Attached) - 1
    BY <2>1, AttachedFinite, FS_RemoveElement
  <2> QED BY <1>1, <1>2, <2>1, <2>2 DEF CountInv
<1>6. Len(failed) \in Nat /\ failed \in Seq(Files) /\ Cursor \in 1 .. Len(failed) + 1
  BY LenProperties DEF TypeOK, Cursor
<1>7. \A i \in 1 .. Len(failed) : failed[i] \in Files
  BY <1>6, ElementOfSeq
<1>8. ASSUME UNCHANGED <<failed, retries, queue>>, conn[f] # "write_error"
      PROVE  UseInv' /\ ListInv'
  <2>1. \A g : AwaitingCallback(g)' <=> AwaitingCallback(g)
    BY <1>2, <1>8 DEF AwaitingCallback
  <2>2. \A g \in Files : InUse(g)' => InUse(g)
    BY <1>3, <2>1 DEF InUse
  <2>3. UseInv'
    BY <1>2, <1>3, <1>8, <2>1, <2>2 DEF UseInv
  <2>4. Cursor' = Cursor /\ \A g : Exhausted(g)' <=> Exhausted(g)
    BY <1>2, <1>8 DEF Cursor, Exhausted
  <2>5. \A g \in Files : status'[g] = "write_error" => Exhausted(g)'
    BY <1>3, <1>8, <2>4 DEF ListInv
  <2>6. \A i \in Cursor .. Len(failed) : ~InUse(failed[i]) => ~InUse(failed[i])'
    BY <1>6, <1>7, <1>8, <2>2 DEF InUse, AwaitingCallback
  <2> QED BY <1>2, <1>8, <2>3, <2>4, <2>5, <2>6 DEF ListInv, Exhausted
<1>9. CASE ReadCompleted(f)
  <2>1. conn[f] = "completed" /\ UNCHANGED <<failed, retries>>
    BY <1>9 DEF ReadCompleted
  <2>2. CASE UNCHANGED queue
    BY <1>4, <1>5, <1>8, <2>1, <2>2
  <2>3. CASE queue' = Append(queue, f)
    <3>1. /\ Len(queue) \in Nat /\ Len(queue') = Len(queue) + 1
          /\ DOMAIN queue = 1 .. Len(queue) /\ DOMAIN queue' = 1 .. Len(queue) + 1
          /\ \A i \in 1 .. Len(queue) : queue'[i] = queue[i]
          /\ queue'[Len(queue) + 1] = f
      BY <2>3, AppendProperties, LenProperties DEF TypeOK
    <3>2. \A g \in Files : AwaitingCallback(g)' <=> AwaitingCallback(g) \/ g = f
      BY <1>2, <3>1 DEF AwaitingCallback
    <3>3. \A g \in Files : InUse(g)' <=> InUse(g)
      BY <1>1, <1>3, <3>2 DEF InUse
    <3>4. worker # f /\ \A i \in 1 .. Len(queue) : queue[i] # f
      BY <1>1, <3>1 DEF AwaitingCallback
    <3>5. /\ worker' # None => \A i \in DOMAIN queue' : queue'[i] # worker'
          /\ \A i, j \in DOMAIN queue' : queue'[i] = queue'[j] => i = j
      <4>1. \A i \in DOMAIN queue' : i \in DOMAIN queue \/ i = Len(queue) + 1
        BY <3>1
      <4> QED BY <1>2, <3>1, <3>4, <4>1 DEF UseInv
    <3>6. UseInv'
      BY <1>2, <1>3, <3>2, <3>3, <3>5 DEF UseInv
    <3>7. Cursor' = Cursor /\ \A g : Exhausted(g)' <=> Exhausted(g)
      BY <1>2, <2>1 DEF Cursor, Exhausted
    <3>8. \A g \in Files : status'[g] = "write_error" => Exhausted(g)'
      BY <1>3, <2>1, <3>7 DEF ListInv
    <3>9. \A i \in Cursor .. Len(failed) : ~InUse(failed[i]) => ~InUse(failed[i])'
      BY <1>6, <1>7, <2>1, <3>3 DEF InUse, AwaitingCallback
    <3>10. ListInv'
      BY <1>2, <2>1, <3>7, <3>8, <3>9 DEF ListInv, Exhausted
    <3> QED BY <1>4, <1>5, <3>6, <3>10
  <2> QED BY <1>9, <2>2, <2>3 DEF ReadCompleted
<1>10. CASE ReadRetriableError(f)
  BY <1>4, <1>5, <1>8, <1>10 DEF ReadRetriableError, DontRetry, DontRetryStatuses
<1>11. CASE ReadFinalError(f)
  <2>1. /\ retries' = [retries EXCEPT ![f] = MaxRetries]
        /\ failed' = <<f>> \o failed
        /\ UNCHANGED queue
    BY <1>11 DEF ReadFinalError
  <2>2. /\ Len(failed') = Len(failed) + 1 /\ Cursor' = Cursor + 1
        /\ failed'[1] = f
        /\ \A i \in 2 .. Len(failed) + 1 : failed'[i] = failed[i - 1]
    <3>1. /\ Len(<<f>> \o failed) = 1 + Len(failed)
          /\ \A i \in 1 .. 1 + Len(failed) :
               (<<f>> \o failed)[i] = IF i <= 1 THEN <<f>>[i] ELSE failed[i - 1]
      BY <1>6, ConcatProperties
    <3>2. Len(failed') = Len(failed) + 1
      BY <1>6, <2>1, <3>1
    <3>3. failed'[1] = f
      BY <1>6, <2>1, <3>1
    <3>4. \A i \in 2 .. Len(failed) + 1 : failed'[i] = failed[i - 1]
      BY <1>6, <2>1, <3>1
    <3>5. Cursor' = Cursor + 1
      BY <1>2, <1>6, <3>2 DEF Cursor, TypeOK
    <3> QED BY <3>2, <3>3, <3>4, <3>5
  <2>3. /\ Exhausted(f)'
        /\ \A g \in Files : Exhausted(g) => Exhausted(g)'
        /\ \A g \in Files \ {f} : Exhausted(g)' <=> Exhausted(g)
    BY <2>1 DEF Exhausted, TypeOK
  <2>4. \A g : AwaitingCallback(g)' <=> AwaitingCallback(g)
    BY <1>2, <2>1 DEF AwaitingCallback
  <2>5. \A g \in Files : InUse(g)' => InUse(g)
    BY <1>3, <2>4 DEF InUse
  <2>6. UseInv'
    BY <1>2, <1>3, <2>1, <2>4, <2>5 DEF UseInv
  <2>7. \A g \in Files : status'[g] = "write_error" => Exhausted(g)'
    BY <1>3, <2>3 DEF ListInv
  <2>8. ASSUME NEW i \in 1 .. Len(failed'), i < Cursor' PROVE retries'[failed'[i]] = MaxRetries
    <3>1. CASE i = 1
      BY <2>2, <2>3, <3>1 DEF Exhausted
    <3>2. CASE i > 1
      <4>1. i - 1 \in 1 .. Len(failed) /\ i - 1 < Cursor /\ failed'[i] = failed[i - 1]
        BY <1>6, <2>2, <2>8, <3>2
      <4>2. Exhausted(failed[i - 1]) /\ failed[i - 1] \in Files
        BY <1>7, <4>1 DEF ListInv
      <4> QED BY <2>3, <4>1, <4>2 DEF Exhausted
    <3> QED BY <2>2, <3>1, <3>2
  <2>9. ASSUME NEW i \in Cursor' .. Len(failed'), retries'[failed'[i]] # MaxRetries
        PROVE  /\ failed'[i] \in hashmap' /\ ~InUse(failed[i])'
               /\ \A j \in Cursor' .. Len(failed') : failed'[j] = failed'[i] => i = j
    <3>1. \A j \in Cursor' .. Len(failed') :
            /\ failed'[j] = failed[j - 1] /\ j \in Int
            /\ j - 1 \in Cursor .. Len(failed) /\ failed[j - 1] \in Files
      <4> TAKE j \in Cursor' .. Len(failed')
      <4>1. /\ j \in 2 .. Len(failed) + 1 /\ j - 1 \in Cursor .. Len(failed)
            /\ j - 1 \in 1 .. Len(failed)
        BY <1>6, <2>2
      <4> QED BY <1>7, <2>2, <4>1
    <3>2. ~Exhausted(failed[i - 1])
      BY <2>3, <2>9, <3>1 DEF Exhausted
    <3>3. /\ failed[i - 1] \in hashmap /\ ~InUse(failed[i - 1])
          /\ \A j \in Cursor .. Len(failed) : failed[j] = failed[i - 1] => i - 1 = j
      BY <3>1, <3>2 DEF ListInv
    <3>4. ~InUse(failed[i])'
      BY <2>5, <3>1, <3>3 DEF InUse, AwaitingCallback
    <3>5. \A j \in Cursor' .. Len(failed') : failed'[j] = failed'[i] => i = j
      <4> TAKE j \in Cursor' .. Len(failed')
      <4> HAVE failed'[j] = failed'[i]
      <4>1. i - 1 = j - 1
        BY <3>1, <3>3
      <4> QED BY <3>1, <4>1
    <3> QED BY <1>2, <3>1, <3>3, <3>4, <3>5
  <2>10. ListInv'
    BY <2>7, <2>8, <2>9 DEF ListInv, Exhausted
  <2> QED BY <1>4, <1>5, <2>6, <2>10
<1> QED BY <1>9, <1>10, <1>11 DEF DrainOne

\* poll_fewer_than, apart from the messages it reads.
LEMMA PollInv ==
  ASSUME TypeOK, IInv, PollEnter \/ PollPerform \/ MultiError \/ DrainEnd
  PROVE  IInv'
<1> USE DEF IInv
<1>1. /\ UNCHANGED <<call, left, hashmap, conn, queue, worker, failed, retries, status,
                     mcurl_size>>
      /\ pc \in {"enter", "perform", "drain"}
  BY DEF PollEnter, PollPerform, MultiError, DrainEnd
<1>2. UseInv' /\ HashInv' /\ ListInv' /\ Attached' = Attached /\ mcurl_size' = Cardinality(Attached')
  BY <1>1, Frame
<1>3. \/ pc' \in {"perform", "drain"}
      \/ PollReturns(-1)
      \/ PollReturns(0) /\ mcurl_size < XferHigh
      \/ PollReturns(PollResult) /\ ~(mcurl_size > XferLow)
      \/ PollReturns(PollResult) /\ Attached = {}
  BY DEF PollEnter, PollPerform, MultiError, DrainEnd
<1>4. PollResult \in Int
  BY DEF PollResult
<1>5. mcurl_size \in Nat /\ (mcurl_size = 0 <=> Attached = {})
  BY AttachedFinite DEF CountInv
<1>6. PhaseInv' /\ pc' # "scan" /\ (pc' = "join" => Attached = {})
  <2>1. CASE pc' \in {"perform", "drain"}
    BY <1>1, <2>1 DEF PhaseInv
  <2>2. CASE PollReturns(-1)
    BY <1>1, <2>2, PollReturnsPhase
  <2>3. CASE PollReturns(0) /\ mcurl_size < XferHigh
    BY <1>1, <1>5, <2>3, PollReturnsPhase DEF XferHigh
  <2>4. CASE PollReturns(PollResult) /\ ~(mcurl_size > XferLow)
    BY <1>1, <1>4, <1>5, <2>4, PollReturnsPhase DEF XferLow
  <2>5. CASE PollReturns(PollResult) /\ Attached = {}
    BY <1>1, <1>4, <2>5, PollReturnsPhase
  <2> QED BY <1>3, <2>1, <2>2, <2>3, <2>4, <2>5
<1>7. CountInv'
  BY <1>2, <1>6 DEF CountInv
<1> QED BY <1>2, <1>6, <1>7

\* The worker takes a task, finishes one, or ends the process.
LEMMA WorkerInv ==
  ASSUME TypeOK, IInv, WorkerTakes \/ WorkerRuns \/ CallbackExits
  PROVE  IInv'
<1> USE DEF IInv
<1>1. /\ UNCHANGED <<call, left, hashmap, conn, failed, retries, status, mcurl_size>>
      /\ pc' \in {pc, "exited"}
  BY DEF WorkerTakes, WorkerRuns, CallbackExits, RunCallback, CallbackOk, CallbackFails
<1>2. /\ \A g \in Files : AwaitingCallback(g)' => AwaitingCallback(g)
      /\ worker' # None => \A i \in DOMAIN queue' : queue'[i] # worker'
      /\ \A i, j \in DOMAIN queue' : queue'[i] = queue'[j] => i = j
      /\ PoolIdle => PoolIdle'
  <2>1. CASE WorkerTakes
    <3>1. /\ worker = None /\ queue # <<>> /\ worker' = Head(queue) /\ queue' = Tail(queue)
          /\ Len(queue) \in Nat \ {0} /\ DOMAIN queue = 1 .. Len(queue)
          /\ DOMAIN queue' = 1 .. Len(queue) - 1
          /\ \A i \in 1 .. Len(queue) - 1 : queue'[i] = queue[i + 1]
          /\ worker' = queue[1]
      BY <2>1, EmptySeq, LenProperties, HeadTailProperties DEF WorkerTakes, TypeOK
    <3>2. \A i \in DOMAIN queue' : /\ i + 1 \in DOMAIN queue /\ i + 1 # 1
                                   /\ queue'[i] = queue[i + 1]
      BY <3>1
    <3>3. \A g \in Files : AwaitingCallback(g)' => AwaitingCallback(g)
      BY <3>1, <3>2 DEF AwaitingCallback
    <3>4. \A i \in DOMAIN queue' : queue'[i] # worker'
      BY <3>1, <3>2 DEF UseInv
    <3>5. \A i, j \in DOMAIN queue' : queue'[i] = queue'[j] => i = j
      <4> TAKE i, j \in DOMAIN queue'
      <4> HAVE queue'[i] = queue'[j]
      <4>1. i + 1 = j + 1
        BY <3>2 DEF UseInv
      <4> QED BY <3>1, <4>1
    <3> QED BY <3>1, <3>3, <3>4, <3>5 DEF PoolIdle
  <2>2. CASE WorkerRuns
    <3>1. worker' = None /\ queue' = queue
      BY <2>2 DEF WorkerRuns
    <3> QED BY <3>1, ConstantsAssumption DEF AwaitingCallback, UseInv, PoolIdle
  <2>3. CASE CallbackExits
    <3>1. worker' = None /\ queue' = <<>>
      BY <2>3 DEF CallbackExits
    <3>2. DOMAIN queue' = {}
      BY <3>1
    <3> QED BY <3>1, <3>2, ConstantsAssumption DEF AwaitingCallback, PoolIdle
  <2> QED BY <2>1, <2>2, <2>3
<1>3. Attached' = Attached /\ \A g \in Files : InUse(g)' => InUse(g)
  BY <1>1, <1>2 DEF Attached, InUse
<1>4. PhaseInv' /\ HashInv' /\ CountInv'
  BY <1>1, <1>2, <1>3 DEF PhaseInv, HashInv, CountInv
<1>5. UseInv'
  BY <1>1, <1>2, <1>3 DEF UseInv
<1>6. ListInv'
  <2>1. Cursor' = Cursor /\ \A g : Exhausted(g)' <=> Exhausted(g)
    BY <1>1 DEF Cursor, Exhausted
  <2>2. hashmap \subseteq Files
    BY DEF TypeOK
  <2>3. \A i \in Cursor .. Len(failed) :
          failed[i] \in hashmap /\ ~InUse(failed[i]) => ~InUse(failed[i])'
    BY <1>1, <1>3, <2>2 DEF InUse, AwaitingCallback
  <2> QED BY <1>1, <2>1, <2>3 DEF ListInv, Exhausted
<1> QED BY <1>4, <1>5, <1>6

\* A transfer ends: its handle stays in the multi stack.
LEMMA TransferInv ==
  ASSUME TypeOK, IInv, NEW f \in Files, TransferEnds(f)
  PROVE  IInv'
<1> USE DEF IInv
<1>1. PICK o \in Statuses \X Tars : conn' = [conn EXCEPT ![f] = o[1]]
  BY OutcomeTypes DEF TransferEnds
<1>2. \A g \in Files : conn'[g] = "off" <=> conn[g] = "off"
  BY <1>1, OffIsNoTransfer DEF TransferEnds, TypeOK
<1>3. UNCHANGED <<pc, call, left, hashmap, queue, worker, failed, retries, status, mcurl_size>>
  BY DEF TransferEnds
<1>4. UseInv' /\ HashInv' /\ ListInv' /\ Attached' = Attached /\ mcurl_size' = Cardinality(Attached')
  BY <1>2, <1>3, Frame
<1>5. PhaseInv' /\ CountInv'
  BY <1>3, <1>4 DEF PhaseInv, CountInv, PoolIdle
<1> QED BY <1>4, <1>5

\* The multi handle is destroyed with all its transfers.
LEMMA DestroyInv ==
  ASSUME TypeOK, IInv, Finish \/ Cancel
  PROVE  IInv'
<1> USE DEF IInv
<1>1. /\ conn' = [f \in Files |-> "off"] /\ mcurl_size' = 0 /\ pc' = "clear"
      /\ UNCHANGED <<call, left, hashmap, queue, worker, failed, retries, status>>
  BY DEF Finish, Cancel
<1>2. Attached' = {}
  BY <1>1 DEF Attached
<1>3. PhaseInv' /\ HashInv' /\ CountInv'
  BY <1>1, <1>2, FS_EmptySet DEF PhaseInv, HashInv, CountInv
<1>4. \A g \in Files : /\ conn'[g] = "off"
                       /\ AwaitingCallback(g)' <=> AwaitingCallback(g)
                       /\ InUse(g)' => InUse(g)
  BY <1>1 DEF InUse, AwaitingCallback
<1>5. UseInv'
  BY <1>1, <1>4 DEF UseInv
<1>6. ListInv'
  <2>1. Cursor' = Cursor /\ \A g : Exhausted(g)' <=> Exhausted(g)
    BY <1>1 DEF Cursor, Exhausted
  <2>2. hashmap \subseteq Files
    BY DEF TypeOK
  <2>3. \A i \in Cursor .. Len(failed) :
          failed[i] \in hashmap /\ ~InUse(failed[i]) => ~InUse(failed[i])'
    BY <1>1, <1>4, <2>2 DEF InUse, AwaitingCallback
  <2> QED BY <1>1, <2>1, <2>3 DEF ListInv, Exhausted
<1> QED BY <1>3, <1>5, <1>6

\* Every step, of whichever party, preserves the invariant.
LEMMA NextInv == TypeOK /\ IInv /\ [Next]_vars => IInv'
<1> SUFFICES ASSUME TypeOK, IInv, [Next]_vars PROVE IInv'
  OBVIOUS
<1> USE DEF IInv
<1>1. ASSUME UNCHANGED <<hashmap, conn, queue, worker, failed, left, retries, status, mcurl_size>>
      PROVE  UseInv' /\ HashInv' /\ ListInv' /\ Attached' = Attached /\ mcurl_size' = Cardinality(Attached')
  BY <1>1, Frame
<1>2. ASSUME NEW f \in Files, EnqueueDuplicate(f) PROVE IInv'
  BY <1>1, <1>2 DEF EnqueueDuplicate, PhaseInv, CountInv, PoolIdle
<1>3. CASE End
  BY <1>1, <1>3 DEF End, PhaseInv, CountInv
<1>4. CASE Join
  BY <1>1, <1>4 DEF Join, PhaseInv, CountInv, PoolIdle
<1>5. CASE RetryEnd
  BY <1>1, <1>5 DEF RetryEnd, PhaseInv, CountInv
<1>6. CASE Clear
  BY <1>1, <1>6 DEF Clear, PhaseInv, CountInv
<1>7. CASE UNCHANGED vars
  BY <1>1, <1>7 DEF PhaseInv, CountInv, PoolIdle
<1> QED
  BY <1>2, <1>3, <1>4, <1>5, <1>6, <1>7, EnqueueInv, RetryInv, ExhaustedInv, ScanInv,
     DrainInv, PollInv, WorkerInv, TransferInv, DestroyInv
     DEF Next, Main, Poll, EndLoop, Worker, Terminated

\* The invariant behind the theorems below: the retry list, the hash map, the
\* multi stack and the worker's queue never disagree about who uses a file.
THEOREM Invariance == Spec => []IInv
<1>1. Init => TypeOK /\ IInv
  BY InitType, InitInv
<1>2. TypeOK /\ IInv /\ [Next]_vars => (TypeOK /\ IInv)'
  BY NextType, NextInv
<1> QED BY <1>1, <1>2, PTL DEF Spec

\* <hash>.tar has one user at a time: no two transfers or extractions of one
\* hash, and none of a file whose callback is due.
THEOREM TarExclusion == Spec => []TarExclusive
<1>1. TypeOK /\ IInv => TarExclusive
  BY DEF IInv, UseInv, HashInv, TarExclusive, TypeOK
<1> QED BY <1>1, TypeCorrect, Invariance, PTL

\* parallel_download_end reads cb_retval when the worker is idle and the multi
\* stack empty, whatever failed before.
THEOREM ScanIsAlone == Spec => []StackEmptyAtScan
<1>1. IInv => StackEmptyAtScan
  BY FS_EmptySet DEF IInv, CountInv, StackEmptyAtScan
<1> QED BY <1>1, Invariance, PTL
=============================================================================

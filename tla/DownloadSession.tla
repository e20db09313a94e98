--------------------------- MODULE DownloadSession ---------------------------
(***************************************************************************)
(* What a parallel download session promises its client                    *)
(* (swupd_lib/swupd_curl.h, swupd_lib/fullfile.c): content is staged once  *)
(* per hash, and success is answered only when all of it was. A client may *)
(* call handled what it could not stage, as download_successful does of a  *)
(* tar it cannot extract: that content is lost, and success does not cover *)
(* it.                                                                     *)
(***************************************************************************)
CONSTANTS
  Wanted,             \* the content hashes asked for
  Lossy               \* may the client call handled what it did not stage

VARIABLES
  delivered,          \* the hashes whose content is staged
  lost,               \* the hashes called handled though nothing is staged
  verdict             \* "none" while the session runs, then its answer

vars == <<delivered, lost, verdict>>

Init == delivered = {} /\ lost = {} /\ verdict = "none"

Open(h) == verdict = "none" /\ h \notin delivered \union lost

\* The success callback has staged the content of one more hash.
Deliver(h) ==
  /\ Open(h)
  /\ delivered' = delivered \union {h}
  /\ UNCHANGED <<lost, verdict>>

\* The success callback has given one up, and answered that it was handled.
Lose(h) ==
  /\ Open(h) /\ Lossy
  /\ lost' = lost \union {h}
  /\ UNCHANGED <<delivered, verdict>>

\* parallel_download_end returned 0.
Succeed ==
  /\ verdict = "none" /\ delivered \union lost = Wanted
  /\ verdict' = "ok"
  /\ UNCHANGED <<delivered, lost>>

\* parallel_download_end returned an error, or the session was cancelled.
Fail ==
  /\ verdict = "none"
  /\ verdict' = "failed"
  /\ UNCHANGED <<delivered, lost>>

\* The callback found content that does not match its hash: the process ends.
Exit ==
  /\ verdict = "none"
  /\ verdict' = "exited"
  /\ UNCHANGED <<delivered, lost>>

Next == (\E h \in Wanted : Deliver(h) \/ Lose(h)) \/ Succeed \/ Fail \/ Exit

Spec == Init /\ [][Next]_vars
=============================================================================

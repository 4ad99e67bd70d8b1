------------------------------ MODULE Delivery ------------------------------
(***************************************************************************)
(* One final answer on its way to HEY: HeyAdapter._send_with_retry, the    *)
(* runner that starts a sidecar process for each attempt, the sidecar's    *)
(* reply and comment modes, and the one POST of each attempt.              *)
(*                                                                         *)
(* What must not happen is a second mail.  A request that left the sidecar *)
(* may be applied by HEY long after the sidecar was killed, so the model   *)
(* keeps such a request in flight (stray) when its process is gone.        *)
(*                                                                         *)
(* Abstractions: an exit status is what the runner makes of it - "ok" is   *)
(* status 0 with {"ok":true}, "silent" status 0 with no output (a sidecar  *)
(* told to terminate), "retry" status 75, "error" everything else.  The    *)
(* SDK sends at most one POST for each CreateReply or PostForm, and HEY    *)
(* does not apply what it answers with 404, 409, 422 or 429: the code      *)
(* relies on both.                                                         *)
(***************************************************************************)
EXTENDS Naturals

CONSTANT MaxRetries   \* attempts after the first (max_retries, 3)

ASSUME RetriesAssumption == MaxRetries \in Nat

VARIABLES
  kind,       \* "message" or "comment": the kind of the assignment answered
  answer,     \* the coroutine _send_with_retry
  cancels,    \* how often its task was cancelled while the call ran
  retries,    \* attempts made after the first
  side,       \* where the sidecar process of this attempt is
  exit,       \* how it ended
  post,       \* the POST of this attempt, as HEY has it
  stray,      \* POSTs still on their way although nobody waits for them
  applied     \* mails or comments that HEY has created for this answer

vars == <<kind, answer, cancels, retries, side, exit, post, stray, applied>>

Reads   == {"client", "entries", "recipients", "sender"}
Running == Reads \cup {"create", "posted"}
Final   == {"confirmed", "failed", "cancelled"}

\* A POST exists only from the last stage of a sidecar on.
TypeOK ==
  /\ kind \in {"message", "comment"}
  /\ answer \in {"sending", "pausing"} \cup Final
  /\ cancels \in 0..2
  /\ retries \in 0..MaxRetries
  /\ side \in Running \cup {"down", "gone"}
  /\ exit \in {"none", "ok", "silent", "retry", "error"}
  /\ (side = "gone") <=> (exit # "none")
  /\ post \in {"none", "flying", "applied", "refused", "broken"}
  /\ post = "flying" => side = "posted"
  /\ stray \in 0..(MaxRetries + 1) /\ applied \in 0..(MaxRetries + 1)

Init ==
  /\ kind \in {"message", "comment"}
  /\ answer = "sending" /\ cancels = 0 /\ retries = 0
  /\ side = "down" /\ exit = "none" /\ post = "none"
  /\ stray = 0 /\ applied = 0

-----------------------------------------------------------------------------
(* The sidecar process.                                                    *)

\* The process is gone; a POST it was waiting for goes on without it.
Gone(how) ==
  /\ side' = "gone"
  /\ exit' = how
  /\ IF post = "flying" THEN post' = "none" /\ stray' = stray + 1
                        ELSE UNCHANGED <<post, stray>>

\* The client is set up; a reply reads the thread, the recipients and the
\* sender before it posts, a comment posts at once.
AfterRead ==
  CASE side = "client"     -> IF kind = "message" THEN "entries" ELSE "create"
    [] side = "entries"    -> "recipients"
    [] side = "recipients" -> "sender"
    [] side = "sender"     -> "create"

Read ==
  /\ side \in Reads
  /\ side' = AfterRead
  /\ UNCHANGED <<kind, answer, cancels, retries, exit, post, stray, applied>>

\* A read fails: for a moment (isTransientReadError), or for good, as it does
\* when there is nothing to reply to or no recipient.
ReadFails ==
  /\ side \in Reads
  /\ \E how \in {"retry", "error"} : Gone(how)
  /\ UNCHANGED <<kind, answer, cancels, retries, applied>>

\* The POST leaves, or cannot be made (no token, no connection).
Post ==
  /\ side = "create"
  /\ side' = "posted" /\ post' = "flying"
  /\ UNCHANGED <<kind, answer, cancels, retries, exit, stray, applied>>

PostNotMade ==
  /\ side = "create"
  /\ Gone("error")
  /\ UNCHANGED <<kind, answer, cancels, retries, applied>>

\* 2xx, or for a comment the redirect to the thread.
SeesSuccess ==
  /\ side = "posted" /\ post = "applied"
  /\ Gone("ok")
  /\ UNCHANGED <<kind, answer, cancels, retries, applied>>

\* 404, 409, 422 or 429: isDefinitiveCreateRejection.
SeesRejection ==
  /\ side = "posted" /\ post = "refused"
  /\ Gone("retry")
  /\ UNCHANGED <<kind, answer, cancels, retries, applied>>

\* Fault variant: a server error is taken for a rejection.
SeesNothingClearAsRejection ==
  /\ side = "posted" /\ post \in {"flying", "applied", "broken"}
  /\ Gone("retry")
  /\ UNCHANGED <<kind, answer, cancels, retries, applied>>

\* A timeout, a lost connection, a 5xx, an unexpected redirect, or an answer
\* that cannot be written to stdout: whether HEY applied the POST is open.
SeesNothingClear ==
  /\ side = "posted" /\ post \in {"flying", "applied", "broken"}
  /\ Gone("error")
  /\ UNCHANGED <<kind, answer, cancels, retries, applied>>

\* Someone terminates the sidecar: its context is cancelled and main returns
\* with status 0 and no output; a harder kill gives a negative status.
Terminated ==
  /\ side \in Running
  /\ \E how \in {"silent", "error"} : Gone(how)
  /\ UNCHANGED <<kind, answer, cancels, retries, applied>>

-----------------------------------------------------------------------------
(* HEY.                                                                    *)

Handle ==
  /\ post = "flying"
  /\ \/ post' = "applied" /\ applied' = applied + 1
     \/ post' \in {"refused", "broken"} /\ UNCHANGED applied
  /\ UNCHANGED <<kind, answer, cancels, retries, side, exit, stray>>

HandleStray ==
  /\ stray > 0
  /\ stray' = stray - 1
  /\ applied' \in {applied, applied + 1}
  /\ UNCHANGED <<kind, answer, cancels, retries, side, exit, post>>

-----------------------------------------------------------------------------
(* The runner and _send_with_retry.                                        *)

\* A second cancellation took the coroutine away from a runner's thread that
\* still works.
Abandoned == answer = "cancelled" /\ cancels = 2

Start ==
  /\ answer = "sending" \/ Abandoned
  /\ side = "down"
  /\ side' = "client"
  /\ UNCHANGED <<kind, answer, cancels, retries, exit, post, stray, applied>>

\* What the coroutine makes of an exception of the runner without exit status.
Raised ==
  IF answer # "sending" THEN answer ELSE IF cancels > 0 THEN "cancelled" ELSE "failed"

\* The process or its input file cannot be created ("could not start").
StartFails ==
  /\ answer = "sending" /\ side = "down"
  /\ answer' = Raised
  /\ UNCHANGED <<kind, cancels, retries, side, exit, post, stray, applied>>

\* The runner's deadline: the process group is terminated and waited for, and
\* the error ("timed out") carries no exit status.
Deadline ==
  /\ side \in Running
  /\ Gone("error")
  /\ answer' = Raised
  /\ UNCHANGED <<kind, cancels, retries, applied>>

\* Fault variant: one attempt too many.
OutcomeOneTooMany ==
  CASE exit = "ok"                             -> "confirmed"
    [] exit = "retry" /\ retries <= MaxRetries -> "pausing"
    [] OTHER                                   -> "failed"

\* What an attempt's end makes of the answer, for a task not cancelled.
Outcome ==
  CASE exit = "ok"                            -> "confirmed"
    [] exit = "retry" /\ retries < MaxRetries -> "pausing"
    [] OTHER                                  -> "failed"

\* Fault variant: status 0 is success, whatever the sidecar wrote.
CollectByStatusAlone ==
  /\ answer = "sending" /\ side = "gone"
  /\ answer' = IF cancels > 0 THEN "cancelled"
               ELSE IF exit = "silent" THEN "confirmed" ELSE Outcome
  /\ UNCHANGED <<kind, cancels, retries, side, exit, post, stray, applied>>

\* The process has ended and its status is known.  run_blocking raises the
\* cancellation it held back only now.
Collect ==
  /\ answer = "sending" /\ side = "gone"
  /\ answer' = IF cancels > 0 THEN "cancelled" ELSE Outcome
  /\ UNCHANGED <<kind, cancels, retries, side, exit, post, stray, applied>>

\* Fault variant: the pause does not count the attempt.
TryAgainUncounted ==
  /\ answer = "pausing"
  /\ answer' = "sending"
  /\ side' = "down" /\ exit' = "none" /\ post' = "none"
  /\ UNCHANGED <<kind, cancels, retries, stray, applied>>

\* The pause between two attempts is over.
TryAgain ==
  /\ answer = "pausing"
  /\ answer' = "sending"
  /\ retries' = retries + 1
  /\ side' = "down" /\ exit' = "none" /\ post' = "none"
  /\ UNCHANGED <<kind, cancels, stray, applied>>

\* Fault variant: the cancellation does not wait for the worker thread.
CancelAtOnce ==
  /\ answer \in {"sending", "pausing"}
  /\ cancels' = cancels + 1
  /\ answer' = "cancelled"
  /\ UNCHANGED <<kind, retries, side, exit, post, stray, applied>>

\* The session's task is cancelled.  In a pause that ends the call; during an
\* attempt run_blocking shields the worker thread and waits for it.  That wait
\* is not shielded itself: a second cancellation ends the call at once.
Cancel ==
  /\ answer \in {"sending", "pausing"}
  /\ cancels' = cancels + 1
  /\ answer' = IF answer = "pausing" \/ cancels = 1 THEN "cancelled" ELSE answer
  /\ UNCHANGED <<kind, retries, side, exit, post, stray, applied>>

-----------------------------------------------------------------------------

Sidecar == \/ Read \/ ReadFails \/ Post \/ PostNotMade
           \/ SeesSuccess \/ SeesRejection \/ SeesNothingClear \/ Terminated
HEY     == Handle \/ HandleStray
Plugin  == Start \/ StartFails \/ Deadline \/ Collect \/ TryAgain

\* When the call is over and no request is left, nothing more happens.
Over == answer \in Final /\ side \notin Running /\ stray = 0 /\ UNCHANGED vars

Next == Sidecar \/ HEY \/ Plugin \/ Cancel \/ Over

\* Timers fire and the runner's thread goes on.  Nothing is assumed of the
\* sidecar or of HEY: both may hang for ever.
Fairness == WF_vars(Plugin)

Spec == Init /\ [][Next]_vars /\ Fairness

-----------------------------------------------------------------------------

\* However the attempts end, and however late HEY handles their requests, one
\* call of _send_with_retry creates at most one mail or comment.
AtMostOneMutation ==
  applied + stray + (IF post = "flying" THEN 1 ELSE 0) <= 1

\* A result reported as success, on which the assignment is completed, stands
\* for a mutation that HEY has applied.
ConfirmedMeansApplied == answer = "confirmed" => applied = 1

\* When the call is over no sidecar of it is still at work, for the claim that is
\* released next lets another session send.  One cancellation does not change
\* that; a second one, while the first still waits for the worker, does.
NoSidecarLeftBehind == answer \in Final /\ cancels < 2 => side \notin Running

\* The call always ends, whatever the sidecar and HEY do: the deadline and the
\* bounded number of attempts see to it.  (The thread's session, its claim and
\* all later assignments of the thread wait for it.)
CallEnds == <>(answer \in Final)
=============================================================================

--------------------------- MODULE DeliveryProofs ---------------------------
(***************************************************************************)
(* Proofs about Delivery, for every bound on the number of retries.        *)
(*                                                                         *)
(* AtMostOneMutation is not inductive: that a new attempt may start needs  *)
(* that no earlier attempt left a POST behind, that is, that status 75 is  *)
(* given only where nothing was applied and nothing is in flight.  The     *)
(* invariant below says, for each stage of an attempt, what HEY has done.  *)
(***************************************************************************)
EXTENDS Delivery, TLAPS

Early   == {"down", "create"} \cup Reads
Nothing == applied = 0 /\ stray = 0

\* An attempt that has not posted, or whose POST was not applied, follows only
\* attempts of the same sort.
PostLedger ==
  /\ side \in Early => post = "none" /\ Nothing
  /\ post \in {"flying", "refused", "broken"} => Nothing
  /\ post = "applied" => applied = 1 /\ stray = 0
  /\ side = "posted" => post # "none"
  /\ applied + stray <= 1

\* What the exit status tells of HEY.
ExitTellsTheTruth ==
  /\ exit = "retry" => Nothing
  /\ exit = "ok"    => applied = 1 /\ stray = 0

\* What the state of the call tells of the attempt.
AnswerMatchesAttempt ==
  /\ answer = "pausing"   => exit = "retry" /\ retries < MaxRetries
  /\ answer = "confirmed" => exit = "ok"
  /\ side \in Running     => answer = "sending" \/ Abandoned
  /\ cancels = 2          => answer = "cancelled"

IInv == TypeOK /\ PostLedger /\ ExitTellsTheTruth /\ AnswerMatchesAttempt

-----------------------------------------------------------------------------

\* The inductive invariant holds at the start of a call.
LEMMA InitEstablishesIInv == Init => IInv
<1> SUFFICES ASSUME Init PROVE IInv
  OBVIOUS
<1> USE RetriesAssumption DEF RetriesAssumption, Init
<1>1. TypeOK
  <2>1. retries \in 0..MaxRetries /\ stray \in 0..(MaxRetries + 1) /\ applied \in 0..(MaxRetries + 1)
    OBVIOUS
  <2>2. /\ kind \in {"message", "comment"} /\ cancels \in 0..2
        /\ answer \in {"sending", "pausing"} \cup Final
        /\ side \in Running \cup {"down", "gone"}
        /\ exit = "none" /\ side # "gone" /\ post = "none"
    BY DEF Running, Reads, Final
  <2> QED BY <2>1, <2>2 DEF TypeOK
<1>2. PostLedger
  BY DEF PostLedger, Early, Nothing, Reads
<1>3. ExitTellsTheTruth /\ AnswerMatchesAttempt
  BY DEF ExitTellsTheTruth, AnswerMatchesAttempt, Running, Reads, Final
<1> QED BY <1>1, <1>2, <1>3 DEF IInv

\* A sidecar that ends, in whatever stage, leaves at most one POST behind, and
\* none if it ends before it has posted.
LEMMA GoneKeepsLedger ==
  ASSUME IInv, side \in Running,
         NEW how \in {"ok", "silent", "retry", "error"}, Gone(how),
         UNCHANGED <<kind, cancels, retries, applied>>,
         how = "retry" => side \in Reads \/ post = "refused",
         how = "ok" => post = "applied",
         answer' = answer \/ (answer = "sending" /\ answer' \in {"failed", "cancelled"})
  PROVE  IInv'
<1> USE RetriesAssumption DEF RetriesAssumption, Reads, Running, Final, Early, Nothing
<1>1. answer \in {"sending", "cancelled"} /\ exit = "none" /\ side # "gone"
  BY DEF IInv, TypeOK, AnswerMatchesAttempt, Abandoned
<1>2. TypeOK' /\ PostLedger'
  <2>1. CASE post = "flying"
    BY <2>1, <1>1 DEF IInv, TypeOK, PostLedger, Gone
  <2>2. CASE post # "flying"
    BY <2>2, <1>1 DEF IInv, TypeOK, PostLedger, Gone
  <2> QED BY <2>1, <2>2
<1>3. ExitTellsTheTruth' /\ AnswerMatchesAttempt'
  <2>1. CASE post = "flying"
    BY <2>1, <1>1 DEF IInv, TypeOK, PostLedger, ExitTellsTheTruth, AnswerMatchesAttempt, Gone
  <2>2. CASE post # "flying"
    BY <2>2, <1>1 DEF IInv, TypeOK, PostLedger, ExitTellsTheTruth, AnswerMatchesAttempt, Gone
  <2> QED BY <2>1, <2>2
<1> QED BY <1>2, <1>3 DEF IInv

\* Every step of the sidecar, of HEY and of the plugin keeps the inductive
\* invariant.
LEMMA StepPreservesIInv == IInv /\ [Next]_vars => IInv'
<1> SUFFICES ASSUME IInv, [Next]_vars PROVE IInv'
  OBVIOUS
<1> USE RetriesAssumption DEF RetriesAssumption
<1>0. /\ side \in Running => answer = "sending" \/ Abandoned
      /\ answer \in {"sending", "pausing"} \cup Final /\ cancels \in 0..2
  BY DEF IInv, TypeOK, AnswerMatchesAttempt
<1>1. CASE Read
  BY <1>1, <1>0 DEF Read, AfterRead, IInv, TypeOK, PostLedger, ExitTellsTheTruth,
     AnswerMatchesAttempt, Abandoned, Early, Nothing, Reads, Running, Final
<1>2. CASE ReadFails
  BY <1>2, <1>0, GoneKeepsLedger DEF ReadFails, Running
<1>3. CASE Post
  BY <1>3, <1>0 DEF Post, IInv, TypeOK, PostLedger, ExitTellsTheTruth,
     AnswerMatchesAttempt, Abandoned, Early, Nothing, Reads, Running, Final
<1>4. CASE PostNotMade
  BY <1>4, <1>0, GoneKeepsLedger DEF PostNotMade, Running
<1>5. CASE SeesSuccess
  BY <1>5, <1>0, GoneKeepsLedger DEF SeesSuccess, Running
<1>6. CASE SeesRejection
  BY <1>6, <1>0, GoneKeepsLedger DEF SeesRejection, Running
<1>7. CASE SeesNothingClear
  BY <1>7, <1>0, GoneKeepsLedger DEF SeesNothingClear, Running
<1>8. CASE Terminated
  BY <1>8, <1>0, GoneKeepsLedger DEF Terminated
<1>9. CASE Handle
  BY <1>9, <1>0 DEF Handle, IInv, TypeOK, PostLedger, ExitTellsTheTruth,
     AnswerMatchesAttempt, Abandoned, Early, Nothing, Reads, Running, Final
<1>10. CASE HandleStray
  <2>1. stray = 1 /\ applied = 0 /\ stray' = 0 /\ applied' \in {0, 1}
    BY <1>10 DEF HandleStray, IInv, TypeOK, PostLedger
  <2>2. side \notin Early /\ post \in {"none"} /\ side # "posted" /\ exit \notin {"retry", "ok"}
    BY <2>1 DEF IInv, TypeOK, PostLedger, ExitTellsTheTruth, Nothing
  <2>3. UNCHANGED <<kind, answer, cancels, retries, side, exit, post>>
    BY <1>10 DEF HandleStray
  <2>4. TypeOK'
    <3>1. stray' \in 0..(MaxRetries + 1) /\ applied' \in 0..(MaxRetries + 1)
      BY <2>1
    <3> QED BY <2>3, <3>1 DEF IInv, TypeOK
  <2>5. PostLedger'
    <3>1. side' \notin Early /\ side' # "posted" /\ post' = "none"
      BY <2>2, <2>3 DEF Early
    <3>2. applied' + stray' <= 1
      <4>1. CASE applied' = 0
        BY <4>1, <2>1
      <4>2. CASE applied' = 1
        BY <4>2, <2>1
      <4> QED BY <4>1, <4>2, <2>1
    <3> QED BY <3>1, <3>2 DEF PostLedger, Early
  <2>6. ExitTellsTheTruth'
    BY <2>2, <2>3 DEF ExitTellsTheTruth
  <2>7. AnswerMatchesAttempt'
    BY <2>3 DEF IInv, AnswerMatchesAttempt, Abandoned
  <2> QED BY <2>4, <2>5, <2>6, <2>7 DEF IInv
<1>11. CASE Start
  BY <1>11, <1>0 DEF Start, IInv, TypeOK, PostLedger, ExitTellsTheTruth,
     AnswerMatchesAttempt, Abandoned, Early, Nothing, Reads, Running, Final
<1>12. CASE StartFails
  <2>1. answer' \in {"failed", "cancelled"} /\ (cancels = 2 => answer' = "cancelled")
    BY <1>12 DEF StartFails, Raised
  <2>2. UNCHANGED <<kind, cancels, retries, side, exit, post, stray, applied>> /\ side = "down"
    BY <1>12 DEF StartFails
  <2>3. TypeOK'
    BY <2>1, <2>2 DEF IInv, TypeOK, Final
  <2>4. PostLedger' /\ ExitTellsTheTruth'
    BY <2>2 DEF IInv, PostLedger, ExitTellsTheTruth, Nothing
  <2>5. AnswerMatchesAttempt'
    BY <2>1, <2>2 DEF AnswerMatchesAttempt, Running, Reads
  <2> QED BY <2>3, <2>4, <2>5 DEF IInv
<1>13. CASE Deadline
  BY <1>13, GoneKeepsLedger DEF Deadline, Raised
<1>14. CASE Collect
  <2>1. answer' \in {"confirmed", "pausing", "failed", "cancelled"}
    BY <1>14 DEF Collect, Outcome
  <2>2. /\ answer' = "confirmed" => exit = "ok"
        /\ answer' = "pausing" => exit = "retry" /\ retries < MaxRetries
    BY <1>14 DEF Collect, Outcome
  <2> QED
    BY <2>1, <2>2, <1>14, <1>0 DEF Collect, IInv, TypeOK, PostLedger, ExitTellsTheTruth,
       AnswerMatchesAttempt, Abandoned, Early, Nothing, Reads, Running, Final
<1>15. CASE TryAgain
  BY <1>15, <1>0 DEF TryAgain, IInv, TypeOK, PostLedger, ExitTellsTheTruth,
     AnswerMatchesAttempt, Abandoned, Early, Nothing, Reads, Running, Final
<1>16. CASE Cancel
  <2>1. cancels' \in {1, 2} /\ answer' \in {answer, "cancelled"} /\ (cancels' = 2 => answer' = "cancelled")
    BY <1>16, <1>0 DEF Cancel, IInv, AnswerMatchesAttempt
  <2>2. answer \in {"sending", "pausing"} /\ (answer = "pausing" => answer' = "cancelled" /\ side \notin Running)
    BY <1>16, <1>0 DEF Cancel, Abandoned
  <2>3. side \in Running => answer' = "sending" \/ Abandoned'
    BY <1>16, <1>0, <2>1, <2>2 DEF Cancel, Abandoned
  <2>4. UNCHANGED <<kind, retries, side, exit, post, stray, applied>>
    BY <1>16 DEF Cancel
  <2>5. TypeOK'
    BY <2>1, <2>2, <2>4 DEF IInv, TypeOK, Final
  <2>6. PostLedger' /\ ExitTellsTheTruth'
    BY <2>4 DEF IInv, PostLedger, ExitTellsTheTruth, Nothing
  <2>7. AnswerMatchesAttempt'
    BY <2>1, <2>2, <2>3, <2>4 DEF IInv, AnswerMatchesAttempt
  <2> QED BY <2>5, <2>6, <2>7 DEF IInv
<1>17. CASE Over \/ UNCHANGED vars
  BY <1>17 DEF Over, vars, IInv, TypeOK, PostLedger, ExitTellsTheTruth,
     AnswerMatchesAttempt, Abandoned, Early, Nothing, Reads, Running, Final
<1> QED
  BY <1>1, <1>2, <1>3, <1>4, <1>5, <1>6, <1>7, <1>8, <1>9, <1>10, <1>11, <1>12, <1>13,
     <1>14, <1>15, <1>16, <1>17
     DEF Next, Sidecar, HEY, Plugin

\* The inductive invariant holds throughout every call of _send_with_retry.
THEOREM DeliveryInvariant == Spec => []IInv
<1>1. Init => IInv
  BY InitEstablishesIInv
<1>2. IInv /\ [Next]_vars => IInv'
  BY StepPreservesIInv
<1> QED BY <1>1, <1>2, PTL DEF Spec

\* The types of the model hold, whatever the number of retries.
THEOREM TypeCorrect == Spec => []TypeOK
<1>1. IInv => TypeOK
  BY DEF IInv
<1> QED BY <1>1, DeliveryInvariant, PTL

\* One call of _send_with_retry creates at most one mail or comment, however many
\* attempts it makes and however they end.
THEOREM NoSecondMail == Spec => []AtMostOneMutation
<1>1. IInv => AtMostOneMutation
  BY DEF IInv, TypeOK, PostLedger, Nothing, AtMostOneMutation
<1> QED BY <1>1, DeliveryInvariant, PTL

\* The assignment is completed only on a success that HEY has applied.
THEOREM SuccessIsReal == Spec => []ConfirmedMeansApplied
<1>1. IInv => ConfirmedMeansApplied
  BY DEF IInv, ExitTellsTheTruth, AnswerMatchesAttempt, ConfirmedMeansApplied
<1> QED BY <1>1, DeliveryInvariant, PTL

\* When a call ends, also by cancellation, its sidecar has ended before.
THEOREM SidecarEndsFirst == Spec => []NoSidecarLeftBehind
<1>1. IInv => NoSidecarLeftBehind
  BY DEF IInv, TypeOK, AnswerMatchesAttempt, NoSidecarLeftBehind, Abandoned, Final
<1> QED BY <1>1, DeliveryInvariant, PTL
=============================================================================

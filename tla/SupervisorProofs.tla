-------------------------- MODULE SupervisorProofs --------------------------
(***************************************************************************)
(* Proofs about Supervisor, for every failure threshold: no process of the *)
(* watch is left to run on unhindered, the supervision does not end        *)
(* silently, and its verdict fits the history of the watches.              *)
(*                                                                         *)
(* A stop leaves a stage only when the sidecar has ended or has been sent  *)
(* SIGKILL, and a disconnect that finds the task in a stop of its own      *)
(* waits for a second one; so whoever gets past a stop finds things        *)
(* settled, and they stay so until the next sidecar is started, which a    *)
(* cancelled task does not do.                                             *)
(***************************************************************************)
EXTENDS Supervisor, SequenceTheorems, FiniteSetTheorems, TLAPS

\* Nothing is left to do about the sidecar.
Settled == PipesClosed \/ killed

Types ==
  /\ stage \in [Wait -> Stage]
  /\ disc \in {"no", "stopping", "joining", "done", "aborted"}
  /\ cancel \in {"none", "due", "hit"}

\* What the ends of the three waits say about the sidecar.
StopsSettle ==
  /\ gaveUp => killed
  /\ \A w \in Wait : stage[w] \in {"exitKill", "outKill", "errKill"} => killed
  /\ task = "cleaning" /\ stage["cleanup"] = "off" => Settled
  /\ task \in {"sleeping", "abandoning"} => Settled
  /\ task = "over" => Settled \/ disc \in {"stopping", "aborted"}
  /\ disc = "stopping" /\ stage["disconnect"] = "off" => Settled
  /\ disc = "joining" => Settled \/ task = "starting"
  /\ disc = "done" => Settled /\ task = "over"
  /\ disc = "aborted" => gaveUp

\* What a cancelled task does not do any more, and why a task ends.
CancelIsFinal ==
  /\ disc \in {"stopping", "joining", "aborted"} => cancel # "none"
  /\ cancel = "due" => disc \in {"stopping", "joining", "aborted"} /\ task # "over"
  /\ disc = "no" => cancel = "none"
  /\ cancel = "hit" => task \in {"cleaning", "abandoning", "over"}
  /\ cancel = "hit" /\ task = "cleaning" => pause = {}
  /\ task = "abandoning" => cancel = "hit"
  /\ disc = "stopping" => task # "starting"
  /\ ~watch => task \in {"sleeping", "over"}
  /\ task = "notifying" => fatal
  /\ task = "cleaning" /\ pause = {} => fatal \/ cancel = "hit"
  /\ task = "over" => fatal \/ cancel = "hit"

\* Who waits, and that a stop is cut off only by the other one.
WaitsHaveOwners ==
  /\ stage["lines"] # "off" => task = "ending"
  /\ stage["cleanup"] # "off" => task = "cleaning" \/ cancel = "hit"
  /\ stage["disconnect"] # "off" => disc = "stopping"
  /\ CutOff("cleanup") => cancel # "none"

IInv == Types /\ StopsSettle /\ CancelIsFinal /\ WaitsHaveOwners

-----------------------------------------------------------------------------

\* A stop that has nothing to wait for finds things settled.
LEMMA NothingToWaitFor ==
  ASSUME gaveUp => killed
  PROVE  /\ FirstStage \in {"off", "exitTerm", "errTerm"}
         /\ FirstStage = "off" => Settled
         /\ WaitForPipes \in {"off", "errTerm"}
         /\ WaitForPipes = "off" => Settled
         /\ WaitForPipes = "errTerm" \/ FirstStage = "errTerm" => ~gaveUp
  BY DEF FirstStage, WaitForPipes, Settled, PipesClosed

\* One step of a wait: it stays within the stages, sends no process a signal
\* back, and ends only when things are settled.
LEMMA WaitEndsSettled ==
  ASSUME IInv, NEW w \in Wait, EndsInTime(w) \/ Kill(w) \/ GiveUp(w), UNCHANGED process
  PROVE  /\ stage' \in [Wait -> Stage]
         /\ \A v \in Wait \ {w} : stage'[v] = stage[v]
         /\ killed => killed'
         /\ gaveUp' => killed'
         /\ gaveUp => gaveUp'
         /\ stage'[w] \in {"exitKill", "outKill", "errKill"} => killed'
         /\ stage'[w] = "off" => Settled'
         /\ Settled => Settled'
         /\ stage'[w] \in {"errTerm", "errKill"} /\ gaveUp' => stage[w] \in {"errTerm", "errKill"} /\ gaveUp
         /\ stage[w] # "off"
         /\ gaveUp' /\ ~gaveUp => stage'[w] = "off"
  <1> USE DEF IInv, Types, StopsSettle, Stage, process, signals, Settled, PipesClosed
  <1>1. CASE EndsInTime(w)
    BY <1>1 DEF EndsInTime, Ended, After, WaitForPipes
  <1>2. CASE Kill(w)
    BY <1>2 DEF Kill
  <1>3. CASE GiveUp(w)
    BY <1>3 DEF GiveUp, WaitForPipes
  <1>4. QED
    BY <1>1, <1>2, <1>3

\* A counted failure leads to the notification or to the stop.
LEMMA FailureIsFollowed ==
  ASSUME IInv, Fail
  PROVE  \/ task' = "notifying" /\ fatal' /\ UNCHANGED stage
         \/ /\ task' = "cleaning" /\ pause' # {} /\ fatal' = fatal
            /\ stage' = [stage EXCEPT !["cleanup"] = FirstStage]
  BY DEF Fail, CountFailure

\* The initial states satisfy the invariant.
LEMMA InitEstablishesIInv == Init => IInv
  BY DEF Init, IInv, Types, StopsSettle, CancelIsFinal, WaitsHaveOwners, CutOff, Wait, Stage

\* A failure of the watch, wherever the task is at work, preserves it.
LEMMA FailurePreservesIInv ==
  ASSUME IInv, Fail, MayRun, task \in {"starting", "reading", "handling", "ending"},
         stage["lines"] = "off",
         UNCHANGED <<cancel, ready, stable, watch, process, signals, disc>>
  PROVE  IInv'
  <1> USE DEF IInv, Types, StopsSettle, CancelIsFinal, WaitsHaveOwners, CutOff, MayRun,
              process, signals
  <1>1. CASE task' = "notifying" /\ fatal' /\ UNCHANGED stage
    BY <1>1 DEF Settled, PipesClosed
  <1>2. CASE /\ task' = "cleaning" /\ pause' # {} /\ fatal' = fatal
             /\ stage' = [stage EXCEPT !["cleanup"] = FirstStage]
    BY <1>2, NothingToWaitFor DEF Settled, PipesClosed, Wait, Stage
  <1>3. QED
    BY <1>1, <1>2, FailureIsFollowed

\* Each step of the task preserves the invariant.
LEMMA TaskPreservesIInv == ASSUME IInv, Task PROVE IInv'
  <1> USE DEF IInv, Types, StopsSettle, CancelIsFinal, WaitsHaveOwners, CutOff, MayRun, Wait, Stage,
              Settled, PipesClosed,
              process, signals, count, task_vars
  <1>1. CASE Started
    BY <1>1 DEF Started
  <1>2. CASE StartFails \/ BadFrame \/ OutputEnds \/ EndingIsOver
    BY <1>2, FailurePreservesIInv DEF StartFails, BadFrame, OutputEnds, EndingIsOver
  <1>3. CASE GoodFrame
    BY <1>3 DEF GoodFrame
  <1>4. CASE Handled
    BY <1>4 DEF Handled
  <1>5. CASE LeaderEnds
    BY <1>5 DEF LeaderEnds
  <1>6. CASE EndingGoesOn
    BY <1>6, WaitEndsSettled DEF EndingGoesOn
  <1>7. CASE Notified
    BY <1>7, NothingToWaitFor DEF Notified
  <1>8. CASE Cleaned
    BY <1>8 DEF Cleaned
  <1>9. CASE StartAgain
    BY <1>9 DEF StartAgain
  <1>10. CASE CancelledAtWork
    BY <1>10, NothingToWaitFor DEF CancelledAtWork, CancelledWhile
  <1>11. CASE CancelledAtRest
    BY <1>11 DEF CancelledAtRest, CancelledWhile
  <1>12. CASE CancelledAtStart
    BY <1>12 DEF CancelledAtStart, CancelledWhile
  <1>13. CASE CleanupAborted
    BY <1>13 DEF CleanupAborted, CutOff
  <1>14. CASE Abandoned
    BY <1>14 DEF Abandoned
  <1>15. QED
    BY <1>1, <1>2, <1>3, <1>4, <1>5, <1>6, <1>7, <1>8, <1>9, <1>10, <1>11, <1>12, <1>13, <1>14
    DEF Task

\* Each step of anybody preserves the invariant.
LEMMA StepPreservesIInv == IInv /\ [Next]_vars => IInv'
  <1> SUFFICES ASSUME IInv, [Next]_vars PROVE IInv'
    OBVIOUS
  <1> USE DEF IInv, Types, StopsSettle, CancelIsFinal, WaitsHaveOwners, CutOff, Wait, Stage, Settled, PipesClosed,
              process, signals, count, task_vars
  <1>1. CASE Task
    BY <1>1, TaskPreservesIInv
  <1>2. ASSUME NEW w \in Wait, StopStep(w) PROVE IInv'
    BY <1>2, WaitEndsSettled DEF StopStep
  <1>3. CASE Disconnect
    BY <1>3, NothingToWaitFor DEF Disconnect
  <1>4. CASE DisconnectStopped
    BY <1>4 DEF DisconnectStopped
  <1>5. CASE DisconnectAborted
    BY <1>5 DEF DisconnectAborted, CutOff
  <1>6. CASE Joined
    BY <1>6 DEF Joined
  <1>7. CASE Lasts
    BY <1>7 DEF Lasts
  <1>8. CASE LeaderDies
    BY <1>8 DEF LeaderDies
  <1>9. CASE OthersDie
    BY <1>9 DEF OthersDie
  <1>10. CASE UNCHANGED vars
    BY <1>10 DEF vars
  <1>11. QED
    BY <1>1, <1>2, <1>3, <1>4, <1>5, <1>6, <1>7, <1>8, <1>9, <1>10 DEF Next, Over

\* The inductive invariant of the waits and of the cancellation.
THEOREM SupervisionInvariant == Spec => []IInv
  <1>1. QED
    BY InitEstablishesIInv, StepPreservesIInv, PTL DEF Spec

\* Whoever gets past a stop leaves no process behind that was not killed, however
\* disconnect and the task's own cleanup meet.
THEOREM NobodyLeftUnkilled == Spec => []NoneLeftUnkilled
  <1>1. IInv => NoneLeftUnkilled
    BY DEF IInv, StopsSettle, Settled, NoneLeftUnkilled
  <1>2. QED
    BY <1>1, SupervisionInvariant, PTL

\* The supervision ends by a report or by a disconnect only, and a disconnect
\* returns after it.
THEOREM NoSilentEnd == Spec => []EndIsReported
  <1>1. IInv => EndIsReported
    BY DEF IInv, StopsSettle, CancelIsFinal, EndIsReported
  <1>2. QED
    BY <1>1, SupervisionInvariant, PTL

-----------------------------------------------------------------------------

Length == {"short", "stable"}

\* The counter is the length of the streak, and the verdict follows from it.
HistoryInv ==
  /\ log \in Seq(Length) /\ Len(log) <= Threshold
  /\ failures \in 0..Threshold /\ StreakIs(failures)
  /\ fatal <=> failures = Threshold
  /\ fatal => task \in {"notifying", "cleaning", "over"} /\ pause = {}
  /\ task = "notifying" => fatal
  /\ task = "sleeping" \/ (task = "cleaning" /\ pause # {}) =>
       failures \in 1..(Threshold - 1) /\ pause = {RetryDelay(failures)}

\* What the history looks like after one more watch of the length l: the new one
\* is the last, and those before it have moved by d places.
LEMMA OneMoreWatch ==
  ASSUME log \in Seq(Length), Len(log) <= Threshold, NEW l \in Length,
         log' = LET all == Append(log, l) IN IF Len(all) > Threshold THEN Tail(all) ELSE all
  PROVE  \E d \in {0, 1} :
           /\ log' \in Seq(Length)
           /\ Len(log') = Len(log) + 1 - d /\ Len(log') <= Threshold
           /\ d = 1 => Len(log) = Threshold
           /\ log'[Len(log')] = l
           /\ \A i \in 1..(Len(log') - 1) : log'[i] = log[i + d]
  <1> DEFINE all == Append(log, l)
  <1>1. /\ all \in Seq(Length) /\ Len(all) = Len(log) + 1 /\ all # <<>>
        /\ \A i \in 1..Len(log) : all[i] = log[i]
        /\ all[Len(log) + 1] = l
    BY AppendProperties
  <1>2. Len(log) \in Nat /\ Threshold \in Nat \ {0}
    BY LenProperties, ThresholdAssumption
  <1>3. CASE Len(all) > Threshold
    <2>1. /\ Tail(all) \in Seq(Length) /\ Len(Tail(all)) = Len(all) - 1
          /\ \A i \in 1..Len(Tail(all)) : Tail(all)[i] = all[i + 1]
      BY <1>1, HeadTailProperties
    <2>2. log' = Tail(all) /\ Len(log) = Threshold
      BY <1>1, <1>2, <1>3
    <2>3. QED
      BY <1>1, <1>2, <2>1, <2>2
  <1>4. CASE ~(Len(all) > Threshold)
    <2>1. log' = all
      BY <1>4
    <2>2. QED
      BY <1>1, <1>2, <1>4, <2>1
  <1>5. QED
    BY <1>3, <1>4

\* A counted failure continues the streak, or starts one with a watch that had
\* lasted.
LEMMA StreakGoesOn ==
  ASSUME HistoryInv, ~fatal, Fail
  PROVE  /\ log' \in Seq(Length) /\ Len(log') <= Threshold
         /\ failures' \in 1..Threshold /\ StreakIs(failures)'
  <1> DEFINE l == IF stable THEN "stable" ELSE "short"
             n == (IF stable THEN 0 ELSE failures) + 1
  <1>1. /\ Threshold \in Nat \ {0}
        /\ failures \in 0..(Threshold - 1)
        /\ failures' = n /\ n \in 1..Threshold
    BY ThresholdAssumption DEF HistoryInv, Fail, CountFailure
  <1>2. log \in Seq(Length) /\ Len(log) <= Threshold /\ l \in Length /\ Len(log) \in Nat
    BY LenProperties DEF HistoryInv, Length
  <1>3. PICK d \in {0, 1} :
          /\ log' \in Seq(Length)
          /\ Len(log') = Len(log) + 1 - d /\ Len(log') <= Threshold
          /\ d = 1 => Len(log) = Threshold
          /\ log'[Len(log')] = l
          /\ \A i \in 1..(Len(log') - 1) : log'[i] = log[i + d]
    <2>1. log' = LET all == Append(log, l) IN IF Len(all) > Threshold THEN Tail(all) ELSE all
      BY DEF Fail, CountFailure
    <2>2. QED
      BY <1>2, <2>1, OneMoreWatch
  <1>4. StreakIs(failures)
    BY DEF HistoryInv
  <1>5. CASE stable
    BY <1>1, <1>2, <1>3, <1>5 DEF StreakIs
  <1>6. CASE ~stable
    <2>1. n = failures + 1 /\ l = "short"
      BY <1>6
    <2>2. n <= Len(log')
      BY <1>1, <1>2, <1>3, <1>4, <2>1 DEF StreakIs
    <2>3. \A i \in (Len(log') - n + 2)..Len(log') : log'[i] = "short"
      <3>1. SUFFICES ASSUME NEW i \in (Len(log') - n + 2)..Len(log') PROVE log'[i] = "short"
        OBVIOUS
      <3>2. CASE i = Len(log')
        BY <1>3, <2>1, <3>2
      <3>3. CASE i # Len(log')
        <4>1. i \in Nat /\ i >= Len(log') - n + 2 /\ i < Len(log') /\ n <= Len(log')
          BY <1>1, <1>2, <1>3, <2>1, <2>2, <3>3
        <4>2. i \in 1..(Len(log') - 1) /\ i + d \in (Len(log) - failures + 2)..Len(log)
          BY <1>1, <1>2, <1>3, <2>1, <4>1
        <4>3. QED
          BY <1>3, <1>4, <4>2 DEF StreakIs
      <3>4. QED
        BY <3>2, <3>3
    <2>4. n = Len(log') \/ log'[Len(log') - n + 1] = "stable"
      <3>1. CASE failures = Len(log)
        <4>1. d # 1
          BY <1>1, <1>2, <1>3, <3>1
        <4>2. d = 0
          BY <4>1
        <4>3. Len(log') = Len(log) + 1
          BY <1>2, <1>3, <4>2
        <4>4. n = Len(log')
          BY <2>1, <3>1, <4>3
        <4>5. QED
          BY <4>4
      <3>2. CASE failures # Len(log)
        <4>1. failures >= 1 /\ log[Len(log) - failures + 1] = "stable" /\ failures < Len(log)
          BY <1>1, <1>2, <1>4, <3>2 DEF StreakIs
        <4>2. CASE n = Len(log')
          BY <4>2
        <4>3. CASE n # Len(log')
          <5>1. /\ Len(log') - n + 1 \in 1..(Len(log') - 1)
                /\ Len(log') - n + 1 + d = Len(log) - failures + 1
            BY <1>1, <1>2, <1>3, <2>1, <2>2, <4>1, <4>3
          <5>2. QED
            BY <1>3, <4>1, <5>1
        <4>4. QED
          BY <4>2, <4>3
      <3>3. QED
        BY <3>1, <3>2
    <2>5. QED
      BY <1>1, <1>3, <2>1, <2>2, <2>3, <2>4 DEF StreakIs
  <1>7. QED
    BY <1>5, <1>6

\* There is one streak at a time.
LEMMA StreakIsUnique ==
  ASSUME log \in Seq(Length), NEW k \in Nat, NEW m \in Nat, StreakIs(k), StreakIs(m)
  PROVE  k = m
  <1>1. Len(log) \in Nat
    BY LenProperties
  <1>2. ASSUME NEW a \in Nat, NEW b \in Nat, StreakIs(a), StreakIs(b), a < b PROVE FALSE
    <2>1. a # Len(log) /\ a >= 1 /\ log[Len(log) - a + 1] = "stable"
      BY <1>1, <1>2 DEF StreakIs
    <2>2. Len(log) - a + 1 \in (Len(log) - b + 2)..Len(log)
      BY <1>1, <1>2, <2>1
    <2>3. QED
      BY <1>2, <2>1, <2>2 DEF StreakIs
  <1>3. QED
    BY <1>2

\* Each step preserves the agreement of counter and history.
LEMMA StepPreservesHistory == HistoryInv /\ [Next]_vars => HistoryInv'
  <1> SUFFICES ASSUME HistoryInv, [Next]_vars PROVE HistoryInv'
    OBVIOUS
  <1>1. CASE StartFails \/ BadFrame \/ OutputEnds \/ EndingIsOver
    <2>1. ~fatal /\ Fail
      BY <1>1 DEF HistoryInv, StartFails, BadFrame, OutputEnds, EndingIsOver
    <2>2. /\ log' \in Seq(Length) /\ Len(log') <= Threshold
          /\ failures' \in 1..Threshold /\ StreakIs(failures)'
      BY <2>1, StreakGoesOn
    <2>3. Threshold \in Nat \ {0} /\ failures' = (IF stable THEN 0 ELSE failures) + 1
      BY <2>1, ThresholdAssumption DEF Fail, CountFailure
    <2>4. CASE failures' >= Threshold
      BY <2>1, <2>2, <2>3, <2>4 DEF HistoryInv, Fail, CountFailure, GivesUp
    <2>5. CASE ~(failures' >= Threshold)
      BY <2>1, <2>2, <2>3, <2>5 DEF HistoryInv, Fail, CountFailure, GivesUp
    <2>6. QED
      BY <2>4, <2>5
  <1>2. CASE Lasts \/ Started \/ GoodFrame \/ Handled \/ LeaderEnds
    BY <1>2 DEF HistoryInv, StreakIs, count, Lasts, Started, GoodFrame, Handled, LeaderEnds
  <1>3. CASE EndingGoesOn \/ \E w \in Wait : StopStep(w)
    BY <1>3 DEF HistoryInv, StreakIs, count, task_vars, EndingGoesOn, StopStep
  <1>4. CASE Notified \/ Cleaned \/ StartAgain
    BY <1>4 DEF HistoryInv, StreakIs, count, Notified, Cleaned, StartAgain
  <1>5. CASE CancelledAtWork \/ CancelledAtRest \/ CancelledAtStart
    <2>1. UNCHANGED <<failures, fatal, log>>
      BY <1>5 DEF CancelledAtWork, CancelledAtRest, CancelledAtStart, CancelledWhile
    <2>2. \/ task' = "cleaning" /\ pause' = {}
          \/ task' = "over" /\ pause' = pause
          \/ task = "starting" /\ task' = "abandoning"
      BY <1>5 DEF CancelledAtWork, CancelledAtRest, CancelledAtStart, CancelledWhile
    <2>3. QED
      BY <2>1, <2>2 DEF HistoryInv, StreakIs
  <1>6. CASE CleanupAborted \/ Abandoned
    BY <1>6 DEF HistoryInv, StreakIs, count, CleanupAborted, Abandoned
  <1>7. CASE Disconnect \/ DisconnectStopped \/ DisconnectAborted \/ Joined
    BY <1>7 DEF HistoryInv, StreakIs, count, task_vars, Disconnect, DisconnectStopped,
                DisconnectAborted, Joined
  <1>8. CASE LeaderDies \/ OthersDie
    <2>1. UNCHANGED <<task_vars, count>>
      BY <1>8 DEF LeaderDies, OthersDie
    <2>2. QED
      BY <2>1 DEF HistoryInv, StreakIs, count, task_vars
  <1>9. CASE Over \/ UNCHANGED vars
    BY <1>9 DEF HistoryInv, StreakIs, count, task_vars, Over, vars
  <1>10. QED
    BY <1>1, <1>2, <1>3, <1>4, <1>5, <1>6, <1>7, <1>8, <1>9 DEF Next, Task

\* The counter and the history agree.
THEOREM HistoryInvariant == Spec => []HistoryInv
  <1>1. Init => HistoryInv
    <2>1. SUFFICES ASSUME Init PROVE HistoryInv
      OBVIOUS
    <2>2. <<>> \in Seq(Length) /\ Len(<<>>) = 0
      BY EmptySeq
    <2>3. QED
      BY <2>1, <2>2, ThresholdAssumption DEF Init, HistoryInv, StreakIs
  <1>2. QED
    BY <1>1, StepPreservesHistory, PTL DEF Spec

\* In the agreement the verdict is the one that the history calls for.
THEOREM VerdictFitsHistory == Spec => []SupervisionFitsHistory
  <1>1. HistoryInv => SupervisionFitsHistory
    <2>1. SUFFICES ASSUME HistoryInv PROVE SupervisionFitsHistory
      OBVIOUS
    <2>2. /\ log \in Seq(Length) /\ Threshold \in Nat /\ failures \in Nat /\ StreakIs(failures)
          /\ fatal <=> failures = Threshold
          /\ task = "sleeping" => failures \in 1..(Threshold - 1) /\ pause = {RetryDelay(failures)}
      BY <2>1, ThresholdAssumption DEF HistoryInv
    <2>3. StreakIs(Threshold) => failures = Threshold
      BY <2>2, StreakIsUnique
    <2>4. QED
      BY <2>2, <2>3 DEF SupervisionFitsHistory
  <1>2. QED
    BY <1>1, HistoryInvariant, PTL

-----------------------------------------------------------------------------

\* The rest of the types: what is true or false, ...
Flags ==
  /\ ready \in BOOLEAN /\ stable \in BOOLEAN /\ fatal \in BOOLEAN /\ watch \in BOOLEAN
  /\ others \in BOOLEAN /\ killed \in BOOLEAN /\ gaveUp \in BOOLEAN

\* ... and where the task and the sidecar are.
Rest ==
  /\ task \in {"starting", "abandoning", "reading", "handling", "ending", "notifying",
               "cleaning", "sleeping", "over"}
  /\ leader \in {"none", "alive", "dead"}
  /\ pause = {} \/ \E n \in 1..Threshold : pause = {RetryDelay(n)}

\* Each step keeps the flags.
LEMMA StepKeepsFlags == Flags /\ [Next]_vars => Flags'
  <1> SUFFICES ASSUME Flags, [Next]_vars PROVE Flags'
    OBVIOUS
  <1> USE DEF Flags, process, signals, count, task_vars
  <1>1. CASE StartFails \/ BadFrame \/ OutputEnds \/ EndingIsOver
    <2>1. Fail /\ UNCHANGED <<ready, stable, watch, process, signals>>
      BY <1>1 DEF StartFails, BadFrame, OutputEnds, EndingIsOver
    <2>2. fatal' \in BOOLEAN
      BY <2>1 DEF Fail, CountFailure
    <2>3. QED
      BY <2>1, <2>2
  <1>2. CASE Lasts \/ Started \/ GoodFrame \/ Handled \/ LeaderEnds \/ Notified \/ Cleaned
    BY <1>2 DEF Lasts, Started, GoodFrame, Handled, LeaderEnds, Notified, Cleaned
  <1>3. CASE EndingGoesOn \/ \E w \in Wait : StopStep(w)
    <2>1. PICK w \in Wait : EndsInTime(w) \/ Kill(w) \/ GiveUp(w)
      BY <1>3 DEF EndingGoesOn, StopStep, Wait
    <2>2. killed' \in BOOLEAN /\ gaveUp' \in BOOLEAN
      BY <2>1 DEF EndsInTime, Kill, GiveUp
    <2>3. UNCHANGED <<task_vars, count, process>>
      BY <1>3 DEF EndingGoesOn, StopStep
    <2>4. QED
      BY <2>2, <2>3
  <1>4. CASE StartAgain
    BY <1>4 DEF StartAgain
  <1>5. CASE CancelledAtWork \/ CancelledAtRest \/ CancelledAtStart
    BY <1>5 DEF CancelledAtWork, CancelledAtRest, CancelledAtStart, CancelledWhile
  <1>6. CASE CleanupAborted \/ Abandoned
    BY <1>6 DEF CleanupAborted, Abandoned
  <1>7. CASE Disconnect \/ DisconnectStopped \/ DisconnectAborted \/ Joined
    BY <1>7 DEF Disconnect, DisconnectStopped, DisconnectAborted, Joined
  <1>8. CASE LeaderDies \/ OthersDie
    BY <1>8 DEF LeaderDies, OthersDie
  <1>9. CASE Over \/ UNCHANGED vars
    BY <1>9 DEF Over, vars
  <1>10. QED
    BY <1>1, <1>2, <1>3, <1>4, <1>5, <1>6, <1>7, <1>8, <1>9 DEF Next, Task

\* Each step keeps the places of the task and of the sidecar, and a pause is one
\* of the delays.
LEMMA StepKeepsRest ==
  ASSUME HistoryInv, Rest, [Next]_vars PROVE Rest'
  <1> USE DEF Rest, process, count, task_vars
  <1>1. CASE StartFails \/ BadFrame \/ OutputEnds \/ EndingIsOver
    <2>1. ~fatal /\ Fail /\ UNCHANGED process
      BY <1>1 DEF HistoryInv, StartFails, BadFrame, OutputEnds, EndingIsOver
    <2>2. failures' \in 1..Threshold
      BY <2>1, StreakGoesOn
    <2>3. /\ task' \in {"notifying", "cleaning"}
          /\ pause' = {} \/ pause' = {RetryDelay(failures')}
      BY <2>1 DEF Fail, CountFailure
    <2>4. QED
      BY <2>1, <2>2, <2>3
  <1>2. CASE Lasts \/ Started \/ GoodFrame \/ Handled \/ LeaderEnds \/ Notified \/ Cleaned
    BY <1>2 DEF Lasts, Started, GoodFrame, Handled, LeaderEnds, Notified, Cleaned
  <1>3. CASE EndingGoesOn \/ \E w \in Wait : StopStep(w)
    BY <1>3 DEF EndingGoesOn, StopStep
  <1>4. CASE StartAgain
    BY <1>4 DEF StartAgain
  <1>5. CASE CancelledAtWork \/ CancelledAtRest \/ CancelledAtStart
    BY <1>5 DEF CancelledAtWork, CancelledAtRest, CancelledAtStart, CancelledWhile
  <1>6. CASE CleanupAborted \/ Abandoned
    BY <1>6 DEF CleanupAborted, Abandoned
  <1>7. CASE Disconnect \/ DisconnectStopped \/ DisconnectAborted \/ Joined
    BY <1>7 DEF Disconnect, DisconnectStopped, DisconnectAborted, Joined
  <1>8. CASE LeaderDies \/ OthersDie
    BY <1>8 DEF LeaderDies, OthersDie
  <1>9. CASE Over \/ UNCHANGED vars
    BY <1>9 DEF Over, vars
  <1>10. QED
    BY <1>1, <1>2, <1>3, <1>4, <1>5, <1>6, <1>7, <1>8, <1>9 DEF Next, Task

\* Every variable keeps its type, a wait belongs to the one who waits, and a
\* counted failure is below the threshold or fatal.  (That a power of two is a
\* positive number is a fact of arithmetic that the provers do not know.)
THEOREM TypeCorrectness ==
  ASSUME \A n \in Nat : 2^n \in Nat \ {0}
  PROVE  Spec => []TypeOK
  <1>1. Init => Flags /\ Rest
    <2> SUFFICES ASSUME Init PROVE Flags /\ Rest
      OBVIOUS
    <2>1. Flags
      BY DEF Init, Flags
    <2>2. Rest
      BY DEF Init, Rest
    <2>3. QED
      BY <2>1, <2>2
  <1>2. HistoryInv /\ Rest /\ [Next]_vars => Rest'
    BY StepKeepsRest
  <1>3. IInv /\ HistoryInv /\ Flags /\ Rest => TypeOK
    <2> SUFFICES ASSUME IInv, HistoryInv, Flags, Rest PROVE TypeOK
      OBVIOUS
    <2>1. {ready, stable, fatal, watch, others, killed, gaveUp} \subseteq BOOLEAN
      BY DEF Flags
    <2>2. pause \subseteq 1..60 /\ Cardinality(pause) <= 1
      <3>1. CASE pause = {}
        BY <3>1, FS_EmptySet
      <3>2. CASE \E n \in 1..Threshold : pause = {RetryDelay(n)}
        <4>1. PICK n \in 1..Threshold : pause = {RetryDelay(n)}
          BY <3>2
        <4>2. n - 1 \in Nat
          BY <4>1, ThresholdAssumption
        <4>3. RetryDelay(n) \in 1..60
          BY <4>2 DEF RetryDelay, Min60
        <4>4. Cardinality(pause) = 1
          BY <4>1, FS_Singleton
        <4>5. QED
          BY <4>1, <4>3, <4>4
      <3>3. QED
        BY <3>1, <3>2 DEF Rest
    <2>3. /\ stage \in [Wait -> Stage]
          /\ stage["lines"] # "off" => task = "ending"
          /\ stage["cleanup"] # "off" => task = "cleaning" \/ cancel = "hit"
          /\ stage["disconnect"] # "off" => disc = "stopping"
          /\ disc \in {"no", "stopping", "joining", "done", "aborted"}
          /\ cancel = "none" => disc \in {"no", "done"}
          /\ cancel \in {"none", "due", "hit"}
      BY DEF IInv, Types, WaitsHaveOwners, CancelIsFinal
    <2>4. /\ failures \in 0..Threshold /\ (fatal <=> failures = Threshold)
          /\ log \in Seq({"short", "stable"}) /\ Len(log) <= Threshold
      BY DEF HistoryInv, Length
    <2>5. QED
      BY <2>1, <2>2, <2>3, <2>4, Zenon DEF TypeOK, Rest
  <1>4. QED
    BY <1>1, <1>2, <1>3, StepKeepsFlags, SupervisionInvariant, HistoryInvariant, PTL DEF Spec
=============================================================================

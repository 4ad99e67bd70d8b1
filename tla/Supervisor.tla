----------------------------- MODULE Supervisor -----------------------------
(***************************************************************************)
(* The adapter's watch supervisor (_watch_supervisor and disconnect in     *)
(* adapter.py) and the process it supervises (HeySDKWatch in client.py):   *)
(* starting a sidecar, reading it, counting its failures, stopping it with *)
(* two signals and their timeouts, pausing, giving up - and the disconnect *)
(* that may come in between at every await.                                *)
(*                                                                         *)
(* Two coroutines call HeySDKWatch.stop, the task's cleanup and disconnect *)
(* itself, and lines() has a similar end of its own; `stage` says where    *)
(* each of the three is.  The sidecar is a process group: its leader, and  *)
(* others that hold its pipes (or have left the group with them).  It may  *)
(* do anything at any time, ignore every signal included.                  *)
(*                                                                         *)
(* Left out: what a frame says (module Watch), SIGTERM, which obliges the  *)
(* sidecar to nothing, errors of the signal calls, and the Windows job     *)
(* object, whose end kills at once what is spared here for 0.5 s.          *)
(***************************************************************************)
EXTENDS Naturals, Sequences, FiniteSets

CONSTANT Threshold   \* failure_threshold

ASSUME ThresholdAssumption == Threshold \in Nat \ {0}

VARIABLES
  task,      \* where _watch_supervisor is
  cancel,    \* the task's cancellation: none, due, hit (CancelledError raised)
  ready,     \* ready_seen
  stable,    \* this watch was started WATCH_STABLE_SECONDS ago or earlier
  failures,  \* failures
  pause,     \* retry_delay: {} for None, {n} for n seconds
  fatal,     \* whether _set_fatal_error has been called
  watch,     \* whether self._watch is set
  leader,    \* the latest sidecar's process: none, alive, dead
  others,    \* whether others hold its pipes
  killed,    \* whether SIGKILL was sent
  gaveUp,    \* whether _stderr_task was cancelled
  stage,     \* of the three waits for the sidecar's end
  disc,      \* disconnect: no, stopping, joining, done, aborted
  log        \* history: how long the latest failed watches lasted

task_vars == <<task, cancel, ready, stable, watch>>
count     == <<failures, pause, fatal, log>>
process   == <<leader, others>>
signals   == <<killed, gaveUp>>

vars == <<task_vars, count, process, signals, stage, disc>>

Wait  == {"lines", "cleanup", "disconnect"}
Stage == {"off", "exitTerm", "exitKill", "outTerm", "outKill", "errTerm", "errKill"}

\* A wait of lines() belongs to the task's state "ending" and one of stop to a
\* task that cleans up or to a disconnect that stops; a counted failure is below
\* the threshold or fatal.
TypeOK ==
  /\ task \in {"starting", "abandoning", "reading", "handling", "ending", "notifying",
               "cleaning", "sleeping", "over"}
  /\ cancel \in {"none", "due", "hit"}
  /\ {ready, stable, fatal, watch, others, killed, gaveUp} \subseteq BOOLEAN
  /\ failures \in 0..Threshold /\ pause \subseteq 1..60 /\ Cardinality(pause) <= 1
  /\ leader \in {"none", "alive", "dead"}
  /\ stage \in [Wait -> Stage]
  /\ stage["lines"] # "off" => task = "ending"
  /\ stage["cleanup"] # "off" => task = "cleaning" \/ cancel = "hit"
  /\ stage["disconnect"] # "off" => disc = "stopping"
  /\ disc \in {"no", "stopping", "joining", "done", "aborted"}
  /\ cancel = "none" => disc \in {"no", "done"}
  /\ fatal <=> failures = Threshold
  /\ log \in Seq({"short", "stable"}) /\ Len(log) <= Threshold

Init ==
  /\ task = "starting" /\ cancel = "none" /\ watch = TRUE
  /\ ready = FALSE /\ stable = FALSE
  /\ failures = 0 /\ pause = {} /\ fatal = FALSE /\ log = <<>>
  /\ leader \in {"none", "alive"}
  /\ others = FALSE /\ killed = FALSE /\ gaveUp = FALSE
  /\ stage = [w \in Wait |-> "off"]
  /\ disc = "no"

-----------------------------------------------------------------------------
(* HeySDKWatch.stop.                                                       *)

\* End of file on both pipes.
PipesClosed == leader # "alive" /\ ~others

\* What is left of a stop once the leader has ended or was given up: a wait for
\* _stderr_task, unless that has ended.
WaitForPipes == IF PipesClosed \/ gaveUp THEN "off" ELSE "errTerm"

\* The first wait of a stop.
FirstStage == IF leader = "alive" THEN "exitTerm" ELSE WaitForPipes

\* What each stage waits for.
Ended(s) == IF s \in {"exitTerm", "exitKill"} THEN leader # "alive" ELSE PipesClosed

\* The stage that follows when a stage has what it waits for.
After(s) ==
  CASE s \in {"exitTerm", "exitKill"} -> WaitForPipes
    [] s \in {"outTerm", "outKill", "errTerm", "errKill"} -> "off"

\* The sidecar ends in time.
EndsInTime(w) ==
  /\ stage[w] # "off"
  /\ Ended(stage[w])
  /\ stage' = [stage EXCEPT ![w] = After(stage[w])]
  /\ UNCHANGED signals

\* It does not within 0.5 s, and SIGKILL follows.
Kill(w) ==
  /\ stage[w] \in {"exitTerm", "outTerm", "errTerm"}
  /\ ~Ended(stage[w])
  /\ killed' = TRUE
  /\ stage' = [stage EXCEPT ![w] = CASE stage[w] = "exitTerm" -> "exitKill"
                                     [] stage[w] = "outTerm"  -> "outKill"
                                     [] stage[w] = "errTerm"  -> "errKill"]
  /\ UNCHANGED gaveUp

\* Fault variant: after SIGKILL the wait has no timeout.
NeverGivesUp(w) == FALSE

\* SIGKILL has not helped within 5 s either: the wait is given up, and at the
\* end the reading of stderr, too.
GiveUp(w) ==
  /\ stage[w] \in {"exitKill", "outKill", "errKill"}
  /\ ~Ended(stage[w])
  /\ stage' = [stage EXCEPT ![w] = IF stage[w] = "errKill" THEN "off" ELSE WaitForPipes]
  /\ gaveUp' = (gaveUp \/ stage[w] = "errKill")
  /\ UNCHANGED killed

\* One stop has cancelled _stderr_task while the other one waits for it, which
\* raises CancelledError there.
CutOff(w) == stage[w] \in {"errTerm", "errKill"} /\ gaveUp

\* The stops run on by themselves: disconnect's, and the cleanup's, which is
\* shielded from the cancellation of the task that waits for it.
StopStep(w) ==
  /\ w \in {"cleanup", "disconnect"} /\ ~CutOff(w)
  /\ EndsInTime(w) \/ Kill(w) \/ GiveUp(w)
  /\ UNCHANGED <<task_vars, count, process, disc>>

-----------------------------------------------------------------------------
(* The task.                                                               *)

Min60(n) == IF n < 60 THEN n ELSE 60

RetryDelay(n) == Min60(2^(n - 1))

\* Fault variant: the test of the threshold is off by one.
GivesUpLate(n) == n > Threshold

GivesUp(n) == n >= Threshold

\* Everything except CancelledError is a failure of the watch.
CountFailure(n) ==
  /\ failures' = n
  /\ log' = LET all == Append(log, IF stable THEN "stable" ELSE "short")
            IN  IF Len(all) > Threshold THEN Tail(all) ELSE all
  /\ IF GivesUp(n)
       THEN /\ task' = "notifying" /\ fatal' = TRUE /\ pause' = {}
            /\ UNCHANGED stage
       ELSE /\ task' = "cleaning" /\ pause' = {RetryDelay(n)}
            /\ stage' = [stage EXCEPT !["cleanup"] = FirstStage]
            /\ UNCHANGED fatal

\* Fault variant: a ready frame clears the count.
FailUnlessReady == CountFailure((IF stable \/ ready THEN 0 ELSE failures) + 1)

\* Fault variant: the count is never cleared.
FailEver == CountFailure(failures + 1)

\* The failure counter starts anew after a watch that lasted.
Fail == CountFailure((IF stable THEN 0 ELSE failures) + 1)

MayRun == cancel # "due"

\* 30 seconds since the start of this watch.
Lasts ==
  /\ task \in {"starting", "reading", "handling", "ending"}
  /\ ~stable
  /\ stable' = TRUE
  /\ UNCHANGED <<task, cancel, ready, watch, count, process, signals, stage, disc>>

\* create_subprocess_exec returns ...
Started ==
  /\ MayRun /\ task = "starting" /\ leader # "none"
  /\ task' = "reading"
  /\ UNCHANGED <<cancel, ready, stable, watch, count, process, signals, stage, disc>>

\* ... or raises.
StartFails ==
  /\ MayRun /\ task = "starting" /\ leader = "none"
  /\ Fail
  /\ UNCHANGED <<cancel, ready, stable, watch, process, signals, disc>>

\* The first frame says ready and a drain follows; a later one is an event to
\* be stored, acknowledged and drained.
GoodFrame ==
  /\ MayRun /\ task = "reading"
  /\ task' = "handling" /\ ready' = TRUE
  /\ UNCHANGED <<cancel, stable, watch, count, process, signals, stage, disc>>

Handled ==
  /\ MayRun /\ task = "handling"
  /\ task' = "reading"
  /\ UNCHANGED <<cancel, ready, stable, watch, count, process, signals, stage, disc>>

\* A fatal, malformed or unexpected frame, an event of another account, a queue
\* that refuses, an acknowledgement that cannot be written.
BadFrame ==
  /\ MayRun /\ task \in {"reading", "handling"}
  /\ Fail
  /\ UNCHANGED <<cancel, ready, stable, watch, process, signals, disc>>

\* Fault variant: the end of the sidecar's output is taken for an end of the
\* supervision.
OutputEndsQuietly ==
  /\ MayRun /\ task = "reading" /\ PipesClosed
  /\ task' = "cleaning" /\ pause' = {}
  /\ stage' = [stage EXCEPT !["cleanup"] = FirstStage]
  /\ UNCHANGED <<cancel, ready, stable, watch, failures, fatal, log, process, signals, disc>>

\* The sidecar has ended and its pipes are closed.
OutputEnds ==
  /\ MayRun /\ task = "reading" /\ PipesClosed
  /\ Fail
  /\ UNCHANGED <<cancel, ready, stable, watch, process, signals, disc>>

\* The sidecar has ended and others hold its pipes: lines() waits for them.
LeaderEnds ==
  /\ MayRun /\ task = "reading" /\ leader = "dead" /\ others
  /\ task' = "ending"
  /\ stage' = [stage EXCEPT !["lines"] = "outTerm"]
  /\ UNCHANGED <<cancel, ready, stable, watch, count, process, signals, disc>>

\* The waits of lines(): for stdout, then for stderr.
EndingGoesOn ==
  /\ MayRun /\ task = "ending"
  /\ EndsInTime("lines") \/ Kill("lines") \/ GiveUp("lines")
  /\ UNCHANGED <<task_vars, count, process, disc>>

\* Whatever their outcome, lines() raises after them.
EndingIsOver ==
  /\ MayRun /\ task = "ending" /\ stage["lines"] = "off"
  /\ Fail
  /\ UNCHANGED <<cancel, ready, stable, watch, process, signals, disc>>

\* The gateway has been told, or its handler has raised.
Notified ==
  /\ MayRun /\ task = "notifying"
  /\ task' = "cleaning"
  /\ stage' = [stage EXCEPT !["cleanup"] = FirstStage]
  /\ UNCHANGED <<cancel, ready, stable, watch, count, process, signals, disc>>

\* The stop in the finally clause has ended.
Cleaned ==
  /\ MayRun /\ task = "cleaning" /\ stage["cleanup"] = "off"
  /\ watch' = FALSE
  /\ task' = IF pause = {} THEN "over" ELSE "sleeping"
  /\ UNCHANGED <<cancel, ready, stable, count, process, signals, stage, disc>>

\* The pause is over, and the next sidecar is started, if it can be.
StartAgain ==
  /\ MayRun /\ task = "sleeping"
  /\ task' = "starting" /\ watch' = TRUE
  /\ ready' = FALSE /\ stable' = FALSE
  /\ leader' \in {"none", "alive"} /\ others' = FALSE
  /\ killed' = FALSE /\ gaveUp' = FALSE
  /\ UNCHANGED <<cancel, count, stage, disc>>

\* CancelledError, raised at the await at which the task is.  In the finally
\* clause it cuts off the wait for the stop, not the stop.
CancelledWhile(place) ==
  /\ cancel = "due" /\ task = place
  /\ cancel' = "hit"
  /\ UNCHANGED <<ready, stable, watch, failures, fatal, log, process, gaveUp, disc>>

CancelledAtWork ==
  /\ \E place \in {"reading", "handling", "ending", "notifying"} : CancelledWhile(place)
  /\ task' = "cleaning" /\ pause' = {}
  /\ stage' = [stage EXCEPT !["lines"] = "off", !["cleanup"] = FirstStage]
  /\ UNCHANGED killed

CancelledAtRest ==
  /\ \E place \in {"cleaning", "sleeping"} : CancelledWhile(place)
  /\ task' = "over"
  /\ UNCHANGED <<stage, pause, killed>>

\* The same out of the stop: except Exception does not catch it.
CleanupAborted ==
  /\ CutOff("cleanup")
  /\ stage' = [stage EXCEPT !["cleanup"] = "off"]
  /\ IF task = "cleaning" THEN task' = "over" /\ cancel' = "hit" ELSE UNCHANGED <<task, cancel>>
  /\ UNCHANGED <<ready, stable, watch, count, process, signals, disc>>

\* asyncio kills the process whose start is cancelled and waits for it.
CancelledAtStart ==
  /\ CancelledWhile("starting")
  /\ task' = "abandoning" /\ pause' = {}
  /\ killed' = TRUE
  /\ UNCHANGED stage

\* self.process was never set, so that the stop in the finally clause has
\* nothing to do.
Abandoned ==
  /\ task = "abandoning" /\ leader # "alive"
  /\ task' = "over" /\ watch' = FALSE
  /\ UNCHANGED <<cancel, ready, stable, count, process, signals, stage, disc>>

-----------------------------------------------------------------------------
(* disconnect.                                                             *)

\* Fault variant: the watch is stopped by the task alone.
DisconnectWithoutStop ==
  /\ disc = "no"
  /\ IF task = "over" THEN disc' = "done" /\ UNCHANGED cancel
                      ELSE disc' = "joining" /\ cancel' = "due"
  /\ UNCHANGED <<task, ready, stable, watch, count, process, signals, stage>>

Disconnect ==
  /\ disc = "no"
  /\ IF task = "over"
       THEN /\ disc' = "done" /\ watch' = FALSE
            /\ UNCHANGED <<cancel, stage>>
       ELSE /\ cancel' = "due"
            /\ IF watch /\ task # "starting" /\ FirstStage # "off"
                 THEN /\ disc' = "stopping"
                      /\ stage' = [stage EXCEPT !["disconnect"] = FirstStage]
                 ELSE /\ disc' = "joining"
                      /\ UNCHANGED stage
            /\ UNCHANGED watch
  /\ UNCHANGED <<task, ready, stable, count, process, signals>>

DisconnectStopped ==
  /\ disc = "stopping" /\ stage["disconnect"] = "off"
  /\ disc' = "joining"
  /\ UNCHANGED <<task_vars, count, process, signals, stage>>

\* The CancelledError passes through disconnect, whose rest is not executed.
DisconnectAborted ==
  /\ disc = "stopping" /\ CutOff("disconnect")
  /\ disc' = "aborted"
  /\ stage' = [stage EXCEPT !["disconnect"] = "off"]
  /\ UNCHANGED <<task_vars, count, process, signals>>

\* disconnect has waited for the task.
Joined ==
  /\ disc = "joining" /\ task = "over"
  /\ disc' = "done" /\ watch' = FALSE
  /\ UNCHANGED <<task, cancel, ready, stable, count, process, signals, stage>>

-----------------------------------------------------------------------------
(* The sidecar's processes.                                                *)

\* The leader ends, of itself or by a signal; others may be left, except of a
\* process that is just starting.
LeaderDies ==
  /\ leader = "alive"
  /\ leader' = "dead"
  /\ others' \in IF task \in {"starting", "abandoning"} THEN {FALSE} ELSE BOOLEAN
  /\ UNCHANGED <<task_vars, count, signals, stage, disc>>

OthersDie ==
  /\ others
  /\ others' = FALSE
  /\ UNCHANGED <<leader, task_vars, count, signals, stage, disc>>

\* Nothing more to do.
Over ==
  /\ task = "over" /\ disc \in {"done", "aborted"} /\ stage["cleanup"] = "off"
  /\ UNCHANGED vars

Task ==
  \/ Started \/ StartFails \/ GoodFrame \/ Handled \/ BadFrame
  \/ OutputEnds \/ LeaderEnds \/ EndingGoesOn \/ EndingIsOver
  \/ Notified \/ Cleaned \/ StartAgain
  \/ CancelledAtWork \/ CancelledAtRest \/ CancelledAtStart \/ CleanupAborted
  \/ Abandoned

Next ==
  \/ Task
  \/ \E w \in Wait : StopStep(w)
  \/ Disconnect \/ DisconnectStopped \/ DisconnectAborted \/ Joined
  \/ Lasts \/ LeaderDies \/ OthersDie \/ Over

\* The event loop runs what can run, and its timers fire.  Of the sidecar only
\* this is assumed: killed in the middle of its start, it ends.
Fairness ==
  /\ WF_vars(Started) /\ WF_vars(StartFails) /\ WF_vars(OutputEnds) /\ WF_vars(LeaderEnds)
  /\ WF_vars(EndingGoesOn) /\ WF_vars(EndingIsOver)
  /\ WF_vars(Notified) /\ WF_vars(Cleaned) /\ WF_vars(StartAgain)
  /\ WF_vars(CancelledAtWork) /\ WF_vars(CancelledAtRest)
  /\ WF_vars(CancelledAtStart) /\ WF_vars(CleanupAborted) /\ WF_vars(Abandoned)
  /\ \A w \in Wait : WF_vars(StopStep(w))
  /\ WF_vars(DisconnectStopped) /\ WF_vars(DisconnectAborted) /\ WF_vars(Joined)
  /\ WF_vars(task = "abandoning" /\ LeaderDies)

Spec == Init /\ [][Next]_vars /\ Fairness

-----------------------------------------------------------------------------

\* The latest k watches failed before they had lasted, or the first of the k had
\* lasted; what came before them is a watch that does not count any more.
StreakIs(k) ==
  /\ k <= Len(log)
  /\ \A i \in (Len(log) - k + 2)..Len(log) : log[i] = "short"
  /\ k = Len(log) \/ (k >= 1 /\ log[Len(log) - k + 1] = "stable")

\* The adapter becomes fatal with the failure that completes a streak of
\* Threshold, never earlier and never later, and a pause doubles with each
\* failure of the streak up to a minute.
SupervisionFitsHistory ==
  /\ fatal <=> StreakIs(Threshold)
  /\ task = "sleeping" =>
       \E k \in 1..(Threshold - 1) : StreakIs(k) /\ pause = {RetryDelay(k)}

\* A process of the watch that is still alive when the next sidecar is about to
\* be started, when the supervision has ended or when disconnect has waited for
\* it, has been sent SIGKILL: no second sidecar is left to run on unhindered.
NoneLeftUnkilled ==
  task = "sleeping" \/ disc = "done" \/ (task = "over" /\ disc = "no") =>
    PipesClosed \/ killed

\* The supervision never ends silently: either the gateway was told of a fatal
\* error or somebody disconnects.  And a disconnect that returns leaves no task
\* behind; it is cut off only when a process has outlived its SIGKILL by 5 s.
EndIsReported ==
  /\ task = "over" => fatal \/ cancel = "hit"
  /\ disc = "done" => task = "over"
  /\ disc = "aborted" => gaveUp /\ killed

\* A disconnect comes to an end, whatever the sidecar does.
DisconnectEnds == disc # "no" ~> disc \in {"done", "aborted"}

\* A watch that never stays up, and from some time on ends before it has lasted
\* 30 s, is given up and reported: a full queue, an entry that cannot be read or
\* a state file that is refused does not stay unnoticed.
HopelessIsReported ==
  []<>(task \notin {"reading", "handling"}) /\ <>[]~stable => <>(fatal \/ disc # "no")
=============================================================================

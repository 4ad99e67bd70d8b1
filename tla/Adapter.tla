------------------------------ MODULE Adapter ------------------------------
(***************************************************************************)
(* The platform adapter (class HeyAdapter, adapter.py) and what it shares  *)
(* between its instances in one gateway process: the queue, the claims on  *)
(* threads and the register of the live adapter.                           *)
(*                                                                         *)
(* The gateway may build a replacement adapter while sessions of the old   *)
(* one still run.  Every instance runs coroutines on one event loop; a     *)
(* step here is what a coroutine does between two awaits.                  *)
(*                                                                         *)
(*   drain    the _drain_pending calls that wait for handle_message: of    *)
(*            connect, of the watch task, of the gateway-readiness task    *)
(*            and of the idle-session tasks.  Each gives one event to      *)
(*            Hermes and still has to walk the rest of the pending list    *)
(*            it read when it started.                                     *)
(*   session  Hermes' background task for a thread on an adapter.  Hermes  *)
(*            is not in the repository; what is modelled of it is what     *)
(*            the adapter relies on: a message for a thread whose session  *)
(*            is active waits until that session leaves, and a session     *)
(*            calls _send_with_retry, then on_processing_complete, then    *)
(*            leaves.                                                      *)
(*                                                                         *)
(* Module Delivery says what one _send_with_retry does; here it applies    *)
(* its mutation at most once.  Events of another account, which stop the   *)
(* drain, and the supervision of the watch process are left out: a watch   *)
(* that comes up again is ReadyFrame.                                      *)
(***************************************************************************)
EXTENDS Naturals, Sublists, SequencesExt

CONSTANTS
  Event,         \* events HEY delivers
  Thread,
  ThreadOf,      \* the HEY thread of each event
  Instance,      \* adapter objects of one gateway process
  Allowed,       \* for each instance the events its allow list authorises
  Nobody,        \* no event, no instance
  Overlap,       \* whether the gateway connects a replacement before it has
                 \* disconnected the adapter that is up
  MaxPending,    \* capacity of the queue
  MaxRetries,    \* bound: repeated attempts of one answer
  MaxTroubles,   \* bound: handlers, sends, drains and hooks that fail or are
                 \* cancelled without an effect on HEY, and mutations applied
                 \* by HEY whose success the plugin does not get to know or
                 \* cannot record
  MaxCrashes     \* bound: crashes of the gateway process

ASSUME ConstantsAssumption ==
  /\ ThreadOf \in [Event -> Thread]
  /\ Allowed \in [Instance -> SUBSET Event]
  /\ Nobody \notin Event /\ Nobody \notin Instance
  /\ Overlap \in BOOLEAN
  /\ MaxPending \in Nat \ {0}
  /\ {MaxRetries, MaxTroubles, MaxCrashes} \subseteq Nat
  /\ IsFiniteSet(Thread) /\ Thread \cap {"connect", "gateway", "watch"} = {}

VARIABLES
  pending,    \* the queue: events that wait for their answer
  completed,  \* the queue: events completed, oldest first
  claims,     \* _claims: for each thread the event being worked on
  live,       \* _live_adapters: the adapter that takes over follow-up work
  status,     \* for each instance, how far connect and disconnect are
  probing,    \* instances whose gateway-readiness task still polls
  open,       \* instances the gateway lets senders through to
  due,        \* instances whose watch task acknowledges an accepted event
              \* and drains then
  drain,      \* rest of the snapshot of each drain that is under way
  giving,     \* the event whose handle_message the drain waits for, until
              \* Hermes has taken it
  waiting,    \* threads for which an idle-session task of the instance waits
  session,    \* per instance and thread
  answered,   \* mutations HEY has applied for each event
  dropped,    \* events completed because they are no longer authorised
  kept,       \* history: threads whose claim was left behind by a hook that
              \* failed or by a drain that was cancelled
  failures, lost, crashes

vars == <<pending, completed, claims, live, status, probing, open, due, drain, giving,
          waiting, session, answered, dropped, kept, failures, lost, crashes>>

queue     == <<pending, completed>>
lifecycle == <<live, status, probing, open, due>>
work      == <<drain, giving, waiting>>
outside   == <<answered, dropped, kept, failures, lost, crashes>>

Waiting == Range(pending)
Done    == Range(completed)

Task    == {"connect", "gateway", "watch"} \cup Thread
Working == {"handling", "sending", "applied", "ended"}

Session == [phase : Working \cup {"idle", "leaving"}, event : Event \cup {Nobody},
            target : Event \cup {Nobody}, tries : 0..MaxRetries, next : Event \cup {Nobody}]

Resting == [phase |-> "idle", event |-> Nobody, target |-> Nobody, tries |-> 0,
            next |-> Nobody]

\* A session that has begun with an event.
Handling(e) == [phase |-> "handling", event |-> e, target |-> Nobody, tries |-> 0,
                next |-> Nobody]

TypeOK ==
  /\ pending \in Seq(Event) /\ Len(pending) <= MaxPending
  /\ completed \in Seq(Event)
  /\ claims \in [Thread -> Event \cup {Nobody}]
  /\ \A t \in Thread : claims[t] # Nobody => ThreadOf[claims[t]] = t
  /\ live \in Instance \cup {Nobody}
  /\ status \in [Instance -> {"new", "connecting", "up", "closing", "down"}]
  /\ probing \subseteq Instance /\ open \subseteq Instance /\ due \subseteq Instance
  /\ drain \in [Instance -> [Task -> Seq(Event)]]
  /\ giving \in [Instance -> [Task -> Event \cup {Nobody}]]
  /\ waiting \in [Instance -> SUBSET Thread]
  /\ session \in [Instance -> [Thread -> Session]]
  /\ answered \in [Event -> Nat]
  /\ dropped \subseteq Event /\ kept \subseteq Thread
  /\ failures \in 0..MaxTroubles /\ crashes \in 0..MaxCrashes
  /\ lost \in 0..(MaxTroubles + crashes * Cardinality(Thread))

\* A process starts with no claims, no live adapter and new adapter objects; the
\* queue is whatever the file holds.
FreshProcess ==
  /\ claims' = [t \in Thread |-> Nobody]
  /\ live' = Nobody
  /\ status' = [a \in Instance |-> "new"]
  /\ probing' = {} /\ open' = {} /\ due' = {}
  /\ drain' = [a \in Instance |-> [w \in Task |-> <<>>]]
  /\ giving' = [a \in Instance |-> [w \in Task |-> Nobody]]
  /\ waiting' = [a \in Instance |-> {}]
  /\ session' = [a \in Instance |-> [t \in Thread |-> Resting]]
  /\ kept' = {}

Init ==
  /\ pending = <<>> /\ completed = <<>>
  /\ claims = [t \in Thread |-> Nobody]
  /\ live = Nobody
  /\ status = [a \in Instance |-> "new"]
  /\ probing = {} /\ open = {} /\ due = {}
  /\ drain = [a \in Instance |-> [w \in Task |-> <<>>]]
  /\ giving = [a \in Instance |-> [w \in Task |-> Nobody]]
  /\ waiting = [a \in Instance |-> {}]
  /\ session = [a \in Instance |-> [t \in Thread |-> Resting]]
  /\ answered = [e \in Event |-> 0]
  /\ dropped = {} /\ kept = {}
  /\ failures = 0 /\ lost = 0 /\ crashes = 0

-----------------------------------------------------------------------------
(* The queue, as AssignmentQueue has it.  max_seen is at least 100, so no  *)
(* completed event of these small instances is ever forgotten.             *)

QueueAccept(e) ==
  /\ e \notin Waiting \cup Done
  /\ Len(pending) < MaxPending
  /\ pending' = Append(pending, e)
  /\ UNCHANGED completed

\* complete() of an event that does not wait rewrites the file as it was.
QueueComplete(e) ==
  IF e \in Waiting
    THEN /\ \E i \in DOMAIN pending : pending[i] = e /\ pending' = RemoveAt(pending, i)
         /\ completed' = Append(completed, e)
    ELSE UNCHANGED queue

\* _claimed_event: the thread's claim, provided that it still waits.
ClaimedEvent(t) ==
  IF claims[t] # Nobody /\ claims[t] \in Waiting THEN claims[t] ELSE Nobody
-----------------------------------------------------------------------------
(* _drain_pending.                                                         *)

\* Fault variant: each adapter minds only its own sessions, not the claims.
TakesUnlessOwnSession(a, e) ==
  /\ e \in Allowed[a] /\ a \in open
  /\ session[a][ThreadOf[e]].phase \in {"idle", "leaving"}
  /\ session[a][ThreadOf[e]].next = Nobody

\* The drain dispatches an event that is authorised by the adapter and by the
\* gateway and whose thread can be claimed.  Whether it still waits in the queue
\* is not looked up again.
Takes(a, e) ==
  /\ e \in Allowed[a] /\ a \in open
  /\ claims[ThreadOf[e]] = Nobody

\* Where the walk over the list comes to an event to dispatch, or to its end.
Stop(a, list) ==
  LET taken == {i \in DOMAIN list : Takes(a, list[i])}
  IN  IF taken = {} THEN Len(list) + 1 ELSE CHOOSE i \in taken : \A j \in taken : i <= j

\* Fault variant: the events the gateway does not let through yet are dropped, too.
DropHeldBack(a, list, n) ==
  LET drops == {list[i] : i \in {j \in 1..n : a \in open => list[j] \notin Allowed[a]}}
  IN  /\ pending' = Only(pending, Waiting \ drops)
      /\ completed' = completed \o Only(pending, drops)
      /\ dropped' = dropped \cup (drops \ Allowed[a])

\* Of the list's first n events, those whose authorisation was withdrawn are
\* completed unanswered.
DropUnauthorised(a, list, n) ==
  LET drops == {list[i] : i \in 1..n} \ Allowed[a] IN
  IF drops = {} THEN UNCHANGED <<queue, dropped>>
    ELSE /\ pending' = Only(pending, Waiting \ drops)
         /\ completed' = completed \o Only(pending, drops)
         /\ dropped' = dropped \cup drops

CountFailure ==
  /\ failures + lost < MaxTroubles
  /\ failures' = failures + 1

\* The walk over `list` up to the next await: the first event taken is claimed
\* and given to Hermes, the others on the way are skipped or dropped.
Walk(a, w, list) ==
  LET i == Stop(a, list) IN
  /\ DropUnauthorised(a, list, i - 1)
  /\ IF i > Len(list)
       THEN drain' = [drain EXCEPT ![a][w] = <<>>] /\ UNCHANGED <<claims, giving>>
       ELSE /\ claims' = [claims EXCEPT ![ThreadOf[list[i]]] = list[i]]
            /\ giving' = [giving EXCEPT ![a][w] = list[i]]
            /\ drain' = [drain EXCEPT ![a][w] = SubSeq(list, i + 1, Len(list))]
  /\ UNCHANGED failures

\* The walk ends with an exception, of pending() before the first event or of a
\* call about one of the others (complete(), the gateway's authorisation).
WalkFails(a, w, list) ==
  /\ \E n \in 0..(Stop(a, list) - 1) : DropUnauthorised(a, list, n)
  /\ drain' = [drain EXCEPT ![a][w] = <<>>]
  /\ CountFailure
  /\ UNCHANGED <<claims, giving>>

\* A drain of a background task goes on; a failure ends it (the watch task's
\* supervisor then starts a new watch, whose ready frame drains again).
Drain(a, w, list) ==
  /\ Walk(a, w, list) \/ WalkFails(a, w, list)
  /\ UNCHANGED <<session, answered, kept, lost, crashes>>

IsFree(a, w) == drain[a][w] = <<>> /\ giving[a][w] = Nobody

Resume(a, w) ==
  /\ w # "connect"
  /\ giving[a][w] = Nobody /\ drain[a][w] # <<>>
  /\ Drain(a, w, drain[a][w])
  /\ UNCHANGED <<lifecycle, waiting>>

\* handle_message: Hermes takes the event.  A resting session starts with it, an
\* active one takes it up when it leaves.
HandleMessage(a, w) ==
  LET e == giving[a][w]
      t == ThreadOf[e]
  IN
  /\ e # Nobody
  /\ session' = IF session[a][t].phase = "idle"
                  THEN [session EXCEPT ![a][t] = Handling(e)]
                  ELSE [session EXCEPT ![a][t].next = e]
  /\ giving' = [giving EXCEPT ![a][w] = Nobody]
  /\ UNCHANGED <<queue, claims, lifecycle, drain, waiting, outside>>

\* An exception in connect's drain is fatal for the adapter.
ConnectFails(a) ==
  /\ status' = [status EXCEPT ![a] = "down"]
  /\ live' = IF live = a THEN Nobody ELSE live

\* handle_message raises before Hermes has taken the event: its claim is given
\* back and the drain is over.
DispatchFails(a, w) ==
  /\ giving[a][w] # Nobody
  /\ claims' = [t \in Thread |-> IF claims[t] = giving[a][w] THEN Nobody ELSE claims[t]]
  /\ giving' = [giving EXCEPT ![a][w] = Nobody]
  /\ drain' = [drain EXCEPT ![a][w] = <<>>]
  /\ IF w = "connect" THEN ConnectFails(a) ELSE UNCHANGED <<live, status>>
  /\ CountFailure
  /\ UNCHANGED <<queue, probing, open, due, waiting, session, answered, dropped, kept,
                 lost, crashes>>

\* _drain_when_session_idle: the thread's session on this adapter has left.
IdleDrain(a, t) ==
  /\ t \in waiting[a]
  /\ session[a][t].phase = "idle"
  /\ IsFree(a, t)
  /\ waiting' = [waiting EXCEPT ![a] = @ \ {t}]
  /\ Drain(a, t, pending)
  /\ UNCHANGED lifecycle

-----------------------------------------------------------------------------
(* connect and disconnect.                                                 *)

\* The sidecar has verified the identity: the adapter registers itself and
\* drains what an earlier adapter or process left.
Connect(a) ==
  /\ status[a] = "new"
  /\ Overlap \/ \A b \in Instance : status[b] \in {"new", "down"}
  /\ \/ /\ Walk(a, "connect", pending)
        /\ status' = [status EXCEPT ![a] = "connecting"]
        /\ live' = a
     \/ /\ WalkFails(a, "connect", pending)
        /\ status' = [status EXCEPT ![a] = "down"]
        /\ live' = Nobody
  /\ UNCHANGED <<probing, open, due, waiting, session, answered, kept, lost, crashes>>

\* connect's drain goes on after a dispatch.
ConnectResumes(a) ==
  LET list == drain[a]["connect"] IN
  /\ giving[a]["connect"] = Nobody /\ list # <<>>
  /\ \/ Walk(a, "connect", list) /\ UNCHANGED <<status, live>>
     \/ WalkFails(a, "connect", list) /\ ConnectFails(a)
  /\ UNCHANGED <<probing, open, due, waiting, session, answered, kept, lost, crashes>>

\* Verification fails: connect returns False and nothing was registered.
ConnectRefused(a) ==
  /\ status[a] = "new"
  /\ status' = [status EXCEPT ![a] = "down"]
  /\ CountFailure
  /\ UNCHANGED <<queue, claims, live, probing, open, due, work, session,
                 answered, dropped, kept, lost, crashes>>

\* The drain of connect is through: the two background tasks start.
Connected(a) ==
  /\ status[a] = "connecting" /\ IsFree(a, "connect")
  /\ status' = [status EXCEPT ![a] = "up"]
  /\ probing' = probing \cup {a}
  /\ UNCHANGED <<queue, claims, live, open, due, work, session, outside>>

\* The gateway lets the adapter's senders through: from the start, or once it
\* has registered the connected adapter.
GatewayOpens(a) ==
  /\ status[a] \in {"new", "up"} /\ a \notin open
  /\ open' = open \cup {a}
  /\ UNCHANGED <<queue, claims, live, status, probing, due, work, session, outside>>

\* _drain_when_gateway_ready: one of its polls finds the gateway open.
GatewayReady(a) ==
  /\ a \in probing /\ a \in open
  /\ probing' = probing \ {a}
  /\ Drain(a, "gateway", pending)
  /\ UNCHANGED <<live, status, open, due, waiting>>

\* disconnect cancels the readiness task and the watch task wherever they are,
\* and waits for the sidecar to stop.  Sessions and idle tasks go on.  A drain
\* that is cancelled while it waits for handle_message does not give the claim
\* back: CancelledError is no Exception.
Disconnect(a) ==
  LET given == {giving[a]["gateway"], giving[a]["watch"]} \ {Nobody} IN
  /\ status[a] = "up"
  /\ status' = [status EXCEPT ![a] = "closing"]
  /\ probing' = probing \ {a}
  /\ due' = due \ {a}
  /\ drain' = [drain EXCEPT ![a]["gateway"] = <<>>, ![a]["watch"] = <<>>]
  /\ giving' = [giving EXCEPT ![a]["gateway"] = Nobody, ![a]["watch"] = Nobody]
  /\ IF given = {} THEN UNCHANGED <<kept, failures>>
       ELSE CountFailure /\ kept' = kept \cup {ThreadOf[e] : e \in given}
  /\ UNCHANGED <<queue, claims, live, open, waiting, session, answered, dropped, lost, crashes>>

\* Fault variant: the register is cleared whoever is in it.
DisconnectedForAll(a) ==
  /\ status[a] = "closing"
  /\ status' = [status EXCEPT ![a] = "down"]
  /\ live' = Nobody
  /\ UNCHANGED <<queue, claims, probing, open, due, work, session, outside>>

\* The register is cleared only if no replacement has taken it over.
Disconnected(a) ==
  /\ status[a] = "closing"
  /\ status' = [status EXCEPT ![a] = "down"]
  /\ live' = IF live = a THEN Nobody ELSE live
  /\ UNCHANGED <<queue, claims, probing, open, due, work, session, outside>>

\* The gateway builds a new adapter in the place of one that is down and has
\* no task left.
Rebuilt(a) ==
  /\ status[a] = "down"
  /\ \A t \in Thread : session[a][t] = Resting
  /\ \A w \in Task : IsFree(a, w)
  /\ waiting[a] = {}
  /\ status' = [status EXCEPT ![a] = "new"]
  /\ open' = open \ {a}
  /\ UNCHANGED <<queue, claims, live, probing, due, work, session, outside>>

-----------------------------------------------------------------------------
(* The watch task, which handles one frame after the other.                *)

WatchIsFree(a) == status[a] = "up" /\ a \notin due /\ IsFree(a, "watch")

\* A watch process is up (again): its first frame starts a drain.
ReadyFrame(a) ==
  /\ WatchIsFree(a)
  /\ pending # <<>>
  /\ Drain(a, "watch", pending)
  /\ UNCHANGED <<lifecycle, waiting>>

\* process_watch_line for an event that is accepted: it is persisted and then
\* acknowledged.  An event that is not authorised or was seen before changes
\* nothing.
EventFrame(a, e) ==
  /\ WatchIsFree(a)
  /\ e \in Allowed[a]
  /\ QueueAccept(e)
  /\ due' = due \cup {a}
  /\ UNCHANGED <<claims, live, status, probing, open, work, session, outside>>

\* The acknowledgement fails, or ingest raised after its file was in place: a
\* new watch is started and nothing is drained before it is ready.
AcknowledgementFails(a) ==
  /\ a \in due
  /\ due' = due \ {a}
  /\ CountFailure
  /\ UNCHANGED <<queue, claims, live, status, probing, open, work, session,
                 answered, dropped, kept, lost, crashes>>

\* The acknowledgement is out: the queue is read and drained.
DueDrain(a) ==
  /\ a \in due
  /\ due' = due \ {a}
  /\ Drain(a, "watch", pending)
  /\ UNCHANGED <<live, status, probing, open, waiting>>

-----------------------------------------------------------------------------
(* A session and the adapter's hooks it calls.                             *)

SessionTo(a, t, phase) == session' = [session EXCEPT ![a][t].phase = phase]

\* Fault variant: the claim is trusted without a look at the queue.
SendClaimed(a, t) ==
  /\ session[a][t].phase = "handling"
  /\ session' = [session EXCEPT ![a][t].target = claims[t],
                   ![a][t].phase = IF claims[t] = Nobody THEN "ended" ELSE "sending"]
  /\ UNCHANGED <<queue, claims, lifecycle, work, outside>>

\* The handler has a final text.  send looks up the claimed event, whose kind
\* selects the mutation; without one the send fails and nothing leaves.
Send(a, t) ==
  /\ session[a][t].phase = "handling"
  /\ session' = [session EXCEPT ![a][t].target = ClaimedEvent(t),
                   ![a][t].phase = IF ClaimedEvent(t) = Nobody THEN "ended" ELSE "sending"]
  /\ UNCHANGED <<queue, claims, lifecycle, work, outside>>

\* Fault variant: attempts are not counted against the limit.
SendAgainAndAgain(a, t) ==
  /\ session[a][t].phase = "sending"
  /\ session[a][t].tries <= MaxRetries
  /\ session' = [session EXCEPT ![a][t].target = ClaimedEvent(t),
                   ![a][t].tries = @ + 1,
                   ![a][t].phase = IF ClaimedEvent(t) = Nobody THEN "ended" ELSE "sending"]
  /\ UNCHANGED <<queue, claims, lifecycle, work, outside>>

\* After a result that is safe to retry, send looks up the claimed event again.
SendAgain(a, t) ==
  /\ session[a][t].phase = "sending"
  /\ session[a][t].tries < MaxRetries
  /\ session' = [session EXCEPT ![a][t].target = ClaimedEvent(t),
                   ![a][t].tries = @ + 1,
                   ![a][t].phase = IF ClaimedEvent(t) = Nobody THEN "ended" ELSE "sending"]
  /\ UNCHANGED <<queue, claims, lifecycle, work, outside>>

\* HEY applies the mutation while the coroutine waits for its result.
HeyApplies(a, t) ==
  /\ session[a][t].phase = "sending"
  /\ SessionTo(a, t, "applied")
  /\ answered' = [answered EXCEPT ![session[a][t].event] = @ + 1]
  /\ UNCHANGED <<queue, claims, lifecycle, work, dropped, kept, failures, lost, crashes>>

\* The success is known.  _send_with_retry completes the event that the thread's
\* claim names now, after the wait.
Confirm(a, t) ==
  /\ session[a][t].phase = "applied"
  /\ IF claims[t] # Nobody THEN QueueComplete(claims[t]) ELSE UNCHANGED queue
  /\ SessionTo(a, t, "ended")
  /\ UNCHANGED <<claims, lifecycle, work, outside>>

\* The handler raises, is cancelled or has nothing to say.
HandlerFails(a, t) ==
  /\ session[a][t].phase = "handling"
  /\ SessionTo(a, t, "ended")
  /\ CountFailure
  /\ UNCHANGED <<queue, claims, lifecycle, work, answered, dropped, kept, lost, crashes>>

\* The send fails for good or is cancelled, and HEY has applied nothing.
SendFails(a, t) ==
  /\ session[a][t].phase = "sending"
  /\ SessionTo(a, t, "ended")
  /\ CountFailure
  /\ UNCHANGED <<queue, claims, lifecycle, work, answered, dropped, kept, lost, crashes>>

\* HEY has applied the mutation, but the result is ambiguous, or the session is
\* cancelled while it waits, or complete() raises: the event stays pending.
ResultLost(a, t) ==
  /\ session[a][t].phase = "applied"
  /\ failures + lost < MaxTroubles
  /\ lost' = lost + 1
  /\ SessionTo(a, t, "ended")
  /\ UNCHANGED <<queue, claims, lifecycle, work, answered, dropped, kept, failures, crashes>>

\* Fault variant: a session leaves its claim behind when its event is answered.
FinishKeepingClaim(a, t) ==
  LET e == session[a][t].event IN
  /\ session[a][t].phase = "ended"
  /\ SessionTo(a, t, "leaving")
  /\ claims' = IF e \in Waiting
                 THEN [u \in Thread |-> IF claims[u] = e THEN Nobody ELSE claims[u]]
                 ELSE claims
  /\ waiting' = IF live # Nobody /\ (e \notin Waiting \/ live # a)
                  THEN [waiting EXCEPT ![live] = @ \cup {t}] ELSE waiting
  /\ UNCHANGED <<queue, lifecycle, drain, giving, outside>>

\* Fault variant: only the adapter's own sessions are followed up.
FinishForSelf(a, t) ==
  LET e == session[a][t].event IN
  /\ session[a][t].phase = "ended"
  /\ SessionTo(a, t, "leaving")
  /\ claims' = [u \in Thread |-> IF claims[u] = e THEN Nobody ELSE claims[u]]
  /\ waiting' = IF live = a /\ e \notin Waiting
                  THEN [waiting EXCEPT ![a] = @ \cup {t}] ELSE waiting
  /\ UNCHANGED <<queue, lifecycle, drain, giving, outside>>

\* on_processing_complete: the event's claim is released; the live adapter is
\* told to drain once the thread is idle if the event was completed, or if the
\* live adapter is another one than this.
Finish(a, t) ==
  LET e == session[a][t].event IN
  /\ session[a][t].phase = "ended"
  /\ SessionTo(a, t, "leaving")
  /\ claims' = [u \in Thread |-> IF claims[u] = e THEN Nobody ELSE claims[u]]
  /\ waiting' = IF live # Nobody /\ (e \notin Waiting \/ live # a)
                  THEN [waiting EXCEPT ![live] = @ \cup {t}] ELSE waiting
  /\ UNCHANGED <<queue, lifecycle, drain, giving, outside>>

\* on_processing_complete cannot read the queue: it raises before it has released
\* the claim, which stays for the life of the process, and nobody is told to drain.
FinishFails(a, t) ==
  /\ session[a][t].phase = "ended"
  /\ SessionTo(a, t, "leaving")
  /\ kept' = kept \cup {t}
  /\ CountFailure
  /\ UNCHANGED <<queue, claims, lifecycle, work, answered, dropped, lost, crashes>>

\* The session leaves _active_sessions, or takes up the message that came while
\* it was leaving.
Leave(a, t) ==
  LET next == session[a][t].next IN
  /\ session[a][t].phase = "leaving"
  /\ session' = [session EXCEPT ![a][t] =
                   IF next = Nobody THEN Resting ELSE Handling(next)]
  /\ UNCHANGED <<queue, claims, lifecycle, work, outside>>

-----------------------------------------------------------------------------

\* The gateway process dies and starts again.  A mutation whose result was on
\* its way is lost with it.
Crash ==
  LET cut == Cardinality({at \in Instance \X Thread : session[at[1]][at[2]].phase = "applied"})
  IN
  /\ crashes < MaxCrashes /\ crashes' = crashes + 1
  /\ lost' = lost + cut
  /\ FreshProcess
  /\ UNCHANGED <<queue, answered, dropped, failures>>

Lifecycle(a) ==
  \/ Connect(a) \/ ConnectResumes(a) \/ ConnectRefused(a) \/ Connected(a)
  \/ GatewayOpens(a) \/ GatewayReady(a)
  \/ Disconnect(a) \/ Disconnected(a) \/ Rebuilt(a)

Watch(a) ==
  \/ ReadyFrame(a) \/ DueDrain(a) \/ AcknowledgementFails(a)
  \/ \E e \in Event : EventFrame(a, e)

SessionStep(a, t) ==
  \/ Send(a, t) \/ HeyApplies(a, t) \/ Confirm(a, t) \/ Finish(a, t) \/ Leave(a, t)

SessionTrouble(a, t) ==
  \/ SendAgain(a, t) \/ HandlerFails(a, t) \/ SendFails(a, t) \/ ResultLost(a, t)
  \/ FinishFails(a, t)

Next ==
  \/ \E a \in Instance : Lifecycle(a) \/ Watch(a)
  \/ \E a \in Instance, w \in Task : Resume(a, w) \/ HandleMessage(a, w) \/ DispatchFails(a, w)
  \/ \E a \in Instance, t \in Thread :
       IdleDrain(a, t) \/ SessionStep(a, t) \/ SessionTrouble(a, t)
  \/ Crash

Spec == Init /\ [][Next]_vars

\* Every coroutine that can go on does so, handle_message and a handler come to
\* their end and a mutation gets its result (module Delivery); an adapter that is
\* up is let through by the gateway.  A coroutine is sequential: one of its steps
\* is enabled at a time.  Nothing is assumed of HEY's events, of the watch process,
\* of disconnects and replacements.
Fairness ==
  /\ \A a \in Instance :
       /\ WF_vars(ConnectResumes(a) \/ HandleMessage(a, "connect") \/ Connected(a))
       /\ WF_vars(GatewayOpens(a))
       /\ WF_vars(GatewayReady(a) \/ Resume(a, "gateway") \/ HandleMessage(a, "gateway"))
       /\ WF_vars(DueDrain(a) \/ Resume(a, "watch") \/ HandleMessage(a, "watch"))
  /\ \A a \in Instance, t \in Thread :
       /\ WF_vars(IdleDrain(a, t) \/ Resume(a, t) \/ HandleMessage(a, t))
       /\ WF_vars(SessionStep(a, t))

FairSpec == Spec /\ Fairness

\* The watch process comes up again and again while the adapter is up.
Restarts == \A a \in Instance : WF_vars(ReadyFrame(a))

-----------------------------------------------------------------------------

\* At any time at most one session of all adapters of the process works on a
\* thread, and it works on the event that the thread is claimed for, as does a
\* message that a leaving session still has to take up.  So the text it wrote is
\* sent with the mutation that this very event's kind calls for, also when a
\* retry looked the claim up again.
\* ("Process-wide per-state-path thread claims prevent concurrent same-thread
\* dispatch across replacement adapters.")
OneSessionPerThread ==
  \A t \in Thread :
    LET workers == {a \in Instance : session[a][t].phase \in Working}
        takers  == {a \in Instance : session[a][t].next # Nobody}
    IN  /\ Cardinality(workers) + Cardinality(takers) <= 1
        /\ \A a \in workers : claims[t] = session[a][t].event
        /\ \A a \in takers : claims[t] = session[a][t].next
        /\ \A a \in workers : session[a][t].phase \in {"sending", "applied"} =>
                                session[a][t].target = session[a][t].event

\* Somebody works on the thread's claimed event or is about to: a session, one
\* that will take it up when it leaves, or a drain that gives it to Hermes.
HasWork(t) ==
  \E a \in Instance :
    \/ session[a][t].phase \in Working /\ session[a][t].event = claims[t]
    \/ session[a][t].next = claims[t]
    \/ \E w \in Task : giving[a][w] = claims[t]

\* No claim outlives the work it stands for, so that the claim will be released
\* and the thread go on, whichever step fails or is cancelled - but for the two
\* places where the code leaves the claim behind: the hook that cannot read the
\* queue, and the drain that a disconnect cancels in handle_message.
\* (ARCHITECTURE.md, "Failures and cancellations release exact work for a live
\* replacement", has no such exceptions.)
ClaimHasWork == \A t \in Thread : claims[t] # Nobody => t \in kept \/ HasWork(t)

\* "Pending work is completed only after confirmed success": an event leaves the
\* queue only if HEY has applied an answer to it, or if it was dropped because
\* it is not authorised any more.
CompletedWasAnswered == \A e \in Done : answered[e] > 0 \/ e \in dropped

\* Each event is answered once as long as the success of every mutation is
\* learned and recorded, whatever is redelivered, drained from a stale snapshot,
\* handed to a replacement or taken up after a crash.  (Each loss of a result
\* can cost one more answer.)
AnsweredOnce == \A e \in Event : answered[e] <= 1 + lost

\* "Reply and comment mutations are never retried after an ambiguous outcome"
\* (ARCHITECTURE.md), read as what a user sees: no event gets a second answer.
NeverAnsweredTwice == \A e \in Event : answered[e] <= 1

\* An adapter stays registered until it is down itself or another one registers:
\* a disconnect of the old adapter, which may end long after its replacement has
\* connected, does not cut the replacement off from the follow-up work of the old
\* one's sessions.  (A replacement that fails to connect has registered, too.)
RegistrationLasts ==
  [][live # Nobody /\ live' # live =>
       \/ status'[live] \in {"down", "new"}
       \/ \E b \in Instance \ {live} : status[b] = "new" /\ status'[b] # "new"]_vars

\* From some time on one adapter stays live, connected and let through by the
\* gateway, and it authorises the event.
Served(e) == \E a \in Instance :
  live = a /\ status[a] = "up" /\ a \in open /\ e \in Allowed[a]

\* A served event that was accepted is answered, without any help of a later
\* frame, connect or restart of the watch, as long as no work has failed: no
\* hand-over, no skipped drain and no stale snapshot leaves an event behind.
\* (Where two adapters overlap this is not so: see the hazards.)
AnsweredUnlessTrouble ==
  \A e \in Event : (<>[]Served(e)) =>
    (e \in Waiting ~> (e \in Done \/ failures + lost > 0))

\* Work that failed is taken up again, provided that the watch comes up again
\* and again (the supervisor restarts it, and its ready frame drains the queue) and
\* that the thread's claim is not one of those left behind for good: this event
\* and all that follow in its thread wait for the next start of the gateway.
AnsweredWithRestarts ==
  Restarts => \A e \in Event :
    (<>[]Served(e)) /\ ([]<>(ThreadOf[e] \notin kept)) => (e \in Waiting ~> e \in Done)
=============================================================================

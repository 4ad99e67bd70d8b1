------------------------------- MODULE Watch -------------------------------
(***************************************************************************)
(* How assignments get from HEY into the plugin: the sidecar's watch mode  *)
(* (watch.go) with its cursor file, one frame and one acknowledgement at a *)
(* time over the pipes, and the plugin's end of them (process_watch_line,  *)
(* the watch supervisor).                                                  *)
(*                                                                         *)
(* HEY gives each change a time.  An entry is created in a thread; the     *)
(* thread's posting in every box it is in changes with it.  A cursor is a  *)
(* time: AllChanges(box, cursor) lists the postings that changed after it  *)
(* and returns the present as the next cursor.                             *)
(*                                                                         *)
(* A sidecar is a process of its own session, so one may outlive the       *)
(* gateway that started it; it then writes the cursor file next to its     *)
(* successor until it needs its pipes.                                     *)
(*                                                                         *)
(* Left out: entries of the own address and of other kinds (no event comes *)
(* of them), boxes that come into being later, a full sync demanded by HEY *)
(* and invalid data (both end the sidecar, as Die does), the supervisor's  *)
(* back-off and its limit on failures, and the power going off.            *)
(***************************************************************************)
EXTENDS Naturals, Sequences, SequencesExt

CONSTANTS
  Event,         \* entries, each with the thread it belongs to
  Thread,
  ThreadOf,
  NumBoxes,      \* boxes are numbered; poll reads them in this order
  Sidecar,       \* processes
  None,          \* no event, no process
  FirstStart,    \* whether the cursor file is still to be set up
  MaxMoves,      \* bound: moves of a thread to another box
  MaxFailures    \* bound: deaths of sidecars and failures of the plugin

Box == 1..NumBoxes

ASSUME ConstantsAssumption ==
  /\ ThreadOf \in [Event -> Thread]
  /\ NumBoxes \in Nat \ {0}
  /\ None \notin Event /\ None \notin Sidecar
  /\ FirstStart \in BOOLEAN
  /\ MaxMoves \in Nat /\ MaxFailures \in Nat
  /\ IsFiniteSet(Event)

VARIABLES
  now,       \* HEY: time of its latest change; the watch is set up at time 1
             \* at the earliest
  created,   \* HEY: when each entry was created; 0: not yet
  boxesOf,   \* HEY: the boxes each thread is in
  changed,   \* HEY: when the thread's posting in the box changed
  cursor,    \* the cursor file: for each box a time; 0: the file has none
  floor,     \* history: the time from which on each box is watched (the earliest
             \* cursor that initialize wrote for it); 0: not yet
  side,      \* the sidecar processes
  watching,  \* the process the supervisor reads from
  frame,     \* the event frame in that process's pipe
  handling,  \* what the plugin does with the event it has read
  queued,    \* identities the plugin has ingested, in order of arrival
  moves, failures

vars == <<now, created, boxesOf, changed, cursor, floor, side, watching, frame, handling,
          queued, moves, failures>>
hey    == <<now, created, boxesOf, changed, moves>>
plugin == <<watching, frame, handling, queued>>

Settled == Range(queued)

Stage == {"off", "start", "new cursors", "idle", "reading", "hydrating", "quiet",
          "emitting", "waiting", "acked"}

\* Memory of a process: the loaded cursors, the boxes still to be read, the next
\* cursor of each box (0: nil), the postings still to be hydrated and, for each
\* event not yet acknowledged, the boxes it was found in (item.boxes).
Off == [at |-> "off", cursor |-> [b \in Box |-> 0], unread |-> {},
        next |-> [b \in Box |-> 0], postings |-> {},
        foundIn |-> [e \in Event |-> {}]]

NotHandling == [event |-> None, step |-> "none"]

Time == 0..(1 + Cardinality(Event) + MaxMoves)

\* A process that waits for an acknowledgement has something to be acknowledged,
\* and the supervisor's pipe and hands hold at most one event between them.
TypeOK ==
  /\ now \in Time
  /\ created \in [Event -> Time]
  /\ boxesOf \in [Thread -> SUBSET Box]
  /\ changed \in [Box -> [Thread -> Time]]
  /\ cursor \in [Box -> Time] /\ floor \in [Box -> Time]
  /\ side \in [Sidecar ->
       [at : Stage, cursor : [Box -> Time], unread : SUBSET Box, next : [Box -> Time],
        postings : SUBSET (Box \X Thread), foundIn : [Event -> SUBSET Box]]]
  /\ \A p \in Sidecar : side[p].at \in {"waiting", "acked"} =>
       \E e \in Event : side[p].foundIn[e] # {}
  /\ watching \in Sidecar \cup {None}
  /\ frame \in Event \cup {None}
  /\ handling \in [event : Event \cup {None}, step : {"none", "ingest", "ack"}]
  /\ frame # None => handling = NotHandling
  /\ queued \in Seq(Event)
  /\ moves \in 0..MaxMoves /\ failures \in 0..MaxFailures

Init ==
  /\ now = 1
  /\ created = [e \in Event |-> 0]
  /\ boxesOf \in [Thread -> (SUBSET Box) \ {{}}]
  /\ changed = [b \in Box |-> [t \in Thread |-> 0]]
  /\ cursor = [b \in Box |-> IF FirstStart THEN 0 ELSE now]
  /\ floor = cursor
  /\ side = [p \in Sidecar |-> Off]
  /\ watching = None /\ frame = None /\ handling = NotHandling
  /\ queued = <<>>
  /\ moves = 0 /\ failures = 0

-----------------------------------------------------------------------------
(* HEY.                                                                    *)

\* A mail or a comment arrives.
Arrive(e) ==
  LET t == ThreadOf[e] IN
  /\ created[e] = 0
  /\ now' = now + 1
  /\ created' = [created EXCEPT ![e] = now + 1]
  /\ changed' = [b \in Box |-> IF b \in boxesOf[t] THEN [changed[b] EXCEPT ![t] = now + 1]
                                                   ELSE changed[b]]
  /\ UNCHANGED <<boxesOf, cursor, floor, side, plugin, moves, failures>>

\* The user moves the thread: its posting is deleted from one box and added to
\* another one; its entries keep their times.
Move(t) ==
  /\ moves < MaxMoves /\ moves' = moves + 1
  /\ now' = now + 1
  /\ \E from \in boxesOf[t], to \in Box \ boxesOf[t] :
       /\ boxesOf' = [boxesOf EXCEPT ![t] = (@ \ {from}) \cup {to}]
       /\ changed' = [changed EXCEPT ![from][t] = now + 1, ![to][t] = now + 1]
  /\ UNCHANGED <<created, cursor, floor, side, plugin, failures>>

-----------------------------------------------------------------------------
(* The sidecar's watch mode.                                               *)

\* The next memory of a process.
Becomes(p, memory) == side' = [side EXCEPT ![p] = memory]

\* The other variables of a step in which a sidecar only works in its memory.
InMemory == UNCHANGED <<hey, cursor, floor, plugin, failures>>

\* initialize: a box without a cursor gets the present one.  The file is written
\* if there was such a box.
Initialize(p) ==
  /\ side[p].at = "start"
  /\ Becomes(p, [side[p] EXCEPT
       !.cursor = [b \in Box |-> IF cursor[b] = 0 THEN now ELSE cursor[b]],
       !.at = IF \E b \in Box : cursor[b] = 0 THEN "new cursors" ELSE "idle"])
  /\ InMemory

SaveNewCursors(p) ==
  /\ side[p].at = "new cursors"
  /\ cursor' = side[p].cursor
  /\ floor' = [b \in Box |-> IF floor[b] = 0 \/ side[p].cursor[b] < floor[b]
                             THEN side[p].cursor[b] ELSE floor[b]]
  /\ Becomes(p, [side[p] EXCEPT !.at = "idle"])
  /\ UNCHANGED <<hey, plugin, failures>>

\* poll begins with the cursor file as it is now.
Poll(p) ==
  /\ side[p].at = "idle"
  /\ Becomes(p, [Off EXCEPT !.at = "reading", !.cursor = cursor, !.unread = Box])
  /\ InMemory

\* AllChanges for the next box.  A posting that was deleted counts as a change,
\* but there is nothing to hydrate; without a change the next cursor may be nil.
ReadChanges(p) ==
  LET s     == side[p]
      b     == CHOOSE c \in s.unread : \A d \in s.unread : c <= d
      fresh == {t \in Thread : changed[b][t] > s.cursor[b]}
      live  == {t \in fresh : b \in boxesOf[t]}
  IN
  /\ s.at = "reading"
  /\ \E next \in (IF fresh = {} THEN {0, now} ELSE {now}) :
       Becomes(p, [s EXCEPT !.next[b] = next,
                            !.unread = @ \ {b},
                            !.postings = @ \cup {<<b, t>> : t \in live},
                            !.at = IF s.unread = {b} THEN "hydrating" ELSE "reading"])
  /\ InMemory

\* Fault variant: the thread's entries are taken without the cursor as a bound.
HydrateAll(p) ==
  /\ side[p].at = "hydrating"
  /\ \E bt \in side[p].postings :
       LET found == {e \in Event : ThreadOf[e] = bt[2] /\ created[e] > 0}
       IN  Becomes(p, [side[p] EXCEPT
             !.postings = @ \ {bt},
             !.foundIn = [e \in Event |-> IF e \in found THEN @[e] \cup {bt[1]} ELSE @[e]]])
  /\ InMemory

\* hydratePostingSince for one posting: the thread's entries, as they are by
\* then, created after the box's cursor.
Hydrate(p) ==
  /\ side[p].at = "hydrating"
  /\ \E bt \in side[p].postings :
       LET since == side[p].cursor[bt[1]]
           found == {e \in Event : ThreadOf[e] = bt[2] /\ created[e] > since}
       IN  Becomes(p, [side[p] EXCEPT
             !.postings = @ \ {bt},
             !.foundIn = [e \in Event |-> IF e \in found THEN @[e] \cup {bt[1]} ELSE @[e]]])
  /\ InMemory

Hydrated(p) ==
  /\ side[p].at = "hydrating" /\ side[p].postings = {}
  /\ Becomes(p, [side[p] EXCEPT !.at = "quiet"])
  /\ InMemory

\* Fault variant: a box is through with the first acknowledgement.
ThroughAtOnce(next, left, b) ==
  next[b] # 0 /\ \E e \in Event : created[e] > 0 /\ left[e] = {}

\* A box is through with its increment when no event found in it is left (its
\* counter `pending` is 0).
Through(next, left, b) == next[b] # 0 /\ \A e \in Event : b \notin left[e]

\* The cursors in memory when `left` is still to be acknowledged.
Advanced(old, next, left) ==
  [b \in Box |-> IF Through(next, left, b) THEN next[b] ELSE old[b]]

Left(found) == \E e \in Event : found[e] # {}

\* Boxes in which nothing was found move on before the first event is emitted.
\* The whole file is written.
SaveQuiet(p) ==
  LET s     == side[p]
      moved == Advanced(s.cursor, s.next, s.foundIn)
  IN
  /\ s.at = "quiet"
  /\ cursor' = IF \E b \in Box : Through(s.next, s.foundIn, b) THEN moved ELSE cursor
  /\ Becomes(p, [s EXCEPT !.cursor = moved,
                          !.at = IF Left(s.foundIn) THEN "emitting" ELSE "idle"])
  /\ UNCHANGED <<hey, floor, plugin, failures>>

\* Fault variant: the burst goes out newest first.
NewestFirst(p) ==
  CHOOSE e \in Event : /\ side[p].foundIn[e] # {}
                       /\ \A f \in Event : side[p].foundIn[f] # {} => created[e] >= created[f]

\* The oldest event that is left.
Oldest(p) ==
  CHOOSE e \in Event : /\ side[p].foundIn[e] # {}
                       /\ \A f \in Event : side[p].foundIn[f] # {} => created[e] <= created[f]

\* Fault variant: the next frame does not wait for the acknowledgement.
EmitWithoutWaiting(p) ==
  /\ side[p].at = "emitting" /\ watching = p
  /\ frame' = Oldest(p)
  /\ side' = side
  /\ UNCHANGED <<hey, cursor, floor, watching, handling, queued, failures>>

\* The frame is written to the supervisor's pipe.
Emit(p) ==
  /\ side[p].at = "emitting" /\ watching = p
  /\ frame' = Oldest(p)
  /\ Becomes(p, [side[p] EXCEPT !.at = "waiting"])
  /\ UNCHANGED <<hey, cursor, floor, watching, handling, queued, failures>>

\* waitForAck has read the acknowledgement; the event's boxes that are through
\* now move on.
Acked(p) ==
  LET s     == side[p]
      e     == Oldest(p)
      left  == [s.foundIn EXCEPT ![e] = {}]
      moved == Advanced(s.cursor, s.next, left)
  IN
  /\ s.at = "acked"
  /\ cursor' = IF \E b \in s.foundIn[e] : Through(s.next, left, b) THEN moved ELSE cursor
  /\ Becomes(p, [s EXCEPT !.foundIn = left, !.cursor = moved,
                          !.at = IF Left(left) THEN "emitting" ELSE "idle"])
  /\ UNCHANGED <<hey, floor, plugin, failures>>

\* Without the gateway's ends of the pipes a process can neither emit nor get an
\* acknowledgement, and it ends.
PipesClosed(p) ==
  /\ watching # p
  /\ side[p].at \in {"emitting", "waiting"}
  /\ Becomes(p, Off)
  /\ InMemory

CountFailure ==
  /\ failures < MaxFailures
  /\ failures' = failures + 1

\* The process dies: a request to HEY fails, a file cannot be written, data is
\* invalid, or it is killed.  What it wrote to the pipe can still be read.
Die(p) ==
  /\ side[p].at # "off"
  /\ Becomes(p, Off)
  /\ CountFailure
  /\ UNCHANGED <<hey, cursor, floor, plugin>>

-----------------------------------------------------------------------------
(* The plugin.                                                             *)

\* The supervisor starts a process.
StartWatch(p) ==
  /\ watching = None /\ side[p].at = "off"
  /\ watching' = p
  /\ Becomes(p, [side[p] EXCEPT !.at = "start"])
  /\ UNCHANGED <<hey, cursor, floor, frame, handling, queued, failures>>

ReadFrame ==
  /\ frame # None
  /\ handling' = [event |-> frame, step |-> "ingest"]
  /\ frame' = None
  /\ UNCHANGED <<hey, cursor, floor, side, watching, queued, failures>>

\* Fault variant: the acknowledgement goes out before the event is persisted.
AckBeforeIngest ==
  /\ handling.step = "ingest"
  /\ IF side[watching].at = "waiting"
     THEN Becomes(watching, [side[watching] EXCEPT !.at = "acked"])
     ELSE UNCHANGED side
  /\ queued' = queued
  /\ handling' = [handling EXCEPT !.step = "ack"]
  /\ UNCHANGED <<hey, cursor, floor, watching, frame, failures>>

\* ingest: the event is in the queue's file from now on, if it was not before.
\* (An event that is not authorised is acknowledged like any other one; it
\* counts as settled here.)
Ingest ==
  /\ handling.step = "ingest"
  /\ queued' = IF handling.event \in Settled THEN queued ELSE Append(queued, handling.event)
  /\ handling' = [handling EXCEPT !.step = "ack"]
  /\ UNCHANGED <<hey, cursor, floor, side, watching, frame, failures>>

\* The acknowledgement is written; a process that is gone does not read it.
SendAck ==
  /\ handling.step = "ack"
  /\ IF side[watching].at = "waiting"
     THEN Becomes(watching, [side[watching] EXCEPT !.at = "acked"])
     ELSE UNCHANGED side
  /\ handling' = NotHandling
  /\ UNCHANGED <<hey, cursor, floor, watching, frame, queued, failures>>

\* The end of the process's output is read; the supervisor will start a new one.
WatchEnds ==
  /\ watching # None /\ side[watching].at = "off"
  /\ frame = None /\ handling = NotHandling
  /\ watching' = None
  /\ UNCHANGED <<hey, cursor, floor, side, frame, handling, queued, failures>>

\* ingest raises, the frame is refused, or the adapter disconnects: the process
\* is stopped, whatever it does, and what is in the pipe is lost.
StopWatch ==
  /\ watching # None
  /\ CountFailure
  /\ Becomes(watching, Off)
  /\ watching' = None /\ frame' = None /\ handling' = NotHandling
  /\ UNCHANGED <<hey, cursor, floor, queued>>

\* The gateway process dies; its sidecar lives on for the time being.
GatewayCrash ==
  /\ watching # None
  /\ CountFailure
  /\ watching' = None /\ frame' = None /\ handling' = NotHandling
  /\ UNCHANGED <<hey, cursor, floor, side, queued>>

-----------------------------------------------------------------------------

HEY == (\E e \in Event : Arrive(e)) \/ (\E t \in Thread : Move(t))

Works(p) ==
  \/ Initialize(p) \/ SaveNewCursors(p)
  \/ Poll(p) \/ ReadChanges(p) \/ Hydrate(p) \/ Hydrated(p) \/ SaveQuiet(p)
  \/ Emit(p) \/ Acked(p) \/ PipesClosed(p)

Plugin == ReadFrame \/ Ingest \/ SendAck \/ WatchEnds \/ \E p \in Sidecar : StartWatch(p)

Next ==
  \/ HEY
  \/ \E p \in Sidecar : Works(p) \/ Die(p)
  \/ Plugin \/ StopWatch \/ GatewayCrash

Spec == Init /\ [][Next]_vars

\* Sidecars and the plugin go on when they can; HEY answers requests, or the
\* process dies of it.
Fairness == WF_vars(Plugin) /\ \A p \in Sidecar : WF_vars(Works(p))

FairSpec == Spec /\ Fairness

-----------------------------------------------------------------------------

\* Entries the plugin has to hear of: created in a watched box after the watch of
\* that box was set up.
Owed(e, b) ==
  /\ b \in boxesOf[ThreadOf[e]]
  /\ floor[b] # 0 /\ created[e] > floor[b]

\* The cursor file never passes an event that the plugin has not persisted, in
\* whatever state the sidecars, the pipes and the plugin are lost and, once the
\* file is set up, whichever of two sidecars writes it last.  ("The sidecar
\* advances a cursor only after every emitted event in that increment is
\* acknowledged by Python.")  Two cases are outside of it: an event whose thread is
\* moved (see ReplayedAfterRestart), and a first start at which an orphan and its
\* successor both set up the file; the later of them writes its present over the
\* cursors of the earlier one.
NothingPassedBy ==
  \A e \in Event, b \in Box :
    moves = 0 /\ Owed(e, b) /\ e \notin Settled => cursor[b] < created[e]

\* The events of a thread are queued in the order in which they were created,
\* however polls, replays and restarts interleave with their arrival.  (A move
\* hides the entries of the thread from the next poll.  With an orphaned sidecar
\* or another move they can be found again after a later one was queued.)
ThreadOrder ==
  moves = 0 \/ (moves = 1 /\ \A p, q \in Sidecar : p = q) =>
    \A i, j \in DOMAIN queued :
      i < j /\ ThreadOf[queued[i]] = ThreadOf[queued[j]] =>
        created[queued[i]] < created[queued[j]]

\* The first start establishes the cursors without replaying history: what is
\* queued was created after the watch of one of its boxes was set up, for the
\* first time if two sidecars set it up.
NoHistory == \A e \in Settled : \E b \in boxesOf[ThreadOf[e]] : created[e] > floor[b]

\* An event the plugin has to hear of gets there, after finitely many failures,
\* as long as threads stay in their boxes.
EventuallyQueued ==
  \A e \in Event : (\E b \in Box : Owed(e, b)) ~> (e \in Settled \/ moves > 0)

\* "A restart before acknowledgement replays the event safely" (README.md): an
\* event that a sidecar has found and not yet brought to the queue can be found
\* again from the cursor file.
ReplayedAfterRestart ==
  \A p \in Sidecar, e \in Event :
    side[p].at \in {"waiting", "acked"} /\ side[p].foundIn[e] # {} /\ e \notin Settled =>
      \E b \in boxesOf[ThreadOf[e]] : cursor[b] < created[e]
=============================================================================

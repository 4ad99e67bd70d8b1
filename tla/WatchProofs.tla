----------------------------- MODULE WatchProofs -----------------------------
(***************************************************************************)
(* Proofs about Watch, for any entries, threads, boxes, processes and      *)
(* bounds: the cursor file passes nothing by, no history is replayed, and  *)
(* a thread's events are queued in their order.                            *)
(*                                                                         *)
(* None of the three is inductive: whether the file may be written depends *)
(* on what each process has in its memory and on what is in the pipe.      *)
(* BaseInv says where the processes, the pipe and the plugin stand with    *)
(* each other.  CoreInv says of every process what its poll may not have   *)
(* passed: whatever the plugin has still to hear of lies after the         *)
(* cursors, and is in the process's hands where its next cursor is later.  *)
(* HistoryInv, its part about the set-up, holds of every behaviour; the    *)
(* part about what is passed by needs SetUpOnce, which an orphan in its    *)
(* initialize at a first start can break, and nothing else.                *)
(***************************************************************************)
EXTENDS Watch, SequenceLemmas, TLAPS

Polling == {"reading", "hydrating", "quiet", "emitting", "waiting", "acked"}

Past    == 0..now
Arrived == {e \in Event : created[e] > 0}

\* HEY's clock, and times that are not in its future.
ClockInv ==
  /\ now \in Nat /\ now = 1 + Cardinality(Arrived) + moves
  /\ moves \in 0..MaxMoves /\ failures \in 0..MaxFailures
  /\ created \in [Event -> Past]
  /\ \A e, f \in Event : created[e] = created[f] /\ created[e] > 0 => e = f
  /\ boxesOf \in [Thread -> (SUBSET Box) \ {{}}]
  /\ changed \in [Box -> [Thread -> Past]]
  /\ \A e \in Event : \A b \in boxesOf[ThreadOf[e]] : changed[b][ThreadOf[e]] >= created[e]
  /\ cursor \in [Box -> Past] /\ floor \in [Box -> Past]

Process == [at : Stage, cursor : [Box -> Past], unread : SUBSET Box, next : [Box -> Past],
            postings : SUBSET (Box \X Thread), foundIn : [Event -> SUBSET Box]]

\* Where a process stands, and what it has in its memory.
SideSound(p) ==
  /\ side[p].at = "reading" => side[p].unread # {}
  /\ side[p].at \in {"quiet", "emitting", "waiting", "acked"} => side[p].postings = {}
  /\ side[p].at \in {"emitting", "waiting", "acked"} => Left(side[p].foundIn)
  /\ \A e \in Event : side[p].foundIn[e] # {} => created[e] > 0

SideInv ==
  /\ side \in [Sidecar -> Process]
  /\ \A p \in Sidecar : SideSound(p)

IsOldest(p, e) ==
  /\ side[p].foundIn[e] # {}
  /\ \A f \in Event : side[p].foundIn[f] # {} => created[e] <= created[f]

\* What is in the pipe and in the supervisor's hands is the event that the
\* process waits for; it is acknowledged only when it is persisted.
PluginInv ==
  /\ watching \in Sidecar \cup {None}
  /\ frame \in Event \cup {None}
  /\ handling \in [event : Event \cup {None}, step : {"none", "ingest", "ack"}]
  /\ handling.step = "none" <=> handling.event = None
  /\ queued \in Seq(Event)
  /\ frame # None => handling = NotHandling
  /\ frame # None \/ handling # NotHandling =>
       watching # None /\ side[watching].at \in {"waiting", "off"}
  /\ watching # None /\ side[watching].at = "waiting" =>
       \A e \in Event : e = frame \/ e = handling.event => IsOldest(watching, e)
  /\ handling.step = "ack" => handling.event \in Settled
  /\ \A p \in Sidecar : side[p].at = "acked" =>
       \A e \in Event : IsOldest(p, e) => e \in Settled

BaseInv == ClockInv /\ SideInv /\ PluginInv

Found(e) == e \in Settled \/ e = frame \/ e = handling.event

\* Times before the watch was set up.
SetUp == \E b \in Box : floor[b] # 0

\* Before the set-up nothing is watched; after it, no process has gone back
\* behind it or has found an entry from before.
HistorySound(p) ==
  /\ ~SetUp => side[p].at \in {"off", "start", "new cursors"}
  /\ side[p].at = "new cursors" =>
       \A b, c \in Box : side[p].cursor[b] = side[p].cursor[c] /\ side[p].cursor[b] # 0
  /\ side[p].at \in Polling =>
       /\ \A b \in Box : /\ side[p].cursor[b] >= floor[b]
                         /\ side[p].next[b] = 0 \/ side[p].next[b] >= floor[b]
       /\ \A e \in Event : side[p].foundIn[e] # {} => \A b \in Box : created[e] > floor[b]

HistoryInv ==
  /\ FirstStart \/ SetUp
  /\ \A b, c \in Box : floor[b] = floor[c]
  /\ \A b \in Box : cursor[b] >= floor[b]
  /\ ~SetUp => cursor = floor
  /\ \A e \in Event : Found(e) => SetUp /\ \A b \in Box : created[e] > floor[b]
  /\ \A p \in Sidecar : HistorySound(p)

\* Entries that came after the watch was set up, and those the plugin has still
\* to hear of from the box.
Expected(e)   == SetUp /\ \A b \in Box : created[e] > floor[b]
Missing(e, b) == Expected(e) /\ b \in boxesOf[ThreadOf[e]] /\ e \notin Settled

Before(e, f) == Expected(e) /\ ThreadOf[e] = ThreadOf[f] /\ created[e] < created[f]

Ordered ==
  \A i, j \in DOMAIN queued :
    i < j /\ ThreadOf[queued[i]] = ThreadOf[queued[j]] => created[queued[i]] < created[queued[j]]

\* The poll of a process has not passed what is missing: it will find it, or has
\* it in its hands.  It has an earlier entry of the thread whenever it has a later
\* one.
StaySound(p) ==
  side[p].at \in Polling =>
    /\ \A e \in Event, b \in Box : Missing(e, b) =>
         /\ side[p].cursor[b] < created[e]
         /\ side[p].next[b] >= created[e] =>
              <<b, ThreadOf[e]>> \in side[p].postings \/ b \in side[p].foundIn[e]
    /\ \A e, f \in Event : Before(e, f) /\ side[p].foundIn[f] # {} =>
         e \in Settled \/ side[p].foundIn[e] # {}
    /\ \A bt \in side[p].postings : bt[1] \in boxesOf[bt[2]]

\* Neither the file nor a process has passed what is missing.
Stay ==
  /\ \A e \in Event, b \in Box : Missing(e, b) => cursor[b] < created[e]
  /\ \A e, f \in Event : Before(e, f) /\ Found(f) => e \in Settled
  /\ Ordered
  /\ \A p \in Sidecar : StaySound(p)

\* What holds as long as threads stay in their boxes.
StayInv == moves = 0 => Stay
Calm    == moves = 0 /\ Stay

CoreInv == HistoryInv /\ StayInv

\* Once the file is set up, no process has cursors of its own left to set it up
\* with.  It is broken only where two processes are in initialize at once at a
\* first start: an orphan of a gateway that died and its successor.
SetUpOnce == SetUp => \A p \in Sidecar : side[p].at # "new cursors"

\* What every step keeps.
KeepsCore == HistoryInv' /\ (SetUpOnce /\ StayInv => StayInv')

-----------------------------------------------------------------------------
(* What each step of a process does to its memory.                         *)

\* The other processes keep theirs.
Others(p) == \A q \in Sidecar \ {p} : side'[q] = side[q]

\* Only the process that works gets a new memory.
LEMMA BecomesProperties ==
  ASSUME side \in [Sidecar -> Process], NEW p \in Sidecar, NEW m \in Process, Becomes(p, m)
  PROVE  side' \in [Sidecar -> Process] /\ Others(p) /\ side'[p] = m
  BY DEF Becomes, Others

\* A process that is not running.
LEMMA OffProperties ==
  ASSUME ClockInv
  PROVE  /\ Off \in Process /\ Off.at = "off" /\ Off.postings = {}
         /\ \A b \in Box : Off.next[b] = 0
         /\ \A e \in Event : Off.foundIn[e] = {}
  <1>1. 0 \in Past
    BY DEF ClockInv, Past
  <1>2. QED
    BY <1>1 DEF Off, Process, Stage

\* A step that changes only where the process stands.
LEMMA StageProperties ==
  ASSUME SideInv, NEW p \in Sidecar, NEW k \in Stage, Becomes(p, [side[p] EXCEPT !.at = k])
  PROVE  /\ side' \in [Sidecar -> Process] /\ Others(p)
         /\ side'[p].at = k /\ side'[p].cursor = side[p].cursor
         /\ side'[p].unread = side[p].unread /\ side'[p].next = side[p].next
         /\ side'[p].postings = side[p].postings /\ side'[p].foundIn = side[p].foundIn
  <1> DEFINE s == side[p]
             m == [s EXCEPT !.at = k]
  <1>1. s \in Process
    BY DEF SideInv
  <1>2. Becomes(p, m)
    OBVIOUS
  <1> HIDE DEF s
  <1>3. /\ m \in Process /\ m.at = k /\ m.cursor = s.cursor /\ m.unread = s.unread
        /\ m.next = s.next /\ m.postings = s.postings /\ m.foundIn = s.foundIn
    BY <1>1 DEF Process
  <1> HIDE DEF m
  <1>4. side' \in [Sidecar -> Process] /\ Others(p) /\ side'[p] = m
    BY <1>2, <1>3, BecomesProperties DEF SideInv
  <1>5. QED
    BY <1>3, <1>4 DEF s

\* initialize gives the boxes without a cursor the present one.
LEMMA InitializeProperties ==
  ASSUME ClockInv, SideInv, NEW p \in Sidecar, Initialize(p)
  PROVE  /\ side' \in [Sidecar -> Process] /\ Others(p)
         /\ side[p].at = "start"
         /\ side'[p].cursor = [b \in Box |-> IF cursor[b] = 0 THEN now ELSE cursor[b]]
         /\ side'[p].at = IF \E b \in Box : cursor[b] = 0 THEN "new cursors" ELSE "idle"
         /\ side'[p].foundIn = side[p].foundIn
  <1> DEFINE s == side[p]
             c == [b \in Box |-> IF cursor[b] = 0 THEN now ELSE cursor[b]]
             k == IF \E b \in Box : cursor[b] = 0 THEN "new cursors" ELSE "idle"
             m == [s EXCEPT !.cursor = c, !.at = k]
  <1>1. Becomes(p, m) /\ s.at = "start"
    BY DEF Initialize
  <1>2. s \in Process
    BY DEF SideInv
  <1>3. c \in [Box -> Past]
    BY DEF ClockInv, Past
  <1>4. k \in Stage
    BY DEF Stage
  <1> HIDE DEF s, c, k
  <1>5. m \in Process /\ m.cursor = c /\ m.at = k /\ m.foundIn = s.foundIn
    BY <1>2, <1>3, <1>4 DEF Process
  <1> HIDE DEF m
  <1>6. side' \in [Sidecar -> Process] /\ Others(p) /\ side'[p] = m
    BY <1>1, <1>5, BecomesProperties DEF SideInv
  <1>7. QED
    BY <1>1, <1>5, <1>6 DEF s, c, k

\* A poll begins with the file's cursors and empty hands.
LEMMA PollProperties ==
  ASSUME ClockInv, SideInv, NEW p \in Sidecar, Poll(p)
  PROVE  /\ side' \in [Sidecar -> Process] /\ Others(p)
         /\ side[p].at = "idle"
         /\ side'[p].at = "reading" /\ side'[p].cursor = cursor /\ side'[p].unread = Box
         /\ \A b \in Box : side'[p].next[b] = 0
         /\ side'[p].postings = {} /\ \A e \in Event : side'[p].foundIn[e] = {}
  <1> DEFINE m == [Off EXCEPT !.at = "reading", !.cursor = cursor, !.unread = Box]
  <1>1. Becomes(p, m) /\ side[p].at = "idle"
    BY DEF Poll
  <1>2. cursor \in [Box -> Past] /\ "reading" \in Stage
    BY DEF ClockInv, Stage
  <1>3. /\ m \in Process /\ m.at = "reading" /\ m.cursor = cursor /\ m.unread = Box
        /\ m.next = Off.next /\ m.postings = Off.postings /\ m.foundIn = Off.foundIn
    BY <1>2, OffProperties DEF Process
  <1> HIDE DEF m
  <1>4. side' \in [Sidecar -> Process] /\ Others(p) /\ side'[p] = m
    BY <1>1, <1>3, BecomesProperties DEF SideInv
  <1>5. QED
    BY <1>1, <1>3, <1>4, OffProperties

\* The box that ReadChanges reads, and what of it changed after the cursor.
LEMMA ReadChangesProperties ==
  ASSUME ClockInv, SideInv, NEW p \in Sidecar, ReadChanges(p)
  PROVE  \E b \in Box, next \in Past :
           /\ b \in side[p].unread
           /\ next = now \/ next = 0
           /\ side' \in [Sidecar -> Process] /\ Others(p)
           /\ side[p].at = "reading"
           /\ side'[p].at = IF side[p].unread = {b} THEN "hydrating" ELSE "reading"
           /\ side'[p].cursor = side[p].cursor
           /\ side'[p].unread = side[p].unread \ {b}
           /\ side'[p].next = [side[p].next EXCEPT ![b] = next]
           /\ side[p].postings \subseteq side'[p].postings
           /\ \A t \in Thread : changed[b][t] > side[p].cursor[b] /\ b \in boxesOf[t] =>
                <<b, t>> \in side'[p].postings
           /\ \A bt \in side'[p].postings : bt \in side[p].postings \/ bt[1] \in boxesOf[bt[2]]
           /\ side'[p].foundIn = side[p].foundIn
  <1> DEFINE s     == side[p]
             b     == CHOOSE c \in s.unread : \A d \in s.unread : c <= d
             fresh == {t \in Thread : changed[b][t] > s.cursor[b]}
             live  == {t \in fresh : b \in boxesOf[t]}
             more  == {<<b, t>> : t \in live}
             k     == IF s.unread = {b} THEN "hydrating" ELSE "reading"
  <1>1. s \in Process /\ s.at = "reading" /\ s.unread # {}
    BY DEF ReadChanges, SideInv, SideSound
  <1>2. PICK next \in (IF fresh = {} THEN {0, now} ELSE {now}) :
          Becomes(p, [s EXCEPT !.next[b] = next, !.unread = @ \ {b},
                               !.postings = @ \cup more, !.at = k])
    BY DEF ReadChanges
  <1>3. next = now \/ next = 0
    BY <1>2
  <1>4. \A t \in Thread : changed[b][t] > s.cursor[b] /\ b \in boxesOf[t] => <<b, t>> \in more
    OBVIOUS
  <1>5. live \subseteq Thread /\ \A t \in live : b \in boxesOf[t]
    OBVIOUS
  <1>6. k \in Stage
    BY DEF Stage
  <1> HIDE DEF s
  <1>7. /\ s.unread \in SUBSET Nat /\ s.unread \subseteq Box /\ s.next \in [Box -> Past]
        /\ s.postings \subseteq Box \X Thread
    BY <1>1, ConstantsAssumption DEF Process, Box
  <1>8. b \in s.unread
    BY <1>1, <1>7, LeastNumber
  <1> HIDE DEF b, fresh, live, k
  <1>9. b \in Box
    BY <1>7, <1>8
  <1>10. more \subseteq Box \X Thread /\ \A bt \in more : bt[1] \in boxesOf[bt[2]]
    BY <1>5, <1>9
  <1> HIDE DEF more
  <1>11. next \in Past
    BY <1>3 DEF ClockInv, Past
  <1> DEFINE n == [s.next EXCEPT ![b] = next]
             m == [s EXCEPT !.next = n, !.unread = s.unread \ {b},
                            !.postings = s.postings \cup more, !.at = k]
  <1>12. Becomes(p, m)
    BY <1>2
  <1>13. n \in [Box -> Past]
    BY <1>7, <1>11
  <1> HIDE DEF n
  <1>14. /\ m \in Process /\ m.at = k /\ m.cursor = s.cursor /\ m.unread = s.unread \ {b}
         /\ m.next = n /\ m.postings = s.postings \cup more /\ m.foundIn = s.foundIn
    BY <1>1, <1>6, <1>7, <1>10, <1>13 DEF Process
  <1> HIDE DEF m
  <1>15. side' \in [Sidecar -> Process] /\ Others(p) /\ side'[p] = m
    BY <1>12, <1>14, BecomesProperties DEF SideInv
  <1>16. side'[p].next = [s.next EXCEPT ![b] = next]
    BY <1>14, <1>15 DEF n
  <1>17. side'[p].at = IF s.unread = {b} THEN "hydrating" ELSE "reading"
    BY <1>14, <1>15 DEF k
  <1>18. /\ \A t \in Thread : changed[b][t] > s.cursor[b] /\ b \in boxesOf[t] =>
               <<b, t>> \in side'[p].postings
         /\ \A bt \in side'[p].postings : bt \in s.postings \/ bt[1] \in boxesOf[bt[2]]
    BY <1>4, <1>10, <1>14, <1>15
  <1>19. QED
    BY <1>1, <1>3, <1>8, <1>9, <1>11, <1>14, <1>15, <1>16, <1>17, <1>18 DEF s

\* Hydrating a posting takes the thread's entries after the cursor into the memory.
LEMMA HydrateProperties ==
  ASSUME SideInv, NEW p \in Sidecar, Hydrate(p)
  PROVE  \E bt \in side[p].postings :
           LET found == {e \in Event : ThreadOf[e] = bt[2] /\ created[e] > side[p].cursor[bt[1]]}
           IN
           /\ side' \in [Sidecar -> Process] /\ Others(p)
           /\ side[p].at = "hydrating" /\ side'[p].at = "hydrating"
           /\ side'[p].cursor = side[p].cursor /\ side'[p].next = side[p].next
           /\ side'[p].postings = side[p].postings \ {bt}
           /\ \A e \in Event : side'[p].foundIn[e] =
                IF e \in found THEN side[p].foundIn[e] \cup {bt[1]} ELSE side[p].foundIn[e]
  <1> DEFINE s == side[p]
             found(bt) == {e \in Event : ThreadOf[e] = bt[2] /\ created[e] > s.cursor[bt[1]]}
             with(bt) == [e \in Event |-> IF e \in found(bt) THEN s.foundIn[e] \cup {bt[1]}
                                                           ELSE s.foundIn[e]]
  <1>1. s \in Process /\ s.at = "hydrating"
    BY DEF SideInv, Hydrate
  <1>2. PICK bt \in s.postings :
          Becomes(p, [s EXCEPT !.postings = s.postings \ {bt}, !.foundIn = with(bt)])
    BY DEF Hydrate
  <1> DEFINE w == with(bt)
  <1> HIDE DEF s
  <1>3. s.foundIn \in [Event -> SUBSET Box] /\ bt[1] \in Box
    BY <1>1, <1>2 DEF Process
  <1>4. w \in [Event -> SUBSET Box]
    BY <1>3
  <1>5. \A e \in Event : w[e] = IF e \in found(bt) THEN s.foundIn[e] \cup {bt[1]} ELSE s.foundIn[e]
    OBVIOUS
  <1> DEFINE m == [s EXCEPT !.postings = s.postings \ {bt}, !.foundIn = w]
  <1>6. Becomes(p, m)
    BY <1>2
  <1> HIDE DEF w, with
  <1>7. /\ m \in Process /\ m.at = s.at /\ m.cursor = s.cursor /\ m.next = s.next
        /\ m.postings = s.postings \ {bt} /\ m.foundIn = w
    BY <1>1, <1>4 DEF Process
  <1> HIDE DEF m
  <1>8. side' \in [Sidecar -> Process] /\ Others(p) /\ side'[p] = m
    BY <1>6, <1>7, BecomesProperties DEF SideInv
  <1>9. QED
    BY <1>1, <1>2, <1>5, <1>7, <1>8 DEF s

\* Boxes that are through move on to their next cursor, the others stay.
LEMMA AdvancedProperties ==
  ASSUME NEW old \in [Box -> Past], NEW next \in [Box -> Past], NEW left \in [Event -> SUBSET Box]
  PROVE  /\ Advanced(old, next, left) \in [Box -> Past]
         /\ \A b \in Box :
              \/ Advanced(old, next, left)[b] = old[b]
              \/ /\ Advanced(old, next, left)[b] = next[b] /\ next[b] # 0
                 /\ \A e \in Event : b \notin left[e]
  BY DEF Advanced, Through

\* Before the first frame, the quiet boxes move on.
LEMMA SaveQuietProperties ==
  ASSUME ClockInv, SideInv, NEW p \in Sidecar, SaveQuiet(p)
  PROVE  LET moved == Advanced(side[p].cursor, side[p].next, side[p].foundIn) IN
         /\ side' \in [Sidecar -> Process] /\ Others(p)
         /\ side[p].at = "quiet"
         /\ side'[p].at = IF Left(side[p].foundIn) THEN "emitting" ELSE "idle"
         /\ side'[p].cursor = moved /\ side'[p].next = side[p].next
         /\ side'[p].postings = side[p].postings /\ side'[p].foundIn = side[p].foundIn
         /\ cursor' \in [Box -> Past] /\ cursor' \in {moved, cursor}
  <1> DEFINE s == side[p]
             moved == Advanced(s.cursor, s.next, s.foundIn)
             k == IF Left(s.foundIn) THEN "emitting" ELSE "idle"
             m == [s EXCEPT !.cursor = moved, !.at = k]
  <1>1. Becomes(p, m) /\ s.at = "quiet" /\ cursor' \in {moved, cursor}
    BY DEF SaveQuiet
  <1>2. s \in Process /\ cursor \in [Box -> Past]
    BY DEF SideInv, ClockInv
  <1>3. k \in Stage
    BY DEF Stage
  <1> HIDE DEF s, k
  <1>4. moved \in [Box -> Past]
    <2>1. s.cursor \in [Box -> Past] /\ s.next \in [Box -> Past]
        /\ s.foundIn \in [Event -> SUBSET Box]
      BY <1>2 DEF Process
    <2>2. QED
      BY <2>1, AdvancedProperties
  <1> HIDE DEF moved
  <1>5. /\ m \in Process /\ m.at = k /\ m.cursor = moved /\ m.next = s.next
        /\ m.postings = s.postings /\ m.foundIn = s.foundIn
    BY <1>2, <1>3, <1>4 DEF Process
  <1> HIDE DEF m
  <1>6. side' \in [Sidecar -> Process] /\ Others(p) /\ side'[p] = m
    BY <1>1, <1>5, BecomesProperties DEF SideInv
  <1>7. QED
    BY <1>1, <1>2, <1>4, <1>5, <1>6 DEF s, k, moved

\* There is one oldest event among those that are left.
LEMMA OldestProperties ==
  ASSUME ClockInv, SideInv, NEW p \in Sidecar, Left(side[p].foundIn)
  PROVE  /\ Oldest(p) \in Event /\ IsOldest(p, Oldest(p))
         /\ \A e \in Event : IsOldest(p, e) => e = Oldest(p)
  <1> DEFINE here == {e \in Event : side[p].foundIn[e] # {}}
             times == {created[e] : e \in here}
  <1>1. here # {} /\ here \subseteq Event
    BY DEF Left
  <1>2. \A e \in Event : created[e] \in Nat
    BY DEF ClockInv, Past
  <1>3. times \in SUBSET Nat /\ times # {}
    BY <1>1, <1>2
  <1> DEFINE least == CHOOSE n \in times : \A k \in times : n <= k
  <1>4. least \in times /\ \A k \in times : least <= k
    BY <1>3, LeastNumber
  <1>5. PICK e \in here : created[e] = least
    BY <1>4
  <1> HIDE DEF least
  <1>6. \A f \in here : created[e] <= created[f]
    BY <1>4, <1>5
  <1>7. IsOldest(p, e)
    BY <1>5, <1>6 DEF IsOldest
  <1>8. Oldest(p) \in Event /\ IsOldest(p, Oldest(p))
    BY <1>5, <1>7 DEF Oldest, IsOldest
  <1>9. ASSUME NEW f \in Event, NEW g \in Event, IsOldest(p, f), IsOldest(p, g) PROVE f = g
    <2>1. created[f] <= created[g] /\ created[g] <= created[f]
      BY <1>9 DEF IsOldest
    <2>2. created[f] = created[g] /\ created[f] > 0
      BY <1>2, <1>9, <2>1 DEF IsOldest, SideInv, SideSound
    <2>3. QED
      BY <2>2 DEF ClockInv
  <1>10. QED
    BY <1>8, <1>9

\* An acknowledgement takes the oldest event out of the memory.
LEMMA AckedProperties ==
  ASSUME ClockInv, SideInv, NEW p \in Sidecar, Acked(p)
  PROVE  LET left  == [side[p].foundIn EXCEPT ![Oldest(p)] = {}]
             moved == Advanced(side[p].cursor, side[p].next, left)
         IN
         /\ side' \in [Sidecar -> Process] /\ Others(p)
         /\ side[p].at = "acked"
         /\ side'[p].at = IF Left(left) THEN "emitting" ELSE "idle"
         /\ left \in [Event -> SUBSET Box]
         /\ side'[p].cursor = moved /\ side'[p].next = side[p].next
         /\ side'[p].postings = side[p].postings /\ side'[p].foundIn = left
         /\ cursor' \in [Box -> Past] /\ cursor' \in {moved, cursor}
  <1> DEFINE s == side[p]
             left == [s.foundIn EXCEPT ![Oldest(p)] = {}]
             moved == Advanced(s.cursor, s.next, left)
             k == IF Left(left) THEN "emitting" ELSE "idle"
             m == [s EXCEPT !.foundIn = left, !.cursor = moved, !.at = k]
  <1>1. Becomes(p, m) /\ s.at = "acked" /\ cursor' \in {moved, cursor}
    BY DEF Acked
  <1>2. s \in Process /\ cursor \in [Box -> Past]
    BY DEF SideInv, ClockInv
  <1>3. k \in Stage
    BY DEF Stage
  <1> HIDE DEF s, k
  <1>4. s.cursor \in [Box -> Past] /\ s.next \in [Box -> Past]
        /\ s.foundIn \in [Event -> SUBSET Box]
    BY <1>2 DEF Process
  <1>5. left \in [Event -> SUBSET Box]
    BY <1>4
  <1> HIDE DEF left
  <1>6. moved \in [Box -> Past]
    BY <1>4, <1>5, AdvancedProperties
  <1> HIDE DEF moved
  <1>7. /\ m \in Process /\ m.at = k /\ m.cursor = moved /\ m.next = s.next
        /\ m.postings = s.postings /\ m.foundIn = left
    BY <1>2, <1>3, <1>5, <1>6 DEF Process
  <1> HIDE DEF m
  <1>8. side' \in [Sidecar -> Process] /\ Others(p) /\ side'[p] = m
    BY <1>1, <1>7, BecomesProperties DEF SideInv
  <1>9. QED
    BY <1>1, <1>2, <1>5, <1>6, <1>7, <1>8 DEF s, k, left, moved
-----------------------------------------------------------------------------
(* The clock, the processes and the plugin.                                *)

\* A step that leaves HEY alone may write cursors of the past.
LEMMA ClockKept ==
  ASSUME ClockInv, UNCHANGED hey, failures' \in 0..MaxFailures,
         cursor' \in [Box -> Past], floor' \in [Box -> Past]
  PROVE  ClockInv'
  BY DEF ClockInv, hey, Past, Arrived

\* A step of one process leaves the others' memories sound.
LEMMA SideKept ==
  ASSUME SideInv, UNCHANGED hey, NEW p \in Sidecar, side' \in [Sidecar -> Process], Others(p),
         SideSound(p)'
  PROVE  SideInv'
  <1>1. Process' = Process
    BY DEF Process, Past, hey
  <1>2. ASSUME NEW q \in Sidecar, q # p PROVE SideSound(q)'
    <2>1. SideSound(q) /\ side'[q] = side[q]
      BY <1>2 DEF SideInv, Others
    <2>2. QED
      BY <2>1 DEF SideSound, hey
  <1>3. QED
    BY <1>1, <1>2 DEF SideInv

\* A step of a process outside the exchange with the plugin.
LEMMA PluginKept ==
  ASSUME PluginInv, UNCHANGED <<hey, plugin>>, NEW p \in Sidecar, Others(p),
         side[p].at \notin {"waiting", "off"} \/ side'[p].at = "off",
         side'[p].at \notin {"waiting", "acked"}
  PROVE  PluginInv'
  <1>1. ASSUME NEW q \in Sidecar, q # p PROVE \A e \in Event : IsOldest(q, e)' <=> IsOldest(q, e)
    BY <1>1 DEF IsOldest, Others, hey
  <1>2. frame' # None \/ handling' # NotHandling =>
          watching' # None /\ side'[watching'].at \in {"waiting", "off"}
    BY DEF PluginInv, Others, plugin
  <1>3. watching' # None /\ side'[watching'].at = "waiting" =>
          \A e \in Event : e = frame' \/ e = handling'.event => IsOldest(watching, e)'
    BY <1>1 DEF PluginInv, Others, plugin
  <1>4. \A q \in Sidecar : side'[q].at = "acked" =>
          \A e \in Event : IsOldest(q, e)' => e \in Settled'
    BY <1>1 DEF PluginInv, Others, plugin, Settled
  <1>5. QED
    BY <1>2, <1>3, <1>4 DEF PluginInv, plugin, Settled, IsOldest

\* The three together, for a step of one process outside that exchange.
LEMMA BaseKept ==
  ASSUME BaseInv, UNCHANGED <<hey, plugin>>, failures' \in 0..MaxFailures,
         cursor' \in [Box -> Past], floor' \in [Box -> Past],
         NEW p \in Sidecar, side' \in [Sidecar -> Process], Others(p), SideSound(p)',
         side[p].at \notin {"waiting", "off"} \/ side'[p].at = "off",
         side'[p].at \notin {"waiting", "acked"}
  PROVE  BaseInv'
  BY ClockKept, SideKept, PluginKept DEF BaseInv

\* HEY's steps: its clock goes on, and the rest stays as it is.
LEMMA HEYKeepsBase ==
  ASSUME BaseInv, HEY PROVE BaseInv'
  <1>1. now' = now + 1 /\ UNCHANGED <<cursor, floor, side, plugin, failures>>
    BY DEF HEY, Arrive, Move
  <1>2. now \in Nat
    BY DEF BaseInv, ClockInv
  <1>3. Past \subseteq Past' /\ now + 1 \in Past'
    BY <1>1, <1>2 DEF Past
  <1>4. ClockInv'
    <2>1. CASE \E e \in Event : Arrive(e)
      <3>1. PICK e \in Event : Arrive(e)
        BY <2>1
      <3> DEFINE t == ThreadOf[e]
      <3>2. /\ created[e] = 0 /\ created' = [created EXCEPT ![e] = now + 1]
            /\ changed' = [b \in Box |-> IF b \in boxesOf[t] THEN [changed[b] EXCEPT ![t] = now + 1]
                                                             ELSE changed[b]]
            /\ UNCHANGED <<boxesOf, moves>>
        BY <3>1 DEF Arrive
      <3>3. t \in Thread
        BY ConstantsAssumption
      <3>4. created \in [Event -> Past] /\ changed \in [Box -> [Thread -> Past]]
        BY DEF BaseInv, ClockInv
      <3>5. created' \in [Event -> Past'] /\ \A f \in Event : created[f] \in 0..now
        BY <1>3, <3>2, <3>4 DEF Past
      <3>6. changed' \in [Box -> [Thread -> Past']]
        <4>1. ASSUME NEW b \in Box PROVE changed'[b] \in [Thread -> Past']
          <5> DEFINE row == changed[b]
          <5>1. row \in [Thread -> Past]
            BY <3>4
          <5>2. changed'[b] = IF b \in boxesOf[t] THEN [row EXCEPT ![t] = now + 1] ELSE row
            BY <3>2
          <5> HIDE DEF row, t
          <5>3. QED
            BY <1>3, <3>3, <5>1, <5>2
        <4>2. QED
          BY <3>2, <4>1
      <3>7. /\ Arrived' = Arrived \cup {e} /\ e \notin Arrived
            /\ Cardinality(Arrived') = Cardinality(Arrived) + 1
        <4>1. Arrived' = Arrived \cup {e} /\ e \notin Arrived
          BY <1>2, <3>2, <3>5 DEF Arrived
        <4>2. IsFiniteSet(Arrived)
          BY FS_Subset, ConstantsAssumption DEF Arrived
        <4>3. QED
          BY <4>1, <4>2, FS_AddElement
      <3>8. now' = 1 + Cardinality(Arrived') + moves' /\ now' \in Nat
        <4>1. Cardinality(Arrived) \in Nat
          BY FS_Subset, FS_CardinalityType, ConstantsAssumption DEF Arrived
        <4>2. now = 1 + Cardinality(Arrived) + moves /\ moves \in 0..MaxMoves
          BY DEF BaseInv, ClockInv
        <4>3. now' = now + 1 /\ moves' = moves /\ MaxMoves \in Nat
          BY <1>1, <3>2, ConstantsAssumption
        <4>4. QED
          BY <1>2, <3>7, <4>1, <4>2, <4>3
      <3>9. \A f, g \in Event : created'[f] = created'[g] /\ created'[f] > 0 => f = g
        BY <1>2, <3>2, <3>5 DEF BaseInv, ClockInv
      <3>10. \A f \in Event : \A b \in boxesOf'[ThreadOf[f]] :
               changed'[b][ThreadOf[f]] >= created'[f]
        <4>1. ASSUME NEW f \in Event, NEW b \in boxesOf[ThreadOf[f]]
              PROVE  changed'[b][ThreadOf[f]] >= created'[f]
          <5> DEFINE u == ThreadOf[f]
                     row == changed[b]
          <5>1. u \in Thread /\ b \in Box
            BY ConstantsAssumption DEF BaseInv, ClockInv
          <5>2. row \in [Thread -> Past] /\ row[u] \in 0..now
            BY <3>4, <5>1 DEF Past
          <5>3. changed'[b] = IF b \in boxesOf[t] THEN [row EXCEPT ![t] = now + 1] ELSE row
            BY <3>2, <5>1
          <5>4. row[u] >= created[f]
            BY DEF BaseInv, ClockInv
          <5>5. f = e => u = t /\ b \in boxesOf[t]
            OBVIOUS
          <5> HIDE DEF row, u, t
          <5>6. created'[f] = IF f = e THEN now + 1 ELSE created[f]
            BY <3>2, <3>4
          <5>7. /\ changed'[b][u] \in {row[u], now + 1}
                /\ f = e => changed'[b][u] = now + 1
            BY <3>3, <5>1, <5>2, <5>3, <5>5
          <5>8. changed'[b][u] >= created'[f]
            BY <1>2, <3>5, <5>2, <5>4, <5>6, <5>7
          <5>9. QED
            BY <5>8 DEF u
        <4>2. QED
          BY <3>2, <4>1
      <3>11. QED
        BY <1>1, <1>3, <3>2, <3>5, <3>6, <3>8, <3>9, <3>10 DEF BaseInv, ClockInv
    <2>2. CASE \E t \in Thread : Move(t)
      <3>1. PICK t \in Thread : Move(t)
        BY <2>2
      <3>2. PICK from \in boxesOf[t], to \in Box \ boxesOf[t] :
              /\ boxesOf' = [boxesOf EXCEPT ![t] = (boxesOf[t] \ {from}) \cup {to}]
              /\ changed' = [changed EXCEPT ![from][t] = now + 1, ![to][t] = now + 1]
        BY <3>1 DEF Move
      <3>3. moves < MaxMoves /\ moves' = moves + 1 /\ created' = created
        BY <3>1 DEF Move
      <3>4. /\ created \in [Event -> Past] /\ changed \in [Box -> [Thread -> Past]]
            /\ boxesOf \in [Thread -> (SUBSET Box) \ {{}}] /\ moves \in 0..MaxMoves
        BY DEF BaseInv, ClockInv
      <3>5. from # to /\ from \in Box /\ to \in Box
        BY <3>2, <3>4
      <3>6. /\ changed' \in [Box -> [Thread -> Past']]
            /\ \A b \in Box, u \in Thread :
                 changed'[b][u] = IF u = t /\ b \in {from, to} THEN now + 1 ELSE changed[b][u]
        <4> DEFINE one == [changed EXCEPT ![from] = [changed[from] EXCEPT ![t] = now + 1]]
                   two == [one EXCEPT ![to] = [one[to] EXCEPT ![t] = now + 1]]
        <4>1. changed' = two
          BY <3>2
        <4>2. one \in [Box -> [Thread -> Past']]
              /\ \A b \in Box, u \in Thread :
                   one[b][u] = IF u = t /\ b = from THEN now + 1 ELSE changed[b][u]
          BY <1>3, <3>4, <3>5
        <4> HIDE DEF one
        <4>3. two \in [Box -> [Thread -> Past']]
              /\ \A b \in Box, u \in Thread :
                   two[b][u] = IF u = t /\ b = to THEN now + 1 ELSE one[b][u]
          BY <1>3, <3>5, <4>2
        <4> HIDE DEF two
        <4>4. QED
          BY <4>1, <4>2, <4>3
      <3>7. boxesOf' \in [Thread -> (SUBSET Box) \ {{}}]
        BY <3>2, <3>4, <3>5
      <3>8. created' \in [Event -> Past'] /\ \A f \in Event : created[f] \in 0..now
        BY <1>3, <3>3, <3>4 DEF Past
      <3>9. now' = 1 + Cardinality(Arrived') + moves' /\ moves' \in 0..MaxMoves /\ now' \in Nat
        <4>1. Arrived' = Arrived
          BY <3>3 DEF Arrived
        <4>2. Cardinality(Arrived) \in Nat
          BY FS_Subset, FS_CardinalityType, ConstantsAssumption DEF Arrived
        <4>3. now = 1 + Cardinality(Arrived) + moves /\ now' = now + 1 /\ MaxMoves \in Nat
          BY <1>1, ConstantsAssumption DEF BaseInv, ClockInv
        <4>4. moves' = moves + 1 /\ moves < MaxMoves /\ moves \in Nat
          BY <3>3, <3>4, <4>3
        <4>5. Cardinality(Arrived') = Cardinality(Arrived)
          BY <4>1
        <4>6. QED
          BY <1>2, <4>2, <4>3, <4>4, <4>5
      <3>10. \A f \in Event : \A b \in boxesOf'[ThreadOf[f]] :
               changed'[b][ThreadOf[f]] >= created'[f]
        <4>1. ASSUME NEW f \in Event, NEW u \in Thread, u = ThreadOf[f], NEW b \in boxesOf'[u]
              PROVE  changed'[b][u] >= created'[f]
          <5>1. b \in Box
            BY <3>7, <4>1
          <5>2. (u = t /\ b = to) \/ b \in boxesOf[u]
            BY <3>2, <3>4, <4>1
          <5>3. b \in boxesOf[u] => changed[b][u] >= created[f]
            BY <4>1 DEF BaseInv, ClockInv
          <5>4. changed'[b][u] = IF u = t /\ b \in {from, to} THEN now + 1 ELSE changed[b][u]
            BY <3>6, <4>1, <5>1
          <5>5. created'[f] = created[f] /\ created[f] \in 0..now
            BY <3>3, <3>8
          <5>6. QED
            BY <1>2, <5>2, <5>3, <5>4, <5>5
        <4>2. QED
          BY <4>1, ConstantsAssumption
      <3>11. QED
        BY <1>1, <1>3, <3>3, <3>6, <3>7, <3>8, <3>9, <3>10 DEF BaseInv, ClockInv
    <2>3. QED
      BY <2>1, <2>2 DEF HEY
  <1>5. \A e \in Event : created[e] > 0 => created'[e] = created[e]
    BY <1>2 DEF HEY, Arrive, Move, BaseInv, ClockInv, Past
  <1>6. SideInv'
    <2>1. side' \in [Sidecar -> Process']
      <3>1. Process \subseteq Process'
        BY <1>3 DEF Process
      <3>2. side \in [Sidecar -> Process]
        BY DEF BaseInv, SideInv
      <3>3. QED
        BY <1>1, <3>1, <3>2
    <2>2. ASSUME NEW p \in Sidecar PROVE SideSound(p)'
      <3>1. SideSound(p)
        BY DEF BaseInv, SideInv
      <3>2. QED
        BY <1>1, <1>5, <3>1 DEF SideSound, Left
    <2>3. QED
      BY <2>1, <2>2 DEF SideInv
  <1>7. PluginInv'
    <2>1. ASSUME NEW p \in Sidecar, NEW e \in Event PROVE IsOldest(p, e)' <=> IsOldest(p, e)
      <3>1. \A f \in Event : side[p].foundIn[f] # {} => created'[f] = created[f]
        BY <1>5 DEF BaseInv, SideInv, SideSound
      <3>2. QED
        BY <1>1, <3>1 DEF IsOldest
    <2>2. QED
      BY <1>1, <2>1 DEF BaseInv, PluginInv, plugin, Settled
  <1>8. QED
    BY <1>4, <1>6, <1>7 DEF BaseInv

\* The steps of a process, one by one.
LEMMA WorksKeepsBase ==
  ASSUME BaseInv, NEW p \in Sidecar, Works(p) \/ Die(p) PROVE BaseInv'
  <1>1. ClockInv /\ SideInv /\ PluginInv /\ SideSound(p) /\ failures \in 0..MaxFailures
        /\ cursor \in [Box -> Past] /\ floor \in [Box -> Past]
    BY DEF BaseInv, ClockInv, SideInv
  <1>2. CASE Initialize(p)
    <2>1. UNCHANGED <<hey, plugin, cursor, floor, failures>>
      BY <1>2 DEF Initialize, InMemory
    <2>2. SideSound(p)' /\ side[p].at = "start" /\ side'[p].at \in {"new cursors", "idle"}
      BY <1>1, <1>2, <2>1, InitializeProperties DEF SideSound, hey
    <2>3. side' \in [Sidecar -> Process] /\ Others(p)
      BY <1>1, <1>2, InitializeProperties
    <2>4. QED
      BY <1>1, <2>1, <2>2, <2>3, BaseKept
  <1>3. CASE SaveNewCursors(p)
    <2>1. /\ UNCHANGED <<hey, plugin, failures>> /\ side[p].at = "new cursors"
          /\ cursor' = side[p].cursor
          /\ floor' = [b \in Box |-> IF floor[b] = 0 \/ side[p].cursor[b] < floor[b]
                                      THEN side[p].cursor[b] ELSE floor[b]]
          /\ Becomes(p, [side[p] EXCEPT !.at = "idle"]) /\ "idle" \in Stage
      BY <1>3 DEF SaveNewCursors, Stage
    <2>2. side[p].cursor \in [Box -> Past] /\ floor' \in [Box -> Past]
      <3>1. side[p].cursor \in [Box -> Past] /\ floor \in [Box -> Past]
        BY <1>1 DEF ClockInv, SideInv, Process
      <3>2. QED
        BY <2>1, <3>1
    <2>3. side' \in [Sidecar -> Process] /\ Others(p) /\ side'[p].at = "idle"
          /\ side'[p].foundIn = side[p].foundIn
      BY <1>1, <2>1, StageProperties
    <2>4. SideSound(p)'
      BY <1>1, <2>1, <2>3 DEF SideSound, hey
    <2>5. QED
      BY <1>1, <2>1, <2>2, <2>3, <2>4, BaseKept
  <1>4. CASE Poll(p)
    <2>1. UNCHANGED <<hey, plugin, cursor, floor, failures>>
      BY <1>4 DEF Poll, InMemory
    <2>2. side' \in [Sidecar -> Process] /\ Others(p) /\ side[p].at = "idle"
          /\ side'[p].at = "reading" /\ side'[p].unread = Box /\ \A e \in Event : side'[p].foundIn[e] = {}
      BY <1>1, <1>4, PollProperties
    <2>3. Box # {}
      BY ConstantsAssumption DEF Box
    <2>4. SideSound(p)'
      BY <2>2, <2>3 DEF SideSound
    <2>5. QED
      BY <1>1, <2>1, <2>2, <2>4, BaseKept
  <1>5. CASE ReadChanges(p)
    <2>1. UNCHANGED <<hey, plugin, cursor, floor, failures>>
      BY <1>5 DEF ReadChanges, InMemory
    <2>2. PICK b \in Box :
            /\ side' \in [Sidecar -> Process] /\ Others(p) /\ side[p].at = "reading"
            /\ side'[p].at = IF side[p].unread = {b} THEN "hydrating" ELSE "reading"
            /\ b \in side[p].unread /\ side'[p].unread = side[p].unread \ {b}
            /\ side'[p].foundIn = side[p].foundIn
      BY <1>1, <1>5, ReadChangesProperties
    <2>3. SideSound(p)'
      BY <1>1, <2>1, <2>2 DEF SideSound, hey
    <2>4. QED
      BY <1>1, <2>1, <2>2, <2>3, BaseKept
  <1>6. CASE Hydrate(p)
    <2>1. UNCHANGED <<hey, plugin, cursor, floor, failures>>
      BY <1>6 DEF Hydrate, InMemory
    <2>2. PICK bt \in side[p].postings :
            LET found == {e \in Event : ThreadOf[e] = bt[2] /\ created[e] > side[p].cursor[bt[1]]}
            IN
            /\ side' \in [Sidecar -> Process] /\ Others(p)
            /\ side[p].at = "hydrating" /\ side'[p].at = "hydrating"
            /\ \A e \in Event : side'[p].foundIn[e] =
                 IF e \in found THEN side[p].foundIn[e] \cup {bt[1]} ELSE side[p].foundIn[e]
      BY <1>1, <1>6, HydrateProperties
    <2>3. side[p].cursor[bt[1]] \in Nat
      <3>1. side[p].postings \subseteq Box \X Thread /\ side[p].cursor \in [Box -> Past]
        BY <1>1 DEF SideInv, Process
      <3>2. Past \subseteq Nat
        BY <1>1 DEF ClockInv, Past
      <3>3. QED
        BY <3>1, <3>2
    <2>4. \A e \in Event : created[e] \in Nat
      BY <1>1 DEF ClockInv, Past
    <2>5. \A e \in Event : side'[p].foundIn[e] # {} => created[e] > 0
      <3>1. ASSUME NEW e \in Event, side'[p].foundIn[e] # {} PROVE created[e] > 0
        <4>1. CASE created[e] > side[p].cursor[bt[1]]
          BY <4>1, <2>3, <2>4
        <4>2. CASE side'[p].foundIn[e] = side[p].foundIn[e]
          BY <1>1, <3>1, <4>2 DEF SideSound
        <4>3. QED
          BY <2>2, <4>1, <4>2
      <3>2. QED
        BY <3>1
    <2>6. SideSound(p)'
      BY <2>1, <2>2, <2>5 DEF SideSound, hey
    <2>7. QED
      BY <1>1, <2>1, <2>2, <2>6, BaseKept
  <1>7. CASE Hydrated(p)
    <2>1. /\ UNCHANGED <<hey, plugin, cursor, floor, failures>>
          /\ side[p].at = "hydrating" /\ side[p].postings = {}
          /\ Becomes(p, [side[p] EXCEPT !.at = "quiet"]) /\ "quiet" \in Stage
      BY <1>7 DEF Hydrated, InMemory, Stage
    <2>2. side' \in [Sidecar -> Process] /\ Others(p) /\ side'[p].at = "quiet"
          /\ side'[p].foundIn = side[p].foundIn /\ side'[p].postings = side[p].postings
      BY <1>1, <2>1, StageProperties
    <2>3. SideSound(p)'
      BY <1>1, <2>1, <2>2 DEF SideSound, hey
    <2>4. QED
      BY <1>1, <2>1, <2>2, <2>3, BaseKept
  <1>8. CASE SaveQuiet(p)
    <2>1. UNCHANGED <<hey, plugin, floor, failures>>
      BY <1>8 DEF SaveQuiet
    <2>2. /\ side' \in [Sidecar -> Process] /\ Others(p) /\ side[p].at = "quiet"
          /\ side'[p].at = IF Left(side[p].foundIn) THEN "emitting" ELSE "idle"
          /\ side'[p].postings = side[p].postings /\ side'[p].foundIn = side[p].foundIn
          /\ cursor' \in [Box -> Past]
      BY <1>1, <1>8, SaveQuietProperties
    <2>3. SideSound(p)'
      BY <1>1, <2>1, <2>2 DEF SideSound, hey
    <2>4. QED
      BY <1>1, <2>1, <2>2, <2>3, BaseKept
  <1>9. CASE Emit(p)
    <2>1. /\ UNCHANGED <<hey, cursor, floor, watching, handling, queued, failures>>
          /\ side[p].at = "emitting" /\ watching = p /\ frame' = Oldest(p)
          /\ Becomes(p, [side[p] EXCEPT !.at = "waiting"]) /\ "waiting" \in Stage
      BY <1>9 DEF Emit, Stage
    <2>2. side' \in [Sidecar -> Process] /\ Others(p) /\ side'[p].at = "waiting"
          /\ side'[p].foundIn = side[p].foundIn /\ side'[p].postings = side[p].postings
      BY <1>1, <2>1, StageProperties
    <2>3. SideSound(p)'
      BY <1>1, <2>1, <2>2 DEF SideSound, hey
    <2>4. ClockInv' /\ SideInv'
      BY <1>1, <2>1, <2>2, <2>3, ClockKept, SideKept
    <2>5. frame = None /\ handling = NotHandling
      BY <1>1, <2>1, ConstantsAssumption DEF PluginInv
    <2>6. Oldest(p) \in Event /\ IsOldest(p, Oldest(p))
      BY <1>1, <2>1, OldestProperties DEF SideSound
    <2>7. \A q \in Sidecar, e \in Event : IsOldest(q, e)' <=> IsOldest(q, e)
      BY <2>1, <2>2 DEF IsOldest, Others, hey
    <2>8. \A e \in Event : e = frame' \/ e = handling'.event => IsOldest(p, e)'
      BY <2>1, <2>5, <2>6, <2>7, ConstantsAssumption DEF NotHandling
    <2>9. \A q \in Sidecar : side'[q].at = "acked" =>
            \A e \in Event : IsOldest(q, e)' => e \in Settled'
      BY <1>1, <2>1, <2>2, <2>7 DEF PluginInv, Others, Settled
    <2>10. PluginInv'
      BY <1>1, <2>1, <2>2, <2>5, <2>6, <2>8, <2>9, ConstantsAssumption DEF PluginInv, Settled, NotHandling
    <2>11. QED
      BY <2>4, <2>10 DEF BaseInv
  <1>10. CASE Acked(p)
    <2>1. UNCHANGED <<hey, plugin, floor, failures>>
      BY <1>10 DEF Acked
    <2> DEFINE left == [side[p].foundIn EXCEPT ![Oldest(p)] = {}]
    <2>2. /\ side' \in [Sidecar -> Process] /\ Others(p) /\ side[p].at = "acked"
          /\ side'[p].at = IF Left(left) THEN "emitting" ELSE "idle"
          /\ side'[p].postings = side[p].postings /\ side'[p].foundIn = left
          /\ cursor' \in [Box -> Past]
      BY <1>1, <1>10, AckedProperties
    <2>3. side[p].foundIn \in [Event -> SUBSET Box]
      BY <1>1 DEF SideInv, Process
    <2>4. \A e \in Event : left[e] # {} => side[p].foundIn[e] # {}
      BY <2>3
    <2> HIDE DEF left
    <2>5. SideSound(p)'
      BY <1>1, <2>1, <2>2, <2>4 DEF SideSound, hey
    <2>6. QED
      BY <1>1, <2>1, <2>2, <2>5, BaseKept
  <1>11. CASE PipesClosed(p) \/ Die(p)
    <2>1. /\ UNCHANGED <<hey, plugin, cursor, floor>> /\ failures' \in 0..MaxFailures
          /\ Becomes(p, Off)
      <3>1. failures < MaxFailures /\ failures' = failures + 1 => failures' \in 0..MaxFailures
        BY <1>1, ConstantsAssumption
      <3>2. QED
        BY <1>1, <1>11, <3>1 DEF PipesClosed, Die, InMemory, CountFailure
    <2>2. side' \in [Sidecar -> Process] /\ Others(p) /\ side'[p] = Off
      BY <1>1, <2>1, BecomesProperties, OffProperties DEF SideInv
    <2>3. SideSound(p)'
      BY <1>1, <2>2, OffProperties DEF SideSound
    <2>4. QED
      BY <1>1, <2>1, <2>2, <2>3, BaseKept, OffProperties
  <1>12. QED
    BY <1>2, <1>3, <1>4, <1>5, <1>6, <1>7, <1>8, <1>9, <1>10, <1>11 DEF Works

\* What the plugin holds may change, and where the process stands that it reads from.
LEMMA PluginKeepsBase ==
  ASSUME BaseInv, Plugin \/ StopWatch \/ GatewayCrash PROVE BaseInv'
  <1>1. /\ ClockInv /\ SideInv /\ PluginInv /\ failures \in 0..MaxFailures
        /\ cursor \in [Box -> Past] /\ floor \in [Box -> Past]
    BY DEF BaseInv, ClockInv
  <1>2. ASSUME UNCHANGED <<hey, cursor, floor>>, failures' \in 0..MaxFailures PROVE ClockInv'
    BY <1>1, <1>2, ClockKept
  <1>3. ASSUME UNCHANGED <<hey, side>> PROVE SideInv'
    <2>1. Process' = Process
      BY <1>3 DEF Process, Past, hey
    <2>2. \A p \in Sidecar : SideSound(p)'
      BY <1>1, <1>3 DEF SideInv, SideSound, hey
    <2>3. QED
      BY <1>1, <1>3, <2>1, <2>2 DEF SideInv
  <1>4. ASSUME UNCHANGED <<hey, side>>
        PROVE  \A p \in Sidecar, e \in Event : IsOldest(p, e)' <=> IsOldest(p, e)
    BY <1>4 DEF IsOldest, hey
  <1>5. failures < MaxFailures /\ failures' = failures + 1 => failures' \in 0..MaxFailures
    BY <1>1, ConstantsAssumption
  <1>6. handling \in [event : Event \cup {None}, step : {"none", "ingest", "ack"}]
        /\ (handling.step = "none" <=> handling.event = None)
    BY <1>1 DEF PluginInv
  <1>7. CASE ReadFrame
    <2>1. /\ UNCHANGED <<hey, cursor, floor, side, watching, queued, failures>>
          /\ frame \in Event /\ frame' = None /\ handling = NotHandling
          /\ handling' = [event |-> frame, step |-> "ingest"]
      BY <1>1, <1>7 DEF ReadFrame, PluginInv
    <2>2. handling' # NotHandling /\ handling'.event = frame /\ handling'.step = "ingest"
      BY <2>1, ConstantsAssumption DEF NotHandling
    <2>3. PluginInv'
      BY <1>1, <1>4, <2>1, <2>2, ConstantsAssumption DEF PluginInv, Settled
    <2>4. QED
      BY <1>1, <1>2, <1>3, <2>1, <2>3 DEF BaseInv
  <1>8. CASE Ingest
    <2>1. /\ UNCHANGED <<hey, cursor, floor, side, watching, frame, failures>>
          /\ handling.step = "ingest"
          /\ queued' = IF handling.event \in Settled THEN queued ELSE Append(queued, handling.event)
          /\ handling' = [handling EXCEPT !.step = "ack"]
      BY <1>8 DEF Ingest
    <2>2. handling.event \in Event /\ handling # NotHandling /\ frame = None
      BY <1>1, <1>6, <2>1 DEF PluginInv, NotHandling
    <2>3. handling' = [event |-> handling.event, step |-> "ack"]
      BY <1>6, <2>1
    <2>4. handling' # NotHandling /\ handling'.event = handling.event /\ handling'.step = "ack"
      BY <2>3 DEF NotHandling
    <2>5. queued \in Seq(Event)
      BY <1>1 DEF PluginInv
    <2>6. queued' \in Seq(Event) /\ Settled' = Settled \cup {handling.event}
      <3>1. CASE handling.event \in Settled
        BY <2>1, <2>5, <3>1 DEF Settled
      <3>2. CASE handling.event \notin Settled
        <4>1. queued' = Append(queued, handling.event)
          BY <2>1, <3>2
        <4>2. Range(Append(queued, handling.event)) = Range(queued) \cup {handling.event}
          BY <2>2, <2>5, AppendRange
        <4>3. QED
          BY <2>2, <2>5, <4>1, <4>2 DEF Settled
      <3>3. QED
        BY <3>1, <3>2
    <2>7. \A p \in Sidecar, e \in Event : IsOldest(p, e)' <=> IsOldest(p, e)
      BY <1>4, <2>1
    <2>8. PluginInv'
      BY <1>1, <2>1, <2>2, <2>3, <2>4, <2>6, <2>7 DEF PluginInv
    <2>9. QED
      BY <1>1, <1>2, <1>3, <2>1, <2>8 DEF BaseInv
  <1>9. CASE SendAck
    <2>1. /\ UNCHANGED <<hey, cursor, floor, watching, frame, queued, failures>>
          /\ handling.step = "ack" /\ handling' = NotHandling
          /\ IF side[watching].at = "waiting"
             THEN Becomes(watching, [side[watching] EXCEPT !.at = "acked"])
             ELSE UNCHANGED side
      BY <1>9 DEF SendAck
    <2>2. /\ handling.event \in Event /\ handling # NotHandling /\ frame = None
          /\ watching \in Sidecar /\ side[watching].at \in {"waiting", "off"}
          /\ handling.event \in Settled
      BY <1>1, <1>6, <2>1 DEF PluginInv, NotHandling
    <2>3. NotHandling.event = None /\ NotHandling.step = "none"
          /\ NotHandling \in [event : Event \cup {None}, step : {"none", "ingest", "ack"}]
      BY DEF NotHandling
    <2>4. CASE side[watching].at = "off"
      <3>1. UNCHANGED side
        BY <2>1, <2>4
      <3>2. \A p \in Sidecar, e \in Event : IsOldest(p, e)' <=> IsOldest(p, e)
        BY <1>4, <2>1, <3>1
      <3>3. PluginInv'
        BY <1>1, <2>1, <2>2, <2>3, <2>4, <3>1, <3>2, ConstantsAssumption DEF PluginInv, Settled
      <3>4. QED
        BY <1>1, <1>2, <1>3, <2>1, <3>1, <3>3 DEF BaseInv
    <2>5. CASE side[watching].at = "waiting"
      <3> DEFINE p == watching
      <3>1. Becomes(p, [side[p] EXCEPT !.at = "acked"]) /\ "acked" \in Stage
        BY <2>1, <2>5 DEF Stage
      <3>2. side' \in [Sidecar -> Process] /\ Others(p) /\ side'[p].at = "acked"
            /\ side'[p].foundIn = side[p].foundIn /\ side'[p].postings = side[p].postings
        BY <1>1, <2>2, <3>1, StageProperties
      <3>3. SideSound(p)'
        <4>1. SideSound(p)
          BY <1>1, <2>2 DEF SideInv
        <4>2. QED
          BY <2>1, <2>5, <3>2, <4>1 DEF SideSound, hey
      <3>4. SideInv'
        <4>1. ASSUME NEW q \in Sidecar, q = watching PROVE SideInv'
          BY <1>1, <2>1, <3>2, <3>3, <4>1, SideKept
        <4>2. QED
          BY <2>2, <4>1
      <3>5. \A q \in Sidecar, e \in Event : IsOldest(q, e)' <=> IsOldest(q, e)
        BY <2>1, <3>2 DEF IsOldest, Others, hey
      <3>6. \A e \in Event : IsOldest(p, e) => e = handling.event
        <4>1. IsOldest(p, handling.event)
          BY <1>1, <2>2, <2>5 DEF PluginInv
        <4>2. Left(side[p].foundIn)
          BY <2>2, <4>1 DEF IsOldest, Left
        <4>3. QED
          BY <1>1, <2>2, <4>1, <4>2, OldestProperties
      <3>7. PluginInv'
        BY <1>1, <2>1, <2>2, <2>3, <3>2, <3>5, <3>6, ConstantsAssumption DEF PluginInv, Settled, Others
      <3>8. QED
        BY <1>1, <1>2, <2>1, <3>4, <3>7 DEF BaseInv
    <2>6. QED
      BY <2>2, <2>4, <2>5
  <1>10. CASE WatchEnds \/ GatewayCrash
    <2>1. /\ UNCHANGED <<hey, cursor, floor, side, queued>> /\ failures' \in 0..MaxFailures
          /\ watching' = None /\ frame' = None /\ handling' = NotHandling
      BY <1>1, <1>5, <1>10 DEF WatchEnds, GatewayCrash, CountFailure
    <2>2. NotHandling.event = None /\ NotHandling.step = "none"
          /\ NotHandling \in [event : Event \cup {None}, step : {"none", "ingest", "ack"}]
      BY DEF NotHandling
    <2>3. \A p \in Sidecar, e \in Event : IsOldest(p, e)' <=> IsOldest(p, e)
      BY <1>4, <2>1
    <2>4. PluginInv'
      BY <1>1, <2>1, <2>2, <2>3, ConstantsAssumption DEF PluginInv, Settled
    <2>5. QED
      BY <1>2, <1>3, <2>1, <2>4 DEF BaseInv
  <1>11. CASE StopWatch
    <2>1. /\ UNCHANGED <<hey, cursor, floor, queued>> /\ failures' \in 0..MaxFailures
          /\ watching \in Sidecar /\ Becomes(watching, Off)
          /\ watching' = None /\ frame' = None /\ handling' = NotHandling
      BY <1>1, <1>5, <1>11 DEF StopWatch, CountFailure, PluginInv
    <2>2. NotHandling.event = None /\ NotHandling.step = "none"
          /\ NotHandling \in [event : Event \cup {None}, step : {"none", "ingest", "ack"}]
      BY DEF NotHandling
    <2>3. PICK p \in Sidecar : p = watching
      BY <2>1
    <2>4. side' \in [Sidecar -> Process] /\ Others(p) /\ side'[p] = Off
      BY <1>1, <2>1, <2>3, BecomesProperties, OffProperties DEF SideInv
    <2>5. SideSound(p)'
      BY <1>1, <2>4, OffProperties DEF SideSound
    <2>6. SideInv'
      BY <1>1, <2>1, <2>4, <2>5, SideKept
    <2>7. \A q \in Sidecar \ {p}, e \in Event : IsOldest(q, e)' <=> IsOldest(q, e)
      BY <2>1, <2>4 DEF IsOldest, Others, hey
    <2>8. \A q \in Sidecar : side'[q].at = "acked" =>
            \A e \in Event : IsOldest(q, e)' => e \in Settled'
      BY <1>1, <2>1, <2>4, <2>7, OffProperties DEF PluginInv, Settled, Others
    <2>9. PluginInv'
      BY <1>1, <2>1, <2>2, <2>8, ConstantsAssumption DEF PluginInv
    <2>10. QED
      BY <1>2, <2>1, <2>6, <2>9 DEF BaseInv
  <1>12. ASSUME NEW p \in Sidecar, StartWatch(p) PROVE BaseInv'
    <2>1. /\ UNCHANGED <<hey, cursor, floor, frame, handling, queued, failures>>
          /\ watching = None /\ side[p].at = "off" /\ watching' = p
          /\ Becomes(p, [side[p] EXCEPT !.at = "start"]) /\ "start" \in Stage
      BY <1>12 DEF StartWatch, Stage
    <2>2. side' \in [Sidecar -> Process] /\ Others(p) /\ side'[p].at = "start"
          /\ side'[p].foundIn = side[p].foundIn /\ side'[p].postings = side[p].postings
      BY <1>1, <2>1, StageProperties
    <2>3. SideSound(p)'
      <3>1. SideSound(p)
        BY <1>1 DEF SideInv
      <3>2. QED
        BY <2>1, <2>2, <3>1 DEF SideSound, hey
    <2>4. SideInv'
      BY <1>1, <2>1, <2>2, <2>3, SideKept
    <2>5. frame = None /\ handling = NotHandling
      BY <1>1, <2>1 DEF PluginInv
    <2>6. \A q \in Sidecar, e \in Event : IsOldest(q, e)' <=> IsOldest(q, e)
      BY <2>1, <2>2 DEF IsOldest, Others, hey
    <2>7. PluginInv'
      BY <1>1, <2>1, <2>2, <2>5, <2>6, ConstantsAssumption DEF PluginInv, Settled, Others
    <2>8. QED
      BY <1>1, <1>2, <2>1, <2>4, <2>7 DEF BaseInv
  <1>13. QED
    BY <1>7, <1>8, <1>9, <1>10, <1>11, <1>12 DEF Plugin

\* Where HEY's clock, the processes, the pipe and the plugin stand with each other:
\* the pipe and the supervisor's hands hold the event the process waits for, and it
\* is acknowledged when it is persisted.
THEOREM BaseInvariance == Spec => []BaseInv
  <1>1. Init => BaseInv
    <2> SUFFICES ASSUME Init PROVE BaseInv
      OBVIOUS
    <2>1. Arrived = {} /\ now = 1 /\ moves = 0
      BY DEF Init, Arrived
    <2>2. Cardinality(Arrived) = 0
      BY <2>1, FS_EmptySet
    <2>3. ClockInv
      BY <2>1, <2>2, ConstantsAssumption DEF Init, ClockInv, Past
    <2>4. side = [p \in Sidecar |-> Off] /\ watching = None /\ frame = None
          /\ handling = NotHandling /\ queued = <<>>
      BY DEF Init
    <2>5. SideInv
      BY <2>3, <2>4, OffProperties DEF SideInv, SideSound
    <2>6. PluginInv
      BY <2>3, <2>4, OffProperties, ConstantsAssumption DEF PluginInv, NotHandling
    <2>7. QED
      BY <2>3, <2>5, <2>6 DEF BaseInv
  <1>2. BaseInv /\ [Next]_vars => BaseInv'
    <2> SUFFICES ASSUME BaseInv, [Next]_vars PROVE BaseInv'
      OBVIOUS
    <2>1. CASE Next
      BY <2>1, HEYKeepsBase, WorksKeepsBase, PluginKeepsBase DEF Next
    <2>2. CASE UNCHANGED vars
      <3>1. UNCHANGED <<hey, cursor, floor, side, watching, frame, handling, queued, failures>>
        BY <2>2 DEF vars, hey
      <3>2. ClockInv'
        BY <3>1, ClockKept DEF BaseInv, ClockInv
      <3>3. Process' = Process
        BY <3>1 DEF Process, Past, hey
      <3>4. SideInv'
        BY <3>1, <3>3 DEF BaseInv, SideInv, SideSound, hey
      <3>5. PluginInv'
        BY <3>1 DEF BaseInv, PluginInv, Settled, IsOldest, hey
      <3>6. QED
        BY <3>2, <3>4, <3>5 DEF BaseInv
    <2>3. QED
      BY <2>1, <2>2
  <1>3. QED
    BY <1>1, <1>2, PTL DEF Spec

\* Every variable keeps its type; a process that waits for an acknowledgement
\* has something to be acknowledged, and the plugin has one event in its hands.
THEOREM TypeCorrectness == Spec => []TypeOK
  <1>1. BaseInv => TypeOK
    <2> SUFFICES ASSUME BaseInv PROVE TypeOK
      OBVIOUS
    <2>1. Past \subseteq Time /\ now \in Time
      <3>1. Arrived \subseteq Event /\ IsFiniteSet(Event)
        BY ConstantsAssumption DEF Arrived
      <3>2. Cardinality(Arrived) <= Cardinality(Event) /\ Cardinality(Arrived) \in Nat
            /\ Cardinality(Event) \in Nat
        BY <3>1, FS_Subset, FS_CardinalityType
      <3>3. now = 1 + Cardinality(Arrived) + moves /\ moves \in 0..MaxMoves /\ MaxMoves \in Nat
        BY ConstantsAssumption DEF BaseInv, ClockInv
      <3>4. now \in Nat /\ now <= 1 + Cardinality(Event) + MaxMoves
        BY <3>2, <3>3
      <3>5. QED
        BY <3>2, <3>3, <3>4 DEF Past, Time
    <2>2. Process \subseteq [at : Stage, cursor : [Box -> Time], unread : SUBSET Box,
             next : [Box -> Time], postings : SUBSET (Box \X Thread), foundIn : [Event -> SUBSET Box]]
      BY <2>1 DEF Process
    <2>3. created \in [Event -> Time] /\ changed \in [Box -> [Thread -> Time]]
          /\ cursor \in [Box -> Time] /\ floor \in [Box -> Time]
      BY <2>1 DEF BaseInv, ClockInv
    <2>4. boxesOf \in [Thread -> SUBSET Box] /\ moves \in 0..MaxMoves /\ failures \in 0..MaxFailures
      BY DEF BaseInv, ClockInv
    <2>5. side \in [Sidecar ->
            [at : Stage, cursor : [Box -> Time], unread : SUBSET Box, next : [Box -> Time],
             postings : SUBSET (Box \X Thread), foundIn : [Event -> SUBSET Box]]]
      BY <2>2 DEF BaseInv, SideInv
    <2>6. \A p \in Sidecar : side[p].at \in {"waiting", "acked"} =>
            \E e \in Event : side[p].foundIn[e] # {}
      BY DEF BaseInv, SideInv, SideSound, Left
    <2>7. /\ watching \in Sidecar \cup {None} /\ frame \in Event \cup {None}
          /\ handling \in [event : Event \cup {None}, step : {"none", "ingest", "ack"}]
          /\ frame # None => handling = NotHandling
          /\ queued \in Seq(Event)
      BY DEF BaseInv, PluginInv
    <2>8. QED
      BY <2>1, <2>3, <2>4, <2>5, <2>6, <2>7 DEF TypeOK
  <1>2. QED
    BY <1>1, BaseInvariance, PTL

-----------------------------------------------------------------------------
(* Cursors and order.                                                      *)

\* No time is in the future.
LEMMA TimesAreNumbers ==
  ASSUME ClockInv, SideInv
  PROVE  /\ now \in Nat /\ now > 0
         /\ \A e \in Event : created[e] \in Nat /\ created[e] <= now
         /\ \A b \in Box : /\ cursor[b] \in Nat /\ cursor[b] <= now
                           /\ floor[b] \in Nat /\ floor[b] <= now
         /\ \A p \in Sidecar, b \in Box :
              /\ side[p].cursor[b] \in Nat /\ side[p].cursor[b] <= now
              /\ side[p].next[b] \in Nat /\ side[p].next[b] <= now
  <1>1. now \in Nat /\ now > 0
    <2>1. Cardinality(Arrived) \in Nat
      BY FS_Subset, FS_CardinalityType, ConstantsAssumption DEF Arrived
    <2>2. now = 1 + Cardinality(Arrived) + moves /\ moves \in 0..MaxMoves /\ MaxMoves \in Nat
      BY ConstantsAssumption DEF ClockInv
    <2>3. QED
      BY <2>1, <2>2
  <1>2. \A n \in Past : n \in Nat /\ n <= now
    BY <1>1 DEF Past
  <1>3. /\ \A e \in Event : created[e] \in Past
        /\ \A b \in Box : cursor[b] \in Past /\ floor[b] \in Past
        /\ \A p \in Sidecar, b \in Box : side[p].cursor[b] \in Past /\ side[p].next[b] \in Past
    BY DEF ClockInv, SideInv, Process
  <1>4. QED
    BY <1>1, <1>2, <1>3

\* What a step has to show that leaves HEY and the set-up alone.
LEMMA CoreKept ==
  ASSUME BaseInv, HistoryInv, UNCHANGED <<hey, floor>>, Settled \subseteq Settled',
         \A b \in Box : cursor'[b] >= floor[b],
         ~SetUp => cursor' = cursor,
         \A e \in Event : Found(e)' => Found(e) \/ Expected(e),
         \A p \in Sidecar : side'[p] = side[p] \/ HistorySound(p)',
         Calm =>
           /\ \A e \in Event, b \in Box : Missing(e, b) => cursor'[b] < created[e]
           /\ \A e, f \in Event : Before(e, f) /\ Found(f)' => e \in Settled'
           /\ Ordered'
           /\ \A p \in Sidecar : side'[p] = side[p] \/ StaySound(p)'
  PROVE  KeepsCore
  <1>1. /\ SetUp' <=> SetUp
        /\ \A e \in Event : Expected(e)' <=> Expected(e)
        /\ \A e, f \in Event : Before(e, f)' <=> Before(e, f)
        /\ \A e \in Event, b \in Box : Missing(e, b)' => Missing(e, b)
    BY DEF SetUp, Expected, Before, Missing, hey
  <1>2. HistoryInv'
    <2>1. ASSUME NEW p \in Sidecar PROVE HistorySound(p)'
      <3>1. HistorySound(p)
        BY DEF HistoryInv
      <3>2. CASE side'[p] = side[p]
        BY <1>1, <3>1, <3>2 DEF HistorySound, hey
      <3>3. QED
        BY <3>2
    <2>2. QED
      BY <1>1, <2>1 DEF HistoryInv, Expected, hey
  <1>3. ASSUME Calm PROVE Stay'
    <2>1. ASSUME NEW p \in Sidecar PROVE StaySound(p)'
      BY <1>1, <1>3, <2>1 DEF Calm, Stay, StaySound, hey
    <2>2. QED
      BY <1>1, <1>3, <2>1 DEF Stay, hey
  <1>4. StayInv /\ moves' = 0 => Calm
    BY DEF StayInv, Calm, hey
  <1>5. QED
    BY <1>2, <1>3, <1>4 DEF KeepsCore, StayInv

\* A step of one process that leaves the plugin alone.
LEMMA CoreKeptByProcess ==
  ASSUME BaseInv, HistoryInv, UNCHANGED <<hey, floor, plugin>>,
         \A b \in Box : cursor'[b] >= floor[b],
         ~SetUp => cursor' = cursor,
         Calm => \A e \in Event, b \in Box : Missing(e, b) => cursor'[b] < created[e],
         NEW p \in Sidecar, Others(p), HistorySound(p)', Calm => StaySound(p)'
  PROVE  KeepsCore
  <1>1. Settled' = Settled /\ \A e \in Event : Found(e)' <=> Found(e)
    BY DEF Settled, Found, plugin, hey
  <1>2. \A q \in Sidecar : side'[q] = side[q] \/ q = p
    BY DEF Others
  <1>3. Calm => \A e, f \in Event : Before(e, f) /\ Found(f) => e \in Settled
    BY DEF Calm, Stay
  <1>4. Calm =>
          /\ \A e \in Event, b \in Box : Missing(e, b) => cursor'[b] < created[e]
          /\ \A e, f \in Event : Before(e, f) /\ Found(f)' => e \in Settled'
          /\ Ordered'
          /\ \A q \in Sidecar : side'[q] = side[q] \/ StaySound(q)'
    <2> SUFFICES ASSUME Calm
                 PROVE  /\ \A e \in Event, b \in Box : Missing(e, b) => cursor'[b] < created[e]
                        /\ \A e, f \in Event : Before(e, f) /\ Found(f)' => e \in Settled'
                        /\ Ordered'
                        /\ \A q \in Sidecar : side'[q] = side[q] \/ StaySound(q)'
      OBVIOUS
    <2>1. \A e, f \in Event : Before(e, f) /\ Found(f)' => e \in Settled'
      BY <1>1, <1>3
    <2>2. \A q \in Sidecar : side'[q] = side[q] \/ StaySound(q)'
      BY <1>2
    <2>3. Ordered'
      BY DEF Calm, Stay, Ordered, plugin, hey
    <2>4. QED
      BY <2>1, <2>2, <2>3
  <1>5. \A q \in Sidecar : side'[q] = side[q] \/ HistorySound(q)'
    BY <1>2
  <1>6. QED
    BY <1>1, <1>4, <1>5, CoreKept

\* With HEY and the set-up as they are, and nothing taken out of the queue, no
\* entry comes to be missing.
LEMMA NoneMore ==
  ASSUME UNCHANGED <<hey, floor>>, Settled \subseteq Settled'
  PROVE  /\ SetUp' <=> SetUp
         /\ \A e \in Event : Expected(e)' <=> Expected(e)
         /\ \A e, f \in Event : Before(e, f)' <=> Before(e, f)
         /\ \A e \in Event, b \in Box : Missing(e, b)' => Missing(e, b)
  BY DEF SetUp, Expected, Before, Missing, hey

\* Positions of the queue hold events.
LEMMA SettledAreEvents ==
  ASSUME queued \in Seq(Event)
  PROVE  /\ DOMAIN queued = 1..Len(queued) /\ Len(queued) \in Nat
         /\ \A i \in DOMAIN queued : queued[i] \in Event
         /\ Settled \subseteq Event
  <1>1. DOMAIN queued = 1..Len(queued) /\ Len(queued) \in Nat
    BY LenProperties
  <1>2. \A i \in DOMAIN queued : queued[i] \in Event
    BY <1>1, ElementOfSeq
  <1>3. QED
    BY <1>1, <1>2 DEF Settled, Range

\* A process whose stage is not one of a poll has nothing to show.
LEMMA RestIsSound ==
  ASSUME NEW p \in Sidecar, side'[p].at \in {"off", "start", "idle"},
         SetUp' \/ side'[p].at \in {"off", "start"}
  PROVE  HistorySound(p)' /\ StaySound(p)'
  BY DEF HistorySound, StaySound, Polling

\* Cursors of the present are made only where the watch was never set up.
LEMMA InitializeKeepsCore ==
  ASSUME BaseInv, HistoryInv, NEW p \in Sidecar, Initialize(p) PROVE KeepsCore
  <1>1. UNCHANGED <<hey, plugin, cursor, floor>>
    BY DEF Initialize, InMemory
  <1>2. /\ Others(p) /\ side'[p].at \in {"new cursors", "idle"}
        /\ side'[p].at = "idle" <=> \A b \in Box : cursor[b] # 0
        /\ side'[p].cursor = [b \in Box |-> IF cursor[b] = 0 THEN now ELSE cursor[b]]
    BY InitializeProperties DEF BaseInv
  <1>3. /\ now \in Nat /\ now > 0
        /\ \A b \in Box : cursor[b] \in Nat /\ floor[b] \in Nat
    BY TimesAreNumbers DEF BaseInv
  <1>4. HistoryInv /\ (Calm => Stay)
    BY DEF Calm
  <1>5. SetUp' <=> SetUp
    BY <1>1 DEF SetUp
  <1>6. SetUp => side'[p].at = "idle"
    <2>1. ASSUME SetUp, NEW b \in Box PROVE cursor[b] # 0
      <3>1. floor[b] # 0 /\ cursor[b] >= floor[b]
        BY <1>4, <2>1 DEF SetUp, HistoryInv
      <3>2. QED
        BY <1>3, <3>1
    <2>2. QED
      BY <1>2, <2>1
  <1>7. ~SetUp => /\ side'[p].at = "new cursors"
                  /\ \A b \in Box : side'[p].cursor[b] = now
    <2>1. ASSUME ~SetUp PROVE \A b \in Box : cursor[b] = 0
      BY <1>4, <2>1 DEF SetUp, HistoryInv
    <2>2. Box # {}
      BY ConstantsAssumption DEF Box
    <2>3. QED
      BY <1>2, <2>1, <2>2
  <1>8. HistorySound(p)'
    <2>1. CASE SetUp
      BY <1>5, <1>6, <2>1, RestIsSound
    <2>2. CASE ~SetUp
      <3>1. side'[p].at = "new cursors" /\ side'[p].at \notin Polling /\ ~SetUp'
        BY <1>5, <1>7, <2>2 DEF Polling
      <3>2. \A b, c \in Box : side'[p].cursor[b] = side'[p].cursor[c] /\ side'[p].cursor[b] # 0
        <4>1. now # 0
          BY <1>3
        <4>2. \A b \in Box : side'[p].cursor[b] = now
          BY <1>7, <2>2
        <4>3. QED
          BY <4>1, <4>2, Zenon
      <3>3. QED
        BY <3>1, <3>2 DEF HistorySound
    <2>3. QED
      BY <2>1, <2>2
  <1>9. StaySound(p)'
    BY <1>2 DEF StaySound, Polling
  <1>10. /\ \A b \in Box : cursor'[b] >= floor[b]
         /\ Calm => \A e \in Event, b \in Box : Missing(e, b) => cursor'[b] < created[e]
    BY <1>1, <1>4 DEF HistoryInv, Calm, Stay
  <1>11. QED
    BY <1>1, <1>2, <1>8, <1>9, <1>10, CoreKeptByProcess

\* Whichever process sets up the file, its cursors are not before the earliest
\* set-up; and if it is the first one to do so, nothing has been found before.
LEMMA SaveNewCursorsKeepsCore ==
  ASSUME BaseInv, HistoryInv, NEW p \in Sidecar, SaveNewCursors(p) PROVE KeepsCore
  <1> DEFINE c == side[p].cursor
  <1>1. /\ UNCHANGED <<hey, plugin>> /\ side[p].at = "new cursors"
        /\ cursor' = c
        /\ floor' = [b \in Box |-> IF floor[b] = 0 \/ c[b] < floor[b] THEN c[b] ELSE floor[b]]
        /\ Becomes(p, [side[p] EXCEPT !.at = "idle"]) /\ "idle" \in Stage
    BY DEF SaveNewCursors, Stage
  <1>2. Others(p) /\ side'[p].at = "idle"
    BY <1>1, StageProperties DEF BaseInv
  <1>3. \A b, d \in Box : c[b] = c[d] /\ c[b] # 0
    BY <1>1 DEF HistoryInv, HistorySound
  <1>4. /\ \A b \in Box : c[b] \in Nat /\ floor[b] \in Nat
        /\ \A e \in Event : created[e] \in Nat
    BY TimesAreNumbers DEF BaseInv
  <1> HIDE DEF c
  <1>5. /\ \A b \in Box : /\ floor'[b] # 0 /\ floor'[b] \in Nat /\ floor'[b] <= c[b]
                          /\ floor[b] # 0 => floor'[b] <= floor[b]
        /\ \A b, d \in Box : floor'[b] = floor'[d]
    <2>1. \A b, d \in Box : floor[b] = floor[d]
      BY DEF HistoryInv
    <2>2. \A b \in Box : floor'[b] = IF floor[b] = 0 \/ c[b] < floor[b] THEN c[b] ELSE floor[b]
      BY <1>1
    <2>3. ASSUME NEW b \in Box
          PROVE  /\ floor'[b] # 0 /\ floor'[b] \in Nat /\ floor'[b] <= c[b]
                 /\ floor[b] # 0 => floor'[b] <= floor[b]
      BY <1>3, <1>4, <2>2
    <2>4. ASSUME NEW b \in Box, NEW d \in Box PROVE floor'[b] = floor'[d]
      <3>1. c[b] = c[d] /\ floor[b] = floor[d]
        BY <1>3, <2>1
      <3>2. QED
        BY <2>2, <3>1
    <2>5. QED
      BY <2>3, <2>4
  <1>6. SetUp' /\ (SetUp => \A b \in Box : floor[b] # 0)
    <2>1. 1 \in Box
      BY ConstantsAssumption DEF Box
    <2>2. QED
      BY <1>5, <2>1 DEF SetUp, HistoryInv
  <1>7. SetUp => \A n \in Nat, b \in Box : (n > floor[b] => n > floor'[b])
                                           /\ (n >= floor[b] => n >= floor'[b])
    BY <1>4, <1>5, <1>6
  <1>8. /\ \A e \in Event : (Found(e)' <=> Found(e)) /\ created'[e] = created[e]
        /\ Settled' = Settled /\ queued' = queued /\ boxesOf' = boxesOf /\ moves' = moves
    BY <1>1 DEF Found, Settled, plugin, hey
  <1>9. HistorySound(p)' /\ StaySound(p)'
    BY <1>2, <1>6, RestIsSound
  <1>10. ASSUME NEW q \in Sidecar PROVE HistorySound(q)'
    <2>1. CASE q = p
      BY <1>9, <2>1
    <2>2. CASE q # p
      <3>1. side'[q] = side[q] /\ HistorySound(q)
        BY <1>2, <2>2 DEF Others, HistoryInv
      <3>2. CASE side[q].at \in Polling
        <4>1. SetUp /\ side[q].at # "new cursors"
          BY <3>1, <3>2 DEF HistorySound, Polling
        <4>2. \A b \in Box : side[q].cursor[b] \in Nat /\ side[q].next[b] \in Nat
          BY TimesAreNumbers DEF BaseInv
        <4>3. \A b \in Box : /\ side[q].cursor[b] >= floor'[b]
                             /\ side[q].next[b] = 0 \/ side[q].next[b] >= floor'[b]
          BY <1>7, <3>1, <3>2, <4>1, <4>2 DEF HistorySound
        <4>4. \A e \in Event : side[q].foundIn[e] # {} =>
                \A b \in Box : created'[e] > floor'[b]
          BY <1>4, <1>7, <1>8, <3>1, <3>2, <4>1 DEF HistorySound
        <4>5. QED
          BY <1>6, <3>1, <4>1, <4>3, <4>4 DEF HistorySound
      <3>3. CASE side[q].at \notin Polling
        BY <1>6, <3>1, <3>3 DEF HistorySound
      <3>4. QED
        BY <3>2, <3>3
    <2>3. QED
      BY <2>1, <2>2
  <1>11. HistoryInv'
    <2>1. \A b \in Box : cursor'[b] >= floor'[b]
      BY <1>1, <1>4, <1>5
    <2>2. ASSUME NEW e \in Event, Found(e)' PROVE \A b \in Box : created'[e] > floor'[b]
      <3>1. SetUp /\ \A b \in Box : created[e] > floor[b]
        BY <1>8, <2>2 DEF HistoryInv
      <3>2. QED
        BY <1>4, <1>7, <1>8, <3>1
    <2>3. QED
      BY <1>5, <1>6, <1>10, <2>1, <2>2 DEF HistoryInv
  <1>12. ASSUME SetUpOnce PROVE Stay'
    <2>1. ~SetUp
      BY <1>1, <1>12 DEF SetUpOnce
    <2>2. \A e \in Event : ~Found(e)'
      BY <1>8, <2>1 DEF HistoryInv
    <2>3. ASSUME NEW q \in Sidecar PROVE StaySound(q)'
      <3>1. side[q].at \notin Polling
        BY <2>1 DEF HistoryInv, HistorySound, Polling
      <3>2. side'[q].at \notin Polling
        BY <1>2, <3>1 DEF Others, Polling
      <3>3. QED
        BY <3>2 DEF StaySound
    <2>4. \A e \in Event, b \in Box : Missing(e, b)' => cursor'[b] < created'[e]
      <3>1. \A b \in Box : floor[b] = 0
        BY <2>1 DEF SetUp
      <3>2. \A b \in Box : cursor'[b] = floor'[b]
        BY <1>1, <3>1
      <3>3. QED
        BY <1>4, <1>5, <1>8, <3>2 DEF Missing, Expected
    <2>5. Ordered'
      <3>1. Settled = {}
        <4>1. queued \in Seq(Event)
          BY DEF BaseInv, PluginInv
        <4>2. Settled \subseteq Event
          BY <4>1, SettledAreEvents
        <4>3. QED
          BY <1>8, <2>2, <4>2 DEF Found
      <3>2. QED
        BY <1>8, <3>1 DEF Ordered, Settled, Range
    <2>6. QED
      BY <2>2, <2>3, <2>4, <2>5 DEF Stay
  <1>13. QED
    BY <1>11, <1>12 DEF KeepsCore, StayInv

\* The file's cursors have passed nothing that is missing, so a new poll has not.
LEMMA PollKeepsCore ==
  ASSUME BaseInv, HistoryInv, NEW p \in Sidecar, Poll(p) PROVE KeepsCore
  <1>1. UNCHANGED <<hey, plugin, cursor, floor>>
    BY DEF Poll, InMemory
  <1>2. /\ Others(p) /\ side[p].at = "idle" /\ side'[p].at = "reading" /\ side'[p].cursor = cursor
        /\ \A b \in Box : side'[p].next[b] = 0
        /\ side'[p].postings = {} /\ \A e \in Event : side'[p].foundIn[e] = {}
    BY PollProperties DEF BaseInv
  <1>3. HistoryInv /\ HistorySound(p) /\ (Calm => Stay)
    BY DEF HistoryInv, Calm
  <1>4. SetUp
    BY <1>2, <1>3 DEF HistorySound
  <1>5. HistorySound(p)'
    BY <1>1, <1>2, <1>3, <1>4 DEF HistorySound, HistoryInv, SetUp
  <1>6. ASSUME Calm PROVE StaySound(p)'
    <2>1. ASSUME NEW e \in Event, NEW b \in Box, Missing(e, b)'
          PROVE  side'[p].cursor[b] < created'[e] /\ ~(side'[p].next[b] >= created'[e])
      <3>1. Missing(e, b) /\ created' = created
        BY <1>1, <2>1 DEF Missing, Expected, SetUp, Settled, hey, plugin
      <3>2. cursor[b] < created[e]
        BY <1>3, <1>6, <3>1 DEF Stay
      <3>3. cursor[b] \in Nat /\ created[e] \in Nat
        BY TimesAreNumbers DEF BaseInv
      <3>4. QED
        BY <1>2, <3>1, <3>2, <3>3
    <2>2. QED
      BY <1>2, <2>1 DEF StaySound
  <1>7. /\ \A b \in Box : cursor'[b] >= floor[b]
        /\ Calm => \A e \in Event, b \in Box : Missing(e, b) => cursor'[b] < created[e]
    BY <1>1, <1>3 DEF HistoryInv, Calm, Stay
  <1>8. QED
    BY <1>1, <1>2, <1>5, <1>6, <1>7, CoreKeptByProcess

\* What changed after the cursor is among the postings now; a missing entry is
\* such a change.
LEMMA ReadChangesKeepsCore ==
  ASSUME BaseInv, HistoryInv, NEW p \in Sidecar, ReadChanges(p) PROVE KeepsCore
  <1>1. UNCHANGED <<hey, plugin, cursor, floor>>
    BY DEF ReadChanges, InMemory
  <1>2. PICK b \in Box, next \in Past :
          /\ next = now \/ next = 0
          /\ Others(p) /\ side[p].at = "reading" /\ side'[p].at \in {"hydrating", "reading"}
          /\ side'[p].cursor = side[p].cursor
          /\ side'[p].next = [side[p].next EXCEPT ![b] = next]
          /\ side[p].postings \subseteq side'[p].postings
          /\ \A t \in Thread : changed[b][t] > side[p].cursor[b] /\ b \in boxesOf[t] =>
               <<b, t>> \in side'[p].postings
          /\ \A bt \in side'[p].postings : bt \in side[p].postings \/ bt[1] \in boxesOf[bt[2]]
          /\ side'[p].foundIn = side[p].foundIn
    BY ReadChangesProperties DEF BaseInv
  <1>3. HistoryInv /\ HistorySound(p) /\ (Calm => Stay) /\ (Calm => StaySound(p))
    BY DEF HistoryInv, Calm, Stay
  <1>4. \A c \in Box : side'[p].next[c] = IF c = b THEN next ELSE side[p].next[c]
    BY <1>2 DEF BaseInv, SideInv, Process
  <1>5. /\ now \in Nat /\ \A e \in Event : created[e] \in Nat
        /\ \A c \in Box : floor[c] \in Nat /\ floor[c] <= now /\ side[p].cursor[c] \in Nat
    BY TimesAreNumbers DEF BaseInv
  <1>6. HistorySound(p)'
    <2>1. \A c \in Box : side'[p].next[c] = 0 \/ side'[p].next[c] >= floor[c]
      BY <1>2, <1>3, <1>4, <1>5 DEF HistorySound, Polling
    <2>2. SetUp
      BY <1>2, <1>3 DEF HistorySound
    <2>3. QED
      BY <1>1, <1>2, <1>3, <2>1, <2>2 DEF HistorySound, SetUp, Polling, hey
  <1>7. ASSUME Calm PROVE StaySound(p)'
    <2>1. ASSUME NEW e \in Event, NEW c \in Box, Missing(e, c)'
          PROVE  /\ side'[p].cursor[c] < created'[e]
                 /\ side'[p].next[c] >= created'[e] =>
                      <<c, ThreadOf[e]>> \in side'[p].postings \/ c \in side'[p].foundIn[e]
      <3>1. Missing(e, c) /\ created' = created
        BY <1>1, <2>1 DEF Missing, Expected, SetUp, Settled, hey, plugin
      <3>2. /\ side[p].cursor[c] < created[e]
            /\ side[p].next[c] >= created[e] =>
                 <<c, ThreadOf[e]>> \in side[p].postings \/ c \in side[p].foundIn[e]
        BY <1>2, <1>3, <1>7, <3>1 DEF StaySound, Polling
      <3>3. created[e] > 0
        BY <1>5, <3>2
      <3>4. CASE c # b
        BY <1>2, <1>4, <3>1, <3>2, <3>4
      <3>5. CASE c = b /\ next = 0
        BY <1>2, <1>4, <1>5, <3>1, <3>2, <3>3, <3>5
      <3>6. CASE c = b
        <4> DEFINE t == ThreadOf[e]
        <4>1. t \in Thread /\ b \in boxesOf[t]
          BY <3>1, <3>6, ConstantsAssumption DEF Missing
        <4>2. changed[b][t] >= created[e] /\ changed[b][t] \in Nat
          BY <4>1 DEF BaseInv, ClockInv, Past
        <4>3. changed[b][t] > side[p].cursor[b]
          BY <1>5, <3>2, <3>6, <4>2
        <4>4. <<b, t>> \in side'[p].postings
          BY <1>2, <4>1, <4>3
        <4>5. QED
          BY <1>2, <3>1, <3>2, <3>6, <4>4
      <3>7. QED
        BY <3>4, <3>6
    <2>2. \A e, f \in Event : Before(e, f)' /\ side'[p].foundIn[f] # {} =>
            e \in Settled' \/ side'[p].foundIn[e] # {}
      <3>1. ASSUME NEW e \in Event, NEW f \in Event, Before(e, f)' PROVE Before(e, f)
        BY <1>1, <3>1 DEF Before, Expected, SetUp, hey
      <3>2. QED
        BY <1>1, <1>2, <1>3, <1>7, <3>1 DEF StaySound, Polling, Settled, plugin
    <2>3. \A bt \in side'[p].postings : bt[1] \in boxesOf'[bt[2]]
      BY <1>1, <1>2, <1>3, <1>7 DEF StaySound, Polling, hey
    <2>4. QED
      BY <2>1, <2>2, <2>3 DEF StaySound
  <1>8. /\ \A c \in Box : cursor'[c] >= floor[c]
        /\ Calm => \A e \in Event, c \in Box : Missing(e, c) => cursor'[c] < created[e]
    BY <1>1, <1>3 DEF HistoryInv, Calm, Stay
  <1>9. QED
    BY <1>1, <1>2, <1>6, <1>7, <1>8, CoreKeptByProcess

\* A step from one stage of a poll to another one with the same memory.
LEMMA PollGoesOn ==
  ASSUME UNCHANGED <<hey, floor>>, Settled \subseteq Settled',
         NEW p \in Sidecar, HistorySound(p), Calm => StaySound(p),
         side[p].at \in Polling, side'[p].at \in Polling,
         side'[p].cursor = side[p].cursor, side'[p].next = side[p].next,
         side'[p].postings = side[p].postings, side'[p].foundIn = side[p].foundIn
  PROVE  HistorySound(p)' /\ (Calm => StaySound(p)')
  <1>1. side'[p].at # "new cursors"
    BY DEF Polling
  <1>2. SetUp' <=> SetUp
    BY NoneMore
  <1>3. SetUp
    BY DEF HistorySound, Polling
  <1>4. HistorySound(p)'
    BY <1>1, <1>2, <1>3 DEF HistorySound, hey
  <1>5. ASSUME Calm PROVE StaySound(p)'
    <2>1. \A e \in Event, b \in Box : Missing(e, b)' =>
            /\ side'[p].cursor[b] < created'[e]
            /\ side'[p].next[b] >= created'[e] =>
                 <<b, ThreadOf[e]>> \in side'[p].postings \/ b \in side'[p].foundIn[e]
      BY <1>5, NoneMore DEF StaySound, hey
    <2>2. \A e, f \in Event : Before(e, f)' /\ side'[p].foundIn[f] # {} =>
            e \in Settled' \/ side'[p].foundIn[e] # {}
      BY <1>5, NoneMore DEF StaySound
    <2>3. \A bt \in side'[p].postings : bt[1] \in boxesOf'[bt[2]]
      BY <1>5 DEF StaySound, hey
    <2>4. QED
      BY <2>1, <2>2, <2>3 DEF StaySound
  <1>6. QED
    BY <1>4, <1>5

\* The thread is read as it is by then: whatever of it is missing from the box is
\* found with the posting, and so is all that was before.
LEMMA HydrateKeepsCore ==
  ASSUME BaseInv, HistoryInv, NEW p \in Sidecar, Hydrate(p) PROVE KeepsCore
  <1>1. UNCHANGED <<hey, plugin, cursor, floor>>
    BY DEF Hydrate, InMemory
  <1>2. PICK bt \in side[p].postings :
          /\ Others(p)
          /\ side[p].at = "hydrating" /\ side'[p].at = "hydrating"
          /\ side'[p].cursor = side[p].cursor /\ side'[p].next = side[p].next
          /\ side'[p].postings = side[p].postings \ {bt}
          /\ \A e \in Event : side'[p].foundIn[e] =
               IF ThreadOf[e] = bt[2] /\ created[e] > side[p].cursor[bt[1]]
               THEN side[p].foundIn[e] \cup {bt[1]} ELSE side[p].foundIn[e]
    BY HydrateProperties DEF BaseInv
  <1>3. HistoryInv /\ HistorySound(p) /\ (Calm => Stay) /\ (Calm => StaySound(p))
    BY DEF HistoryInv, Calm, Stay
  <1>4. /\ \A e \in Event : created[e] \in Nat
        /\ \A c \in Box : floor[c] \in Nat /\ side[p].cursor[c] \in Nat
    BY TimesAreNumbers DEF BaseInv
  <1>5. bt[1] \in Box /\ bt[2] \in Thread /\ bt = <<bt[1], bt[2]>>
    BY <1>2 DEF BaseInv, SideInv, Process
  <1>6. SetUp
    BY <1>2, <1>3 DEF HistorySound
  <1>7. Settled' = Settled /\ created' = created /\ boxesOf' = boxesOf
    BY <1>1 DEF Settled, plugin, hey
  <1>8. HistorySound(p)'
    <2>1. ASSUME NEW e \in Event, side'[p].foundIn[e] # {}, NEW b \in Box
          PROVE  created'[e] > floor'[b]
      <3>1. CASE created[e] > side[p].cursor[bt[1]]
        <4>1. side[p].cursor[bt[1]] >= floor[bt[1]] /\ floor[b] = floor[bt[1]]
          BY <1>2, <1>3, <1>5 DEF HistorySound, HistoryInv, Polling
        <4>2. QED
          BY <1>1, <1>4, <1>5, <1>7, <3>1, <4>1
      <3>2. CASE side'[p].foundIn[e] = side[p].foundIn[e]
        BY <1>1, <1>2, <1>3, <1>7, <2>1, <3>2 DEF HistorySound, Polling
      <3>3. QED
        BY <1>2, <3>1, <3>2
    <2>2. \A b \in Box : /\ side'[p].cursor[b] >= floor'[b]
                         /\ side'[p].next[b] = 0 \/ side'[p].next[b] >= floor'[b]
      BY <1>1, <1>2, <1>3 DEF HistorySound, Polling
    <2>3. SetUp'
      BY <1>1, <1>6 DEF SetUp
    <2>4. QED
      BY <1>2, <2>1, <2>2, <2>3 DEF HistorySound
  <1>9. ASSUME Calm PROVE StaySound(p)'
    <2>1. StaySound(p) /\ side[p].at \in Polling
      BY <1>2, <1>3, <1>9 DEF Polling
    <2>2. ASSUME NEW e \in Event, NEW c \in Box, Missing(e, c)'
          PROVE  /\ side'[p].cursor[c] < created'[e]
                 /\ side'[p].next[c] >= created'[e] =>
                      <<c, ThreadOf[e]>> \in side'[p].postings \/ c \in side'[p].foundIn[e]
      <3>1. Missing(e, c)
        BY <1>1, <1>7, <2>2, NoneMore
      <3>2. /\ side[p].cursor[c] < created[e]
            /\ side[p].next[c] >= created[e] =>
                 <<c, ThreadOf[e]>> \in side[p].postings \/ c \in side[p].foundIn[e]
        BY <2>1, <3>1 DEF StaySound
      <3>3. CASE <<c, ThreadOf[e]>> = bt
        <4>1. bt[1] = c /\ bt[2] = ThreadOf[e]
          BY <3>3
        <4>2. created[e] > side[p].cursor[bt[1]]
          BY <1>4, <3>2, <4>1
        <4>3. c \in side'[p].foundIn[e]
          BY <1>2, <4>1, <4>2
        <4>4. QED
          BY <1>2, <1>7, <3>2, <4>3
      <3>4. CASE <<c, ThreadOf[e]>> # bt
        BY <1>2, <1>7, <3>2, <3>4
      <3>5. QED
        BY <3>3, <3>4
    <2>3. ASSUME NEW e \in Event, NEW f \in Event, Before(e, f)', side'[p].foundIn[f] # {}
          PROVE  e \in Settled' \/ side'[p].foundIn[e] # {}
      <3>1. Before(e, f)
        BY <1>1, <1>7, <2>3, NoneMore
      <3>2. CASE side[p].foundIn[f] # {}
        <4>1. e \in Settled \/ side[p].foundIn[e] # {}
          BY <2>1, <3>1, <3>2 DEF StaySound
        <4>2. QED
          BY <1>2, <1>7, <4>1
      <3>3. CASE side[p].foundIn[f] = {} /\ e \notin Settled
        <4>1. ThreadOf[f] = bt[2]
          BY <1>2, <2>3, <3>3
        <4>2. ThreadOf[e] = bt[2] /\ Expected(e)
          BY <3>1, <4>1 DEF Before
        <4>3. bt[1] \in boxesOf[bt[2]]
          BY <1>2, <2>1 DEF StaySound
        <4>4. Missing(e, bt[1])
          BY <3>3, <4>2, <4>3 DEF Missing
        <4>5. side[p].cursor[bt[1]] < created[e]
          BY <1>5, <2>1, <4>4 DEF StaySound
        <4>6. created[e] > side[p].cursor[bt[1]]
          BY <1>4, <1>5, <4>5
        <4>7. QED
          BY <1>2, <4>2, <4>6
      <3>4. QED
        BY <1>7, <3>2, <3>3
    <2>4. \A d \in side'[p].postings : d[1] \in boxesOf'[d[2]]
      BY <1>2, <1>7, <2>1 DEF StaySound
    <2>5. QED
      BY <2>2, <2>3, <2>4 DEF StaySound
  <1>10. /\ \A c \in Box : cursor'[c] >= floor[c]
         /\ Calm => \A e \in Event, c \in Box : Missing(e, c) => cursor'[c] < created[e]
    BY <1>1, <1>3 DEF HistoryInv, Calm, Stay
  <1>11. QED
    BY <1>1, <1>2, <1>8, <1>9, <1>10, CoreKeptByProcess

\* With the last posting read, the poll goes on to its quiet boxes.
LEMMA HydratedKeepsCore ==
  ASSUME BaseInv, HistoryInv, NEW p \in Sidecar, Hydrated(p) PROVE KeepsCore
  <1>1. /\ UNCHANGED <<hey, plugin, cursor, floor>> /\ side[p].at = "hydrating"
        /\ Becomes(p, [side[p] EXCEPT !.at = "quiet"]) /\ "quiet" \in Stage
    BY DEF Hydrated, InMemory, Stage
  <1>2. /\ Others(p) /\ side'[p].at = "quiet"
        /\ side'[p].cursor = side[p].cursor /\ side'[p].next = side[p].next
        /\ side'[p].postings = side[p].postings /\ side'[p].foundIn = side[p].foundIn
    BY <1>1, StageProperties DEF BaseInv
  <1>3. /\ HistorySound(p) /\ (Calm => StaySound(p))
        /\ \A b \in Box : cursor'[b] >= floor[b]
        /\ Calm => \A e \in Event, b \in Box : Missing(e, b) => cursor'[b] < created[e]
    BY <1>1 DEF HistoryInv, Calm, Stay
  <1>4. side[p].at \in Polling /\ side'[p].at \in Polling /\ Settled' = Settled
    BY <1>1, <1>2 DEF Polling, Settled, plugin
  <1>5. HistorySound(p)' /\ (Calm => StaySound(p)')
    BY <1>1, <1>2, <1>3, <1>4, PollGoesOn
  <1>6. QED
    BY <1>1, <1>2, <1>3, <1>5, CoreKeptByProcess

\* A cursor moves on only from a box in which nothing is left; what is missing from
\* the box is later than the next cursor.
LEMMA AdvanceKeepsCore ==
  ASSUME BaseInv, HistoryInv, UNCHANGED <<hey, plugin, floor>>, NEW p \in Sidecar, Others(p),
         side[p].at \in {"quiet", "acked"}, side'[p].at \in {"emitting", "idle"},
         NEW left \in [Event -> SUBSET Box],
         \A e \in Event : left[e] = side[p].foundIn[e] \/ (left[e] = {} /\ e \in Settled),
         side'[p].cursor = Advanced(side[p].cursor, side[p].next, left),
         side'[p].next = side[p].next, side'[p].postings = side[p].postings,
         side'[p].foundIn = left, cursor' \in {side'[p].cursor, cursor}
  PROVE  KeepsCore
  <1>1. /\ HistoryInv /\ HistorySound(p) /\ (Calm => Stay) /\ (Calm => StaySound(p))
        /\ side[p].at \in Polling /\ side[p].postings = {}
    BY DEF HistoryInv, Calm, Stay, Polling, BaseInv, SideInv, SideSound
  <1>2. side[p].cursor \in [Box -> Past] /\ side[p].next \in [Box -> Past]
    BY DEF BaseInv, SideInv, Process
  <1>3. \A b \in Box :
          \/ side'[p].cursor[b] = side[p].cursor[b]
          \/ /\ side'[p].cursor[b] = side[p].next[b] /\ side[p].next[b] # 0
             /\ \A e \in Event : b \notin left[e]
    BY <1>2, AdvancedProperties
  <1>4. /\ \A e \in Event : created[e] \in Nat
        /\ \A c \in Box : /\ floor[c] \in Nat /\ cursor[c] \in Nat
                          /\ side[p].cursor[c] \in Nat /\ side[p].next[c] \in Nat
    BY TimesAreNumbers DEF BaseInv
  <1>5. /\ SetUp /\ \A b \in Box : /\ side[p].cursor[b] >= floor[b]
                                   /\ side[p].next[b] = 0 \/ side[p].next[b] >= floor[b]
        /\ \A e \in Event : side[p].foundIn[e] # {} => \A b \in Box : created[e] > floor[b]
    BY <1>1 DEF HistorySound, Polling
  <1>6. \A b \in Box : side'[p].cursor[b] >= floor[b] /\ cursor'[b] >= floor[b]
    <2>1. \A b \in Box : side'[p].cursor[b] >= floor[b]
      BY <1>3, <1>5
    <2>2. \A b \in Box : cursor[b] >= floor[b]
      BY <1>1 DEF HistoryInv
    <2>3. QED
      BY <2>1, <2>2
  <1>7. Settled' = Settled /\ created' = created /\ boxesOf' = boxesOf
    BY DEF Settled, plugin, hey
  <1>8. HistorySound(p)'
    <2>1. SetUp'
      BY <1>5 DEF SetUp
    <2>2. \A e \in Event : side'[p].foundIn[e] # {} => \A b \in Box : created'[e] > floor'[b]
      BY <1>5, <1>7
    <2>3. QED
      BY <1>5, <1>6, <2>1, <2>2 DEF HistorySound, Polling
  <1>9. ASSUME Calm, NEW e \in Event, NEW b \in Box, Missing(e, b)
        PROVE  /\ side'[p].cursor[b] < created[e] /\ cursor'[b] < created[e]
               /\ side[p].next[b] >= created[e] => b \in left[e]
    <2>1. /\ side[p].cursor[b] < created[e]
          /\ side[p].next[b] >= created[e] => b \in side[p].foundIn[e]
      BY <1>1, <1>9 DEF StaySound
    <2>2. left[e] = side[p].foundIn[e]
      BY <1>9 DEF Missing
    <2>3. side'[p].cursor[b] < created[e]
      BY <1>3, <1>4, <2>1, <2>2
    <2>4. cursor[b] < created[e]
      BY <1>1, <1>9 DEF Stay
    <2>5. QED
      BY <2>1, <2>2, <2>3, <2>4
  <1>10. ASSUME Calm PROVE StaySound(p)'
    <2>1. \A e \in Event, b \in Box : Missing(e, b)' =>
            /\ side'[p].cursor[b] < created'[e]
            /\ side'[p].next[b] >= created'[e] => b \in side'[p].foundIn[e]
      BY <1>7, <1>9, <1>10, NoneMore
    <2>2. ASSUME NEW e \in Event, NEW f \in Event, Before(e, f)', side'[p].foundIn[f] # {}
          PROVE  e \in Settled' \/ side'[p].foundIn[e] # {}
      <3>1. Before(e, f)
        BY <1>7, <2>2, NoneMore
      <3>2. e \in Settled \/ side[p].foundIn[e] # {}
        BY <1>1, <1>10, <2>2, <3>1 DEF StaySound
      <3>3. QED
        BY <1>7, <3>2
    <2>3. side'[p].postings = {}
      BY <1>1
    <2>4. QED
      BY <2>1, <2>2, <2>3 DEF StaySound
  <1>11. QED
    BY <1>5, <1>6, <1>8, <1>9, <1>10, CoreKeptByProcess

\* A quiet box is one in which nothing was found.
LEMMA SaveQuietKeepsCore ==
  ASSUME BaseInv, HistoryInv, NEW p \in Sidecar, SaveQuiet(p) PROVE KeepsCore
  <1>1. UNCHANGED <<hey, plugin, floor>>
    BY DEF SaveQuiet
  <1> DEFINE left == side[p].foundIn
  <1>2. /\ Others(p) /\ side[p].at = "quiet" /\ side'[p].at \in {"emitting", "idle"}
        /\ side'[p].cursor = Advanced(side[p].cursor, side[p].next, left)
        /\ side'[p].next = side[p].next /\ side'[p].postings = side[p].postings
        /\ side'[p].foundIn = left /\ cursor' \in {side'[p].cursor, cursor}
    BY SaveQuietProperties DEF BaseInv
  <1>3. left \in [Event -> SUBSET Box]
    BY DEF BaseInv, SideInv, Process
  <1>4. \A e \in Event : left[e] = side[p].foundIn[e]
    OBVIOUS
  <1> HIDE DEF left
  <1>5. QED
    BY <1>1, <1>2, <1>3, <1>4, AdvanceKeepsCore

\* The event that is acknowledged has been persisted.
LEMMA AckedKeepsCore ==
  ASSUME BaseInv, HistoryInv, NEW p \in Sidecar, Acked(p) PROVE KeepsCore
  <1>1. UNCHANGED <<hey, plugin, floor>>
    BY DEF Acked
  <1> DEFINE left == [side[p].foundIn EXCEPT ![Oldest(p)] = {}]
  <1>2. /\ Others(p) /\ side[p].at = "acked" /\ side'[p].at \in {"emitting", "idle"}
        /\ left \in [Event -> SUBSET Box]
        /\ side'[p].cursor = Advanced(side[p].cursor, side[p].next, left)
        /\ side'[p].next = side[p].next /\ side'[p].postings = side[p].postings
        /\ side'[p].foundIn = left /\ cursor' \in {side'[p].cursor, cursor}
    BY AckedProperties DEF BaseInv
  <1>3. Oldest(p) \in Event /\ IsOldest(p, Oldest(p))
    BY <1>2, OldestProperties DEF BaseInv, SideInv, SideSound
  <1>4. Oldest(p) \in Settled
    BY <1>2, <1>3 DEF BaseInv, PluginInv
  <1>5. side[p].foundIn \in [Event -> SUBSET Box]
    BY DEF BaseInv, SideInv, Process
  <1>6. \A e \in Event : left[e] = side[p].foundIn[e] \/ (left[e] = {} /\ e \in Settled)
    BY <1>4, <1>5
  <1> HIDE DEF left
  <1>7. QED
    BY <1>1, <1>2, <1>6, AdvanceKeepsCore

\* The event that is emitted is the oldest one: whatever came before it in its
\* thread has been persisted.
LEMMA EmitKeepsCore ==
  ASSUME BaseInv, HistoryInv, NEW p \in Sidecar, Emit(p) PROVE KeepsCore
  <1>1. /\ UNCHANGED <<hey, cursor, floor, handling, queued>>
        /\ side[p].at = "emitting" /\ frame' = Oldest(p)
        /\ Becomes(p, [side[p] EXCEPT !.at = "waiting"]) /\ "waiting" \in Stage
    BY DEF Emit, Stage
  <1>2. /\ Others(p) /\ side'[p].at = "waiting"
        /\ side'[p].cursor = side[p].cursor /\ side'[p].next = side[p].next
        /\ side'[p].postings = side[p].postings /\ side'[p].foundIn = side[p].foundIn
    BY <1>1, StageProperties DEF BaseInv
  <1>3. HistoryInv /\ HistorySound(p) /\ (Calm => Stay) /\ (Calm => StaySound(p))
    BY DEF HistoryInv, Calm, Stay
  <1>4. Oldest(p) \in Event /\ IsOldest(p, Oldest(p))
    BY <1>1, OldestProperties DEF BaseInv, SideInv, SideSound
  <1>5. side[p].at \in Polling /\ side'[p].at \in Polling /\ Settled' = Settled
    BY <1>1, <1>2 DEF Polling, Settled
  <1>6. HistorySound(p)' /\ (Calm => StaySound(p)')
    BY <1>1, <1>2, <1>3, <1>5, PollGoesOn
  <1>7. \A e \in Event : Found(e)' => Found(e) \/ e = Oldest(p)
    BY <1>1, <1>5 DEF Found
  <1>8. Expected(Oldest(p))
    BY <1>3, <1>4, <1>5, <1>1 DEF Expected, IsOldest, HistorySound, Polling
  <1>9. ASSUME Calm, NEW e \in Event, NEW f \in Event, Before(e, f), Found(f)'
        PROVE  e \in Settled'
    <2>1. CASE Found(f)
      BY <1>3, <1>5, <1>9, <2>1 DEF Stay
    <2>2. CASE f = Oldest(p)
      <3>1. e \in Settled \/ side[p].foundIn[e] # {}
        BY <1>3, <1>4, <1>5, <1>9, <2>2 DEF StaySound, IsOldest
      <3>2. side[p].foundIn[e] # {} => created[f] <= created[e]
        BY <1>4, <2>2 DEF IsOldest
      <3>3. created[e] < created[f] /\ created[e] \in Nat /\ created[f] \in Nat
        BY <1>9, TimesAreNumbers DEF Before, BaseInv
      <3>4. QED
        BY <1>5, <3>1, <3>2, <3>3
    <2>3. QED
      BY <1>7, <1>9, <2>1, <2>2
  <1>10. Calm => Ordered'
    BY <1>1, <1>3 DEF Stay, Ordered, hey
  <1>11. /\ \A b \in Box : cursor'[b] >= floor[b]
         /\ Calm => \A e \in Event, b \in Box : Missing(e, b) => cursor'[b] < created[e]
    BY <1>1, <1>3 DEF HistoryInv, Calm, Stay
  <1>12. \A q \in Sidecar : side'[q] = side[q] \/ q = p
    BY <1>2 DEF Others
  <1>13. QED
    BY <1>1, <1>5, <1>6, <1>7, <1>8, <1>9, <1>10, <1>11, <1>12, CoreKept

\* A process that ends or starts has nothing in its hands.
LEMMA RestKeepsCore ==
  ASSUME BaseInv, HistoryInv, NEW p \in Sidecar, PipesClosed(p) \/ Die(p) PROVE KeepsCore
  <1>1. UNCHANGED <<hey, plugin, cursor, floor>> /\ Becomes(p, Off)
    BY DEF PipesClosed, Die, InMemory
  <1>2. Others(p) /\ side'[p].at = "off"
    BY <1>1, BecomesProperties, OffProperties DEF BaseInv, SideInv
  <1>3. HistorySound(p)' /\ StaySound(p)'
    BY <1>2, RestIsSound
  <1>4. /\ \A b \in Box : cursor'[b] >= floor[b]
        /\ Calm => \A e \in Event, b \in Box : Missing(e, b) => cursor'[b] < created[e]
    BY <1>1 DEF HistoryInv, Calm, Stay
  <1>5. QED
    BY <1>1, <1>2, <1>3, <1>4, CoreKeptByProcess

\* The steps of a process together.
LEMMA WorksKeepsCore ==
  ASSUME BaseInv, HistoryInv, NEW p \in Sidecar, Works(p) \/ Die(p) PROVE KeepsCore
  BY InitializeKeepsCore, SaveNewCursorsKeepsCore, PollKeepsCore, ReadChangesKeepsCore,
     HydrateKeepsCore, HydratedKeepsCore, SaveQuietKeepsCore, EmitKeepsCore, AckedKeepsCore,
     RestKeepsCore DEF Works

\* A step of the plugin that hears of nothing new.
LEMMA CoreKeptByPlugin ==
  ASSUME BaseInv, HistoryInv, UNCHANGED <<hey, cursor, floor>>, Settled \subseteq Settled',
         \A e \in Event : Found(e)' => Found(e), Calm => Ordered',
         \A p \in Sidecar : side'[p] = side[p] \/ (HistorySound(p)' /\ (Calm => StaySound(p)'))
  PROVE  KeepsCore
  <1>1. HistoryInv /\ (Calm => Stay)
    BY DEF Calm
  <1>2. \A b \in Box : cursor'[b] >= floor[b]
    BY <1>1 DEF HistoryInv
  <1>3. Calm =>
          /\ \A e \in Event, b \in Box : Missing(e, b) => cursor'[b] < created[e]
          /\ \A e, f \in Event : Before(e, f) /\ Found(f)' => e \in Settled'
    BY <1>1 DEF Stay
  <1>4. QED
    BY <1>2, <1>3, CoreKept

\* What is persisted had all that was before it in its thread persisted earlier.
LEMMA IngestKeepsCore ==
  ASSUME BaseInv, HistoryInv, Ingest PROVE KeepsCore
  <1> DEFINE h == handling.event
  <1>1. /\ UNCHANGED <<hey, cursor, floor, side, frame>>
        /\ handling.step = "ingest" /\ handling' = [handling EXCEPT !.step = "ack"]
        /\ queued' = IF h \in Settled THEN queued ELSE Append(queued, h)
    BY DEF Ingest
  <1>2. /\ handling \in [event : Event \cup {None}, step : {"none", "ingest", "ack"}]
        /\ handling.step = "none" <=> handling.event = None
        /\ queued \in Seq(Event)
    BY DEF BaseInv, PluginInv
  <1>3. h \in Event /\ handling'.event = h
    BY <1>1, <1>2
  <1> HIDE DEF h
  <1>4. HistoryInv /\ (Calm => Stay)
    BY DEF Calm
  <1>5. h = handling.event
    BY DEF h
  <1>6. CASE h \in Settled
    <2>1. queued' = queued /\ Settled' = Settled
      BY <1>1, <1>6 DEF Settled
    <2>2. \A e \in Event : Found(e)' => Found(e)
      BY <1>1, <1>3, <1>5, <2>1 DEF Found
    <2>3. Calm => Ordered'
      BY <1>1, <1>4, <2>1 DEF Stay, Ordered, hey
    <2>4. QED
      BY <1>1, <2>1, <2>2, <2>3, CoreKeptByPlugin
  <1>7. CASE h \notin Settled
    <2>1. queued' = Append(queued, h)
      BY <1>1, <1>7
    <2>2. Settled' = Settled \cup {h} /\ queued' \in Seq(Event)
      BY <1>2, <1>3, <2>1, AppendRange DEF Settled
    <2>3. \A e \in Event : Found(e)' => Found(e)
      BY <1>1, <1>3, <1>5, <2>2 DEF Found
    <2>4. /\ DOMAIN queued = 1..Len(queued) /\ Len(queued) \in Nat
          /\ \A i \in DOMAIN queued : queued[i] \in Event
      BY <1>2, SettledAreEvents
    <2>5. /\ DOMAIN queued' = 1..(Len(queued) + 1)
          /\ \A i \in DOMAIN queued : queued'[i] = queued[i]
          /\ queued'[Len(queued) + 1] = h
      <3>1. DOMAIN queued' = 1..Len(queued') /\ Len(queued') = Len(queued) + 1
        BY <1>2, <1>3, <2>1, <2>2, AppendProperties, LenProperties
      <3>2. /\ \A i \in 1..Len(queued) : queued'[i] = queued[i]
            /\ queued'[Len(queued) + 1] = h
        BY <1>2, <1>3, <2>1, AppendProperties
      <3>3. QED
        BY <2>4, <3>1, <3>2
    <2>6. ASSUME Calm, NEW e \in Event, e \in Settled, ThreadOf[e] = ThreadOf[h]
          PROVE  created[e] < created[h]
      <3>1. Found(e) /\ Found(h)
        BY <1>5, <2>6 DEF Found
      <3>2. SetUp /\ \A b \in Box : created[e] > floor[b] /\ created[h] > floor[b]
        BY <1>3, <1>4, <3>1 DEF HistoryInv
      <3>3. Expected(h)
        BY <3>2 DEF Expected
      <3>4. created[e] \in Nat /\ created[h] \in Nat /\ \A b \in Box : floor[b] \in Nat
        BY <1>3, TimesAreNumbers DEF BaseInv
      <3>5. ~(created[h] < created[e])
        BY <1>3, <1>4, <1>7, <2>6, <3>1, <3>3 DEF Stay, Before
      <3>6. created[h] # created[e]
        <4>1. 1 \in Box
          BY ConstantsAssumption DEF Box
        <4>2. created[e] > 0
          BY <3>2, <3>4, <4>1
        <4>3. e # h
          BY <1>7, <2>6
        <4>4. QED
          BY <1>3, <4>2, <4>3 DEF BaseInv, ClockInv
      <3>7. QED
        BY <3>4, <3>5, <3>6
    <2>7. ASSUME Calm PROVE Ordered'
      <3>1. Ordered
        BY <1>4, <2>7 DEF Stay
      <3>2. ASSUME NEW i \in DOMAIN queued', NEW j \in DOMAIN queued', i < j,
                   ThreadOf[queued'[i]] = ThreadOf[queued'[j]]
            PROVE  created[queued'[i]] < created[queued'[j]]
        <4>1. i \in DOMAIN queued /\ queued'[i] = queued[i]
          BY <2>4, <2>5, <3>2
        <4>2. CASE j \in DOMAIN queued
          BY <2>5, <3>1, <3>2, <4>1, <4>2 DEF Ordered
        <4>3. CASE j = Len(queued) + 1
          <5>1. queued'[j] = h
            BY <2>5, <4>3
          <5>2. queued[i] \in Event /\ queued[i] \in Settled
            BY <2>4, <4>1 DEF Settled, Range
          <5>3. QED
            BY <2>6, <2>7, <3>2, <4>1, <5>1, <5>2
        <4>4. QED
          BY <2>4, <2>5, <4>2, <4>3
      <3>3. created' = created
        BY <1>1 DEF hey
      <3>4. QED
        BY <3>2, <3>3 DEF Ordered
    <2>8. QED
      BY <1>1, <2>2, <2>3, <2>7, CoreKeptByPlugin
  <1>8. QED
    BY <1>6, <1>7

\* Of the plugin's other steps none brings an event to the queue.
LEMMA PluginKeepsCore ==
  ASSUME BaseInv, HistoryInv, Plugin \/ StopWatch \/ GatewayCrash PROVE KeepsCore
  <1>1. /\ HistoryInv /\ (Calm => Stay)
        /\ \A p \in Sidecar : HistorySound(p) /\ (Calm => StaySound(p))
    BY DEF HistoryInv, Calm, Stay
  <1>2. ASSUME UNCHANGED <<hey, queued>> PROVE Settled' = Settled /\ (Calm => Ordered')
    BY <1>1, <1>2 DEF Settled, Stay, Ordered, hey
  <1>3. NotHandling.event = None
    BY DEF NotHandling
  <1>4. CASE ReadFrame
    <2>1. UNCHANGED <<hey, cursor, floor, side, queued>> /\ handling'.event = frame /\ frame' = None
      BY <1>4 DEF ReadFrame
    <2>2. \A e \in Event : Found(e)' => Found(e)
      BY <1>2, <2>1, ConstantsAssumption DEF Found
    <2>3. QED
      BY <1>2, <2>1, <2>2, CoreKeptByPlugin
  <1>5. CASE Ingest
    BY <1>5, IngestKeepsCore
  <1>6. CASE SendAck
    <2>1. /\ UNCHANGED <<hey, cursor, floor, frame, queued>>
          /\ handling.step = "ack" /\ handling' = NotHandling
          /\ IF side[watching].at = "waiting"
             THEN Becomes(watching, [side[watching] EXCEPT !.at = "acked"])
             ELSE UNCHANGED side
      BY <1>6 DEF SendAck
    <2>2. \A e \in Event : Found(e)' => Found(e)
      BY <1>2, <1>3, <2>1, ConstantsAssumption DEF Found
    <2>3. CASE UNCHANGED side
      BY <1>2, <2>1, <2>2, <2>3, CoreKeptByPlugin
    <2>4. CASE side[watching].at = "waiting" /\ ~UNCHANGED side
      <3>1. watching \in Sidecar
        <4>1. handling # NotHandling
          BY <2>1 DEF NotHandling
        <4>2. QED
          BY <4>1 DEF BaseInv, PluginInv
      <3>2. PICK p \in Sidecar : p = watching
        BY <3>1
      <3>3. Becomes(p, [side[p] EXCEPT !.at = "acked"]) /\ "acked" \in Stage /\ side[p].at = "waiting"
        BY <2>1, <2>4, <3>2 DEF Stage
      <3>4. /\ Others(p) /\ side'[p].at = "acked"
            /\ side'[p].cursor = side[p].cursor /\ side'[p].next = side[p].next
            /\ side'[p].postings = side[p].postings /\ side'[p].foundIn = side[p].foundIn
        BY <3>3, StageProperties DEF BaseInv
      <3>5. side[p].at \in Polling /\ side'[p].at \in Polling
        BY <3>3, <3>4 DEF Polling
      <3>6. HistorySound(p)' /\ (Calm => StaySound(p)')
        BY <1>1, <1>2, <2>1, <3>4, <3>5, PollGoesOn
      <3>7. \A q \in Sidecar : side'[q] = side[q] \/ q = p
        BY <3>4 DEF Others
      <3>8. QED
        BY <1>2, <2>1, <2>2, <3>6, <3>7, CoreKeptByPlugin
    <2>5. QED
      BY <2>1, <2>3, <2>4
  <1>7. CASE WatchEnds \/ GatewayCrash
    <2>1. /\ UNCHANGED <<hey, cursor, floor, side, queued>>
          /\ frame' = None /\ handling' = NotHandling
      BY <1>7 DEF WatchEnds, GatewayCrash
    <2>2. \A e \in Event : Found(e)' => Found(e)
      BY <1>2, <1>3, <2>1, ConstantsAssumption DEF Found
    <2>3. QED
      BY <1>2, <2>1, <2>2, CoreKeptByPlugin
  <1>8. CASE StopWatch
    <2>1. /\ UNCHANGED <<hey, cursor, floor, queued>> /\ Becomes(watching, Off)
          /\ watching \in Sidecar /\ frame' = None /\ handling' = NotHandling
      BY <1>8 DEF StopWatch, BaseInv, PluginInv
    <2>2. \A e \in Event : Found(e)' => Found(e)
      BY <1>2, <1>3, <2>1, ConstantsAssumption DEF Found
    <2>3. PICK p \in Sidecar : p = watching
      BY <2>1
    <2>4. Others(p) /\ side'[p].at = "off"
      BY <2>1, <2>3, BecomesProperties, OffProperties DEF BaseInv, SideInv
    <2>5. HistorySound(p)' /\ StaySound(p)'
      BY <2>4, RestIsSound
    <2>6. \A q \in Sidecar : side'[q] = side[q] \/ q = p
      BY <2>4 DEF Others
    <2>7. QED
      BY <1>2, <2>1, <2>2, <2>5, <2>6, CoreKeptByPlugin
  <1>9. ASSUME NEW p \in Sidecar, StartWatch(p) PROVE KeepsCore
    <2>1. /\ UNCHANGED <<hey, cursor, floor, frame, handling, queued>>
          /\ Becomes(p, [side[p] EXCEPT !.at = "start"]) /\ "start" \in Stage
      BY <1>9 DEF StartWatch, Stage
    <2>2. \A e \in Event : Found(e)' => Found(e)
      BY <1>2, <2>1 DEF Found
    <2>3. Others(p) /\ side'[p].at = "start"
      BY <2>1, StageProperties DEF BaseInv
    <2>4. HistorySound(p)' /\ StaySound(p)'
      BY <2>3, RestIsSound
    <2>5. \A q \in Sidecar : side'[q] = side[q] \/ q = p
      BY <2>3 DEF Others
    <2>6. QED
      BY <1>2, <2>1, <2>2, <2>4, <2>5, CoreKeptByPlugin
  <1>10. QED
    BY <1>4, <1>5, <1>6, <1>7, <1>8, <1>9 DEF Plugin

\* An entry that arrives is later than every cursor; a move ends what holds only
\* as long as threads stay where they are.
LEMMA HEYKeepsCore ==
  ASSUME BaseInv, HistoryInv, HEY PROVE KeepsCore
  <1>1. /\ now' = now + 1 /\ UNCHANGED <<cursor, floor, side, plugin>>
        /\ \A e \in Event : created'[e] = created[e] \/ (created[e] = 0 /\ created'[e] = now + 1)
        /\ moves' = 0 => moves = 0 /\ UNCHANGED boxesOf
    <2>1. created \in [Event -> Past] /\ moves \in Nat
      BY ConstantsAssumption DEF BaseInv, ClockInv
    <2>2. CASE \E e \in Event : Arrive(e)
      BY <2>1, <2>2 DEF Arrive
    <2>3. CASE \E t \in Thread : Move(t)
      BY <2>1, <2>3 DEF Move
    <2>4. QED
      BY <2>2, <2>3 DEF HEY
  <1>2. /\ now \in Nat
        /\ \A e \in Event : created[e] \in Nat /\ created[e] <= now
        /\ \A b \in Box : floor[b] \in Nat /\ cursor[b] \in Nat /\ cursor[b] <= now
        /\ \A p \in Sidecar, b \in Box : /\ side[p].cursor[b] \in Nat /\ side[p].cursor[b] <= now
                                         /\ side[p].next[b] \in Nat /\ side[p].next[b] <= now
    BY TimesAreNumbers DEF BaseInv
  <1>3. 1 \in Box
    BY ConstantsAssumption DEF Box
  <1>4. HistoryInv /\ (Calm => Stay)
    BY DEF Calm
  <1>5. \A e \in Event : created[e] > 0 => created'[e] = created[e]
    BY <1>1
  <1>6. \A e \in Event : Found(e)' <=> Found(e)
    BY <1>1 DEF Found, Settled, plugin
  <1>7. \A e \in Event : Found(e) => SetUp /\ created[e] > 0 /\ \A b \in Box : created[e] > floor[b]
    BY <1>2, <1>3, <1>4 DEF HistoryInv
  <1>8. \A p \in Sidecar, e \in Event : side[p].foundIn[e] # {} => created[e] > 0
    BY DEF BaseInv, SideInv, SideSound
  <1>9. SetUp' <=> SetUp
    BY <1>1 DEF SetUp
  <1>10. HistoryInv'
    <2>1. ASSUME NEW p \in Sidecar PROVE HistorySound(p)'
      BY <1>1, <1>4, <1>5, <1>8, <1>9 DEF HistoryInv, HistorySound
    <2>2. \A e \in Event : Found(e)' => SetUp' /\ \A b \in Box : created'[e] > floor'[b]
      BY <1>1, <1>5, <1>6, <1>7, <1>9
    <2>3. QED
      BY <1>1, <1>4, <1>9, <2>1, <2>2 DEF HistoryInv
  <1>11. ASSUME StayInv, moves' = 0 PROVE Stay'
    <2>1. Stay /\ boxesOf' = boxesOf /\ Settled' = Settled
      BY <1>1, <1>11 DEF Settled, plugin, StayInv
    <2>2. ASSUME NEW e \in Event
          PROVE  \/ created'[e] = now + 1
                 \/ created'[e] = created[e] /\ (Expected(e)' <=> Expected(e))
      BY <1>1, <1>9 DEF Expected
    <2>3. ASSUME NEW e \in Event, NEW b \in Box, Missing(e, b)'
          PROVE  created'[e] = now + 1 \/ (created'[e] = created[e] /\ Missing(e, b))
      BY <2>1, <2>2, <2>3 DEF Missing
    <2>4. ASSUME NEW e \in Event, NEW f \in Event, Before(e, f)', created[f] > 0 PROVE Before(e, f)
      <3>1. created'[f] = created[f] /\ created'[e] < created'[f] /\ Expected(e)'
            /\ ThreadOf[e] = ThreadOf[f]
        BY <1>5, <2>4 DEF Before
      <3>2. created'[e] # now + 1
        BY <1>2, <3>1
      <3>3. QED
        BY <2>2, <3>1, <3>2 DEF Before
    <2>5. \A e \in Event, b \in Box : Missing(e, b)' => cursor'[b] < created'[e]
      BY <1>1, <1>2, <1>4, <2>1, <2>3 DEF Stay
    <2>6. \A e, f \in Event : Before(e, f)' /\ Found(f)' => e \in Settled'
      BY <1>4, <1>6, <1>7, <2>1, <2>4 DEF Stay
    <2>7. Ordered'
      <3>1. queued \in Seq(Event) /\ queued' = queued
        BY <1>1 DEF BaseInv, PluginInv, plugin
      <3>2. \A i \in DOMAIN queued : queued[i] \in Event /\ queued[i] \in Settled
        BY <3>1, SettledAreEvents DEF Settled, Range
      <3>3. \A i \in DOMAIN queued : created'[queued[i]] = created[queued[i]]
        BY <1>5, <1>7, <3>2 DEF Found
      <3>4. QED
        BY <1>4, <2>1, <3>1, <3>3 DEF Stay, Ordered
    <2>8. ASSUME NEW p \in Sidecar PROVE StaySound(p)'
      <3>1. StaySound(p)
        BY <1>4, <2>1 DEF Stay
      <3>2. side'[p] = side[p]
        BY <1>1
      <3>3. ASSUME side[p].at \in Polling, NEW e \in Event, NEW b \in Box, Missing(e, b)'
            PROVE  /\ side[p].cursor[b] < created'[e]
                   /\ side[p].next[b] >= created'[e] =>
                        <<b, ThreadOf[e]>> \in side[p].postings \/ b \in side[p].foundIn[e]
        <4>1. CASE created'[e] = now + 1
          BY <1>2, <4>1
        <4>2. CASE created'[e] = created[e] /\ Missing(e, b)
          BY <3>1, <3>3, <4>2 DEF StaySound
        <4>3. QED
          BY <2>3, <3>3, <4>1, <4>2
      <3>4. ASSUME side[p].at \in Polling, NEW e \in Event, NEW f \in Event, Before(e, f)',
                   side[p].foundIn[f] # {}
            PROVE  e \in Settled \/ side[p].foundIn[e] # {}
        <4>1. Before(e, f)
          BY <1>8, <2>4, <3>4
        <4>2. QED
          BY <3>1, <3>4, <4>1 DEF StaySound
      <3>5. side[p].at \in Polling => \A bt \in side[p].postings : bt[1] \in boxesOf'[bt[2]]
        BY <2>1, <3>1 DEF StaySound
      <3>6. QED
        BY <2>1, <3>2, <3>3, <3>4, <3>5 DEF StaySound
    <2>9. QED
      BY <2>5, <2>6, <2>7, <2>8 DEF Stay
  <1>12. QED
    BY <1>10, <1>11 DEF KeepsCore, StayInv

\* The steps of a behaviour together.
LEMMA NextKeepsCore ==
  ASSUME BaseInv, HistoryInv, [Next]_vars PROVE KeepsCore
  <1>1. CASE Next
    BY <1>1, HEYKeepsCore, WorksKeepsCore, PluginKeepsCore DEF Next
  <1>2. CASE UNCHANGED vars
    <2>1. UNCHANGED <<hey, cursor, floor, side, frame, handling, queued>>
      BY <1>2 DEF vars, hey
    <2>2. Settled' = Settled /\ \A e \in Event : Found(e)' => Found(e)
      BY <2>1 DEF Settled, Found
    <2>3. Calm => Ordered'
      BY <2>1 DEF Calm, Stay, Ordered, hey
    <2>4. QED
      BY <2>1, <2>2, <2>3, CoreKeptByPlugin
  <1>3. QED
    BY <1>1, <1>2

\* Nothing has been set up or found yet, unless the file is there from before.
LEMMA InitCore ==
  ASSUME Init PROVE CoreInv
  <1>1. /\ created = [e \in Event |-> 0] /\ cursor = [b \in Box |-> IF FirstStart THEN 0 ELSE 1]
        /\ floor = cursor /\ side = [p \in Sidecar |-> Off]
        /\ queued = <<>> /\ frame = None /\ handling = NotHandling
    BY DEF Init
  <1>2. Settled = {} /\ DOMAIN queued = {}
    BY <1>1 DEF Settled, Range
  <1>3. \A e \in Event : ~Found(e)
    BY <1>1, <1>2, ConstantsAssumption DEF Found, NotHandling
  <1>4. \A p \in Sidecar : side[p].at = "off"
    BY <1>1 DEF Off
  <1>5. \A p \in Sidecar : HistorySound(p) /\ StaySound(p)
    BY <1>4 DEF HistorySound, StaySound, Polling
  <1>6. 1 \in Box
    BY ConstantsAssumption DEF Box
  <1>7. \A b \in Box : cursor[b] \in Nat /\ floor[b] = cursor[b]
    BY <1>1
  <1>8. HistoryInv
    <2>1. FirstStart \/ SetUp
      BY <1>1, <1>6 DEF SetUp
    <2>2. QED
      BY <1>1, <1>3, <1>5, <1>7, <2>1 DEF HistoryInv
  <1>9. \A e \in Event : ~Expected(e)
    BY <1>1, <1>6, <1>7 DEF Expected
  <1>10. Stay
    BY <1>2, <1>3, <1>5, <1>9 DEF Stay, Missing, Before, Ordered
  <1>11. QED
    BY <1>8, <1>10 DEF CoreInv, StayInv

\* Whichever processes set up the file, no process, file or queue goes back behind
\* the earliest set-up.
THEOREM HistoryInvariance == Spec => []HistoryInv
  <1>1. Init => HistoryInv
    BY InitCore DEF CoreInv
  <1>2. BaseInv /\ HistoryInv /\ [Next]_vars => HistoryInv'
    BY NextKeepsCore DEF KeepsCore
  <1>3. QED
    BY <1>1, <1>2, BaseInvariance, PTL DEF Spec

\* Nothing is passed by or brought out of order, as far as each part of the
\* program can tell.
THEOREM CoreInvariance == Spec /\ []SetUpOnce => []CoreInv
  <1>1. Init => StayInv
    BY InitCore DEF CoreInv
  <1>2. BaseInv /\ HistoryInv /\ SetUpOnce /\ StayInv /\ [Next]_vars => StayInv'
    BY NextKeepsCore DEF KeepsCore
  <1>3. HistoryInv /\ StayInv => CoreInv
    BY DEF CoreInv
  <1>4. QED
    BY <1>1, <1>2, <1>3, BaseInvariance, HistoryInvariance, PTL DEF Spec

\* The first start establishes the cursors without replaying history, however many
\* sidecars set up the file, die and write it after each other: what is queued was
\* created after the watch of one of its boxes was set up for the first time.
THEOREM NothingFromBefore == Spec => []NoHistory
  <1>1. BaseInv /\ HistoryInv => NoHistory
    <2> SUFFICES ASSUME BaseInv, HistoryInv, NEW e \in Settled
                 PROVE  \E b \in boxesOf[ThreadOf[e]] : created[e] > floor[b]
      BY DEF NoHistory
    <2>1. e \in Event
      BY SettledAreEvents DEF BaseInv, PluginInv
    <2>2. \A b \in Box : created[e] > floor[b]
      BY <2>1 DEF HistoryInv, Found
    <2>3. boxesOf[ThreadOf[e]] # {} /\ boxesOf[ThreadOf[e]] \subseteq Box
      BY <2>1, ConstantsAssumption DEF BaseInv, ClockInv
    <2>4. QED
      BY <2>2, <2>3
  <1>2. QED
    BY <1>1, BaseInvariance, HistoryInvariance, PTL

\* Only initialize makes cursors of the present.
LEMMA NewCursorsFromInitialize ==
  ASSUME BaseInv, [Next]_vars, \A p \in Sidecar : ~Initialize(p),
         NEW q \in Sidecar
  PROVE  side'[q].at = "new cursors" => side[q].at = "new cursors"
  <1> DEFINE NoneMade == side'[q].at = "new cursors" => side[q].at = "new cursors"
  <1>1. ASSUME NEW p \in Sidecar, Others(p), side'[p].at # "new cursors"
        PROVE  NoneMade
    BY <1>1 DEF Others
  <1>2. ASSUME NEW p \in Sidecar, NEW k \in Stage \ {"new cursors"},
               Becomes(p, [side[p] EXCEPT !.at = k])
        PROVE  NoneMade
    BY <1>1, <1>2, StageProperties DEF BaseInv
  <1>3. ASSUME NEW p \in Sidecar, Becomes(p, Off) PROVE NoneMade
    BY <1>1, <1>3, BecomesProperties, OffProperties DEF BaseInv, SideInv
  <1>4. ASSUME NEW p \in Sidecar, Works(p) \/ Die(p) PROVE NoneMade
    <2>1. CASE Poll(p) \/ ReadChanges(p) \/ Hydrate(p)
      BY <1>1, <2>1, PollProperties, ReadChangesProperties, HydrateProperties DEF BaseInv
    <2>2. CASE SaveQuiet(p) \/ Acked(p)
      BY <1>1, <2>2, SaveQuietProperties, AckedProperties DEF BaseInv
    <2>3. CASE SaveNewCursors(p) \/ Hydrated(p) \/ Emit(p)
      BY <1>2, <2>3 DEF SaveNewCursors, Hydrated, Emit, Stage
    <2>4. CASE PipesClosed(p) \/ Die(p)
      BY <1>3, <2>4 DEF PipesClosed, Die
    <2>5. QED
      BY <1>4, <2>1, <2>2, <2>3, <2>4 DEF Works
  <1>5. CASE HEY \/ ReadFrame \/ Ingest \/ WatchEnds \/ GatewayCrash \/ UNCHANGED vars
    BY <1>5 DEF HEY, Arrive, Move, ReadFrame, Ingest, WatchEnds, GatewayCrash, vars
  <1>6. CASE SendAck
    <2>1. CASE UNCHANGED side
      BY <2>1
    <2>2. CASE side[watching].at = "waiting" /\ ~UNCHANGED side
      <3>1. watching \in Sidecar
        <4>1. handling.step = "ack"
          BY <1>6 DEF SendAck
        <4>2. handling # NotHandling
          BY <4>1 DEF NotHandling
        <4>3. QED
          BY <4>2 DEF BaseInv, PluginInv
      <3>2. QED
        BY <1>2, <1>6, <2>2, <3>1 DEF SendAck, Stage
    <2>3. QED
      BY <1>6, <2>1, <2>2 DEF SendAck
  <1>7. CASE StopWatch
    BY <1>3, <1>7 DEF StopWatch, BaseInv, PluginInv
  <1>8. CASE \E p \in Sidecar : StartWatch(p)
    BY <1>2, <1>8 DEF StartWatch, Stage
  <1>9. QED
    BY <1>4, <1>5, <1>6, <1>7, <1>8 DEF Next, Plugin

\* The file is set up once if it was there from the beginning, or if there is one
\* process at a time.
THEOREM NoOrphanAtSetUp ==
  ASSUME ~FirstStart \/ (\A p, q \in Sidecar : p = q) PROVE Spec => []SetUpOnce
  <1>1. BaseInv /\ HistoryInv /\ SetUpOnce /\ [Next]_vars => SetUpOnce'
    <2> SUFFICES ASSUME BaseInv, HistoryInv, SetUpOnce, [Next]_vars, SetUp',
                        NEW q \in Sidecar
                 PROVE  side'[q].at # "new cursors"
      BY DEF SetUpOnce
    <2>1. CASE \E p \in Sidecar : SaveNewCursors(p)
      <3>1. PICK p \in Sidecar : SaveNewCursors(p)
        BY <2>1
      <3>2. /\ side[p].at = "new cursors" /\ "idle" \in Stage
            /\ Becomes(p, [side[p] EXCEPT !.at = "idle"])
        BY <3>1 DEF SaveNewCursors, Stage
      <3>3. Others(p) /\ side'[p].at = "idle"
        BY <3>2, StageProperties DEF BaseInv
      <3>4. ~SetUp
        BY <3>2 DEF SetUpOnce
      <3>5. q = p
        BY <3>4 DEF HistoryInv
      <3>6. QED
        BY <3>3, <3>5
    <2>2. CASE ~\E p \in Sidecar : SaveNewCursors(p)
      <3>1. floor' = floor
        BY <2>2 DEF Next, HEY, Arrive, Move, Works, Initialize, Poll, ReadChanges, Hydrate,
                    Hydrated, SaveQuiet, Emit, Acked, PipesClosed, Die, Plugin, ReadFrame,
                    Ingest, SendAck, WatchEnds, StartWatch, StopWatch, GatewayCrash, InMemory,
                    vars
      <3>2. SetUp
        BY <3>1 DEF SetUp
      <3>3. side[q].at # "new cursors"
        BY <3>2 DEF SetUpOnce
      <3>4. ASSUME NEW p \in Sidecar, Initialize(p) PROVE side'[q].at # "new cursors"
        <4>1. /\ Others(p)
              /\ side'[p].at = IF \E b \in Box : cursor[b] = 0 THEN "new cursors" ELSE "idle"
          BY <3>4, InitializeProperties DEF BaseInv
        <4>2. \A b \in Box : cursor[b] \in Nat /\ floor[b] \in Nat
          BY TimesAreNumbers DEF BaseInv
        <4>3. (\A b \in Box : floor[b] # 0) /\ \A b \in Box : cursor[b] >= floor[b]
          BY <3>2 DEF SetUp, HistoryInv
        <4>4. ASSUME NEW b \in Box PROVE cursor[b] # 0
          <5>1. cursor[b] \in Nat /\ floor[b] \in Nat /\ floor[b] # 0 /\ cursor[b] >= floor[b]
            BY <4>2, <4>3
          <5>2. QED
            BY <5>1
        <4>5. side'[p].at = "idle"
          BY <4>1, <4>4
        <4>6. QED
          BY <3>3, <4>1, <4>5 DEF Others
      <3>5. QED
        BY <3>3, <3>4, NewCursorsFromInitialize
    <2>3. QED
      BY <2>1, <2>2
  <1>2. Init => SetUpOnce
    <2>1. Init => \A p \in Sidecar : side[p] = Off
      BY DEF Init
    <2>2. Off.at # "new cursors"
      BY DEF Off
    <2>3. QED
      BY <2>1, <2>2 DEF SetUpOnce
  <1>3. QED
    BY <1>1, <1>2, BaseInvariance, HistoryInvariance, PTL DEF Spec

\* The cursor file never passes an event that the plugin has not persisted, in
\* whatever state the sidecars, the pipes and the plugin are lost, as long as the
\* file is set up once.
THEOREM CursorsWait == Spec /\ []SetUpOnce => []NothingPassedBy
  <1>1. BaseInv /\ CoreInv => NothingPassedBy
    <2> SUFFICES ASSUME BaseInv, CoreInv, NEW e \in Event, NEW b \in Box,
                        moves = 0, Owed(e, b), e \notin Settled
                 PROVE  cursor[b] < created[e]
      BY DEF NothingPassedBy
    <2>1. SetUp
      BY DEF Owed, SetUp
    <2>2. \A c \in Box : created[e] > floor[c]
      BY DEF Owed, CoreInv, HistoryInv
    <2>3. Missing(e, b)
      BY <2>1, <2>2 DEF Missing, Expected, Owed
    <2>4. QED
      BY <2>3 DEF CoreInv, StayInv, Stay
  <1>2. QED
    BY <1>1, BaseInvariance, CoreInvariance, PTL

\* As long as no thread is moved and the file is set up once, the events of a thread
\* are queued in the order in which they were created, however many processes write
\* the cursor file.
THEOREM ThreadsInOrder == Spec /\ []SetUpOnce => [](moves = 0 => ThreadOrder)
  <1>1. CoreInv => (moves = 0 => ThreadOrder)
    BY DEF CoreInv, StayInv, Stay, Ordered, ThreadOrder
  <1>2. QED
    BY <1>1, CoreInvariance, PTL

=============================================================================

---------------------------- MODULE AdapterProofs ----------------------------
(***************************************************************************)
(* The safety invariants of module Adapter hold for every number of        *)
(* events, threads and adapter instances, every allow list and every       *)
(* bound.                                                                  *)
(*                                                                         *)
(* There are two inductive invariants.  WorkInv ties sessions to claims:   *)
(* OneSessionPerThread is not inductive, because it says neither that a    *)
(* session at work has a claim nor that a message waits at a leaving       *)
(* session only, nor whose claim an event has that a drain is giving to    *)
(* Hermes, and without these a drain could claim a thread that is being    *)
(* worked on.  ClaimHasWork needs to know, too, that a claim left behind   *)
(* is never given back, and that a task which waits for handle_message     *)
(* does not begin another drain (TasksFree), so that no claim is           *)
(* forgotten.  AnswerInv, which is inductive where WorkInv holds,          *)
(* ties the answers HEY has applied to the sessions and to the queue: an   *)
(* event that is not completed has one answer more than results were lost  *)
(* only while the session that got it waits for its result.                *)
(***************************************************************************)
EXTENDS Adapter, SequenceLemmas, TLAPS

\* The type invariant by what changes together: the queue, ...
QueueTyped ==
  /\ pending \in Seq(Event) /\ Len(pending) <= MaxPending
  /\ completed \in Seq(Event)
  /\ dropped \subseteq Event

\* ... the work on it, ...
WorkTyped ==
  /\ claims \in [Thread -> Event \cup {Nobody}]
  /\ \A t \in Thread : claims[t] # Nobody => ThreadOf[claims[t]] = t
  /\ drain \in [Instance -> [Task -> Seq(Event)]]
  /\ giving \in [Instance -> [Task -> Event \cup {Nobody}]]
  /\ session \in [Instance -> [Thread -> Session]]
  /\ kept \subseteq Thread

\* ... the lives of the adapters, ...
RestTyped ==
  /\ live \in Instance \cup {Nobody}
  /\ status \in [Instance -> {"new", "connecting", "up", "closing", "down"}]
  /\ probing \subseteq Instance /\ open \subseteq Instance /\ due \subseteq Instance
  /\ waiting \in [Instance -> SUBSET Thread]

\* ... and what HEY has done and what went wrong.
CountsTyped ==
  /\ answered \in [Event -> Nat]
  /\ failures \in 0..MaxTroubles /\ crashes \in 0..MaxCrashes
  /\ lost \in 0..(MaxTroubles + crashes * Cardinality(Thread))

\* The parts of the type invariant.
LEMMA TypeParts == TypeOK <=> QueueTyped /\ WorkTyped /\ RestTyped /\ CountsTyped
  BY DEF TypeOK, QueueTyped, WorkTyped, RestTyped, CountsTyped

\* The step leaves alone every session whose answer is on its way.
SendsKept ==
  \A a \in Instance, t \in Thread :
    {session[a][t].phase, session'[a][t].phase} \cap {"sending", "applied"} # {} =>
      session'[a][t] = session[a][t]

\* The adapter works on the thread, or has a message for it.
Holds(a, t) == session[a][t].phase \in Working \/ session[a][t].next # Nobody

\* At most one adapter holds a thread, and what it works on is the claim.
OneAtWork ==
  \A t \in Thread, a \in Instance :
    /\ session[a][t].phase \in Working =>
         /\ claims[t] # Nobody /\ session[a][t].event = claims[t]
         /\ session[a][t].next = Nobody
    /\ session[a][t].next # Nobody =>
         session[a][t].phase = "leaving" /\ claims[t] = session[a][t].next
    /\ session[a][t].phase \in {"sending", "applied"} =>
         session[a][t].target = session[a][t].event
    /\ \A b \in Instance : Holds(a, t) /\ Holds(b, t) => a = b

\* An event that a drain gives to Hermes is claimed, and nobody else has its thread.
GivenApart ==
  \A a \in Instance, w \in Task, e \in Event : giving[a][w] = e =>
    /\ claims[ThreadOf[e]] = e /\ ThreadOf[e] \notin kept
    /\ \A b \in Instance : ~Holds(b, ThreadOf[e])
    /\ \A b \in Instance, v \in Task : giving[b][v] = e => b = a /\ v = w

\* A thread whose claim was left behind stays claimed, and nobody has it.
KeptApart == \A t \in kept : claims[t] # Nobody /\ \A a \in Instance : ~Holds(a, t)

\* Every claim, and nothing but a claim, is held, given or left behind.
ClaimsSound == OneAtWork /\ GivenApart /\ KeptApart /\ ClaimHasWork

\* A task that is about to begin a drain has none under way.
TasksFree ==
  \A a \in Instance :
    /\ status[a] # "connecting" => IsFree(a, "connect")
    /\ status[a] \in {"new", "connecting"} => IsFree(a, "gateway")
    /\ a \in probing => status[a] = "up" /\ IsFree(a, "gateway")
    /\ a \in due => IsFree(a, "watch")

\* The first inductive invariant.
WorkInv == TypeOK /\ TasksFree /\ ClaimsSound

-----------------------------------------------------------------------------

\* The walk stops at an event it may take, or behind the end.
LEMMA StopProperties ==
  ASSUME NEW a \in Instance, NEW list \in Seq(Event)
  PROVE  /\ Stop(a, list) \in 1..(Len(list) + 1)
         /\ Stop(a, list) <= Len(list) => Takes(a, list[Stop(a, list)])
         /\ \A i \in 1..Len(list) : i < Stop(a, list) => ~Takes(a, list[i])
  <1> DEFINE taken == {i \in DOMAIN list : Takes(a, list[i])}
  <1>1. Len(list) \in Nat /\ DOMAIN list = 1..Len(list)
    BY LenProperties
  <1>2. CASE taken = {}
    <2>1. Stop(a, list) = Len(list) + 1
      BY <1>2 DEF Stop
    <2>2. \A i \in 1..Len(list) : ~Takes(a, list[i])
      BY <1>1, <1>2
    <2>3. QED
      BY <1>1, <2>1, <2>2
  <1>3. CASE taken # {}
    <2>1. Stop(a, list) = CHOOSE i \in taken : \A j \in taken : i <= j
      BY <1>3 DEF Stop
    <2>2. taken \in SUBSET Nat
      BY <1>1
    <2> HIDE DEF taken
    <2>3. \E i \in taken : \A j \in taken : i <= j
      BY <1>3, <2>2, LeastNumber
    <2>4. Stop(a, list) \in taken /\ \A j \in taken : Stop(a, list) <= j
      BY <2>1, <2>3
    <2>5. QED
      BY <1>1, <2>2, <2>4 DEF taken
  <1>4. QED
    BY <1>2, <1>3

\* The queue after the walk has dropped what is no longer authorised.
LEMMA DropProperties ==
  ASSUME QueueTyped, NEW a \in Instance, NEW list \in Seq(Event), NEW n \in 0..Len(list),
         DropUnauthorised(a, list, n)
  PROVE  /\ QueueTyped'
         /\ Waiting' \subseteq Waiting /\ Done \subseteq Done'
         /\ Waiting' \cup Done' = Waiting \cup Done
         /\ Done' \subseteq Done \cup dropped' /\ dropped \subseteq dropped'
         /\ NoRepeat(pending) => NoRepeat(pending')
         /\ Waiting \cap Done = {} => Waiting' \cap Done' = {}
  <1> DEFINE drops == {list[i] : i \in 1..n} \ Allowed[a]
  <1>1. CASE drops = {}
    <2>1. UNCHANGED <<pending, completed, dropped>>
      BY <1>1 DEF DropUnauthorised, queue
    <2>2. QED
      BY <2>1 DEF QueueTyped, Waiting, Done
  <1>2. CASE drops # {}
    <2>1. /\ pending' = Only(pending, Waiting \ drops)
          /\ completed' = completed \o Only(pending, drops)
          /\ dropped' = dropped \cup drops
      BY <1>2 DEF DropUnauthorised
    <2>2. drops \subseteq Event
      <3>1. \A j \in 1..n : list[j] \in Event
        BY LenProperties, ElementOfSeq
      <3>2. QED
        BY <3>1
    <2> HIDE DEF drops
    <2>3. /\ pending' \in Seq(Event) /\ Len(pending') <= Len(pending) /\ Len(pending') \in Nat
          /\ Range(pending') = Range(pending) \cap (Waiting \ drops)
          /\ NoRepeat(pending) => NoRepeat(pending')
      BY <2>1, OnlyProperties DEF QueueTyped
    <2>4. Only(pending, drops) \in Seq(Event) /\ Range(Only(pending, drops)) = Range(pending) \cap drops
      BY OnlyProperties DEF QueueTyped
    <2>5. completed' \in Seq(Event) /\ Range(completed') = Range(completed) \cup (Range(pending) \cap drops)
      BY <2>1, <2>4, ConcatProperties, RangeConcatenation DEF QueueTyped
    <2>6. Len(pending) \in Nat /\ MaxPending \in Nat
      BY LenProperties, ConstantsAssumption DEF QueueTyped
    <2>7. QueueTyped'
      BY <2>1, <2>2, <2>3, <2>5, <2>6 DEF QueueTyped
    <2>8. QED
      BY <2>1, <2>3, <2>5, <2>7 DEF Waiting, Done
  <1>3. QED
    BY <1>1, <1>2

\* Claiming a free thread for an event that is given to Hermes.
LEMMA ClaimProperties ==
  ASSUME WorkTyped, ClaimsSound, NEW a \in Instance, NEW w \in Task, NEW e \in Event,
         claims[ThreadOf[e]] = Nobody, giving[a][w] = Nobody,
         claims' = [claims EXCEPT ![ThreadOf[e]] = e],
         giving' = [giving EXCEPT ![a][w] = e],
         UNCHANGED <<session, kept>>
  PROVE  /\ claims' \in [Thread -> Event \cup {Nobody}]
         /\ \A t \in Thread : claims'[t] # Nobody => ThreadOf[claims'[t]] = t
         /\ giving' \in [Instance -> [Task -> Event \cup {Nobody}]]
         /\ ClaimsSound'
  <1> DEFINE t == ThreadOf[e]
  <1>1. t \in Thread /\ e # Nobody /\ Nobody \notin Event
    BY ConstantsAssumption
  <1>2. t \notin kept /\ \A b \in Instance : ~Holds(b, t)
    BY <1>1 DEF ClaimsSound, OneAtWork, KeptApart, Holds
  <1>3. claims'[t] = e /\ \A u \in Thread \ {t} : claims'[u] = claims[u]
    BY <1>1 DEF WorkTyped
  <1>4. /\ giving' \in [Instance -> [Task -> Event \cup {Nobody}]]
        /\ giving'[a][w] = e
        /\ \A b \in Instance, v \in Task : b # a \/ v # w => giving'[b][v] = giving[b][v]
    BY DEF WorkTyped
  <1>5. \A b \in Instance, v \in Task : giving[b][v] # Nobody =>
          ThreadOf[giving[b][v]] \in Thread \ {t} /\ giving[b][v] # e
    <2>1. \A b \in Instance, v \in Task : giving[b][v] \in Event \cup {Nobody}
      BY DEF WorkTyped
    <2>2. QED
      BY <1>1, <2>1, ConstantsAssumption DEF ClaimsSound, GivenApart
  <1>6. \A b \in Instance, u \in Thread : Holds(b, u)' <=> Holds(b, u)
    BY DEF Holds
  <1>7. OneAtWork'
    BY <1>2, <1>3, <1>6 DEF ClaimsSound, OneAtWork, Holds, Working
  <1>8. GivenApart'
    <2> SUFFICES ASSUME NEW b \in Instance, NEW v \in Task, NEW x \in Event, giving'[b][v] = x
                 PROVE  /\ claims'[ThreadOf[x]] = x /\ ThreadOf[x] \notin kept'
                        /\ \A c \in Instance : ~Holds(c, ThreadOf[x])'
                        /\ \A c \in Instance, z \in Task : giving'[c][z] = x => c = b /\ z = v
      BY DEF GivenApart
    <2>1. CASE b = a /\ v = w
      <3>1. x = e
        BY <1>4, <2>1
      <3>2. \A c \in Instance, z \in Task : giving'[c][z] = e => c = a /\ z = w
        BY <1>1, <1>4, <1>5
      <3>3. QED
        BY <1>1, <1>2, <1>3, <1>6, <2>1, <3>1, <3>2
    <2>2. CASE b # a \/ v # w
      <3>1. giving[b][v] = x /\ x # Nobody
        BY <1>1, <1>4, <2>2
      <3>2. ThreadOf[x] \in Thread \ {t} /\ x # e
        BY <1>5, <3>1
      <3>3. /\ claims[ThreadOf[x]] = x /\ ThreadOf[x] \notin kept
            /\ \A c \in Instance : ~Holds(c, ThreadOf[x])
            /\ \A c \in Instance, z \in Task : giving[c][z] = x => c = b /\ z = v
        BY <3>1 DEF ClaimsSound, GivenApart
      <3>4. \A c \in Instance, z \in Task : giving'[c][z] = x => c = b /\ z = v
        BY <1>4, <3>2, <3>3
      <3>5. QED
        BY <1>3, <1>6, <3>2, <3>3, <3>4
    <2>3. QED
      BY <2>1, <2>2
  <1>9. KeptApart'
    <2>1. \A u \in kept : u \in Thread \ {t}
      BY <1>2 DEF WorkTyped
    <2>2. QED
      BY <1>3, <1>6, <2>1 DEF ClaimsSound, KeptApart
  <1>10. ClaimHasWork'
    <2> SUFFICES ASSUME NEW u \in Thread, claims'[u] # Nobody
                 PROVE  \/ u \in kept'
                        \/ \E b \in Instance :
                             \/ session'[b][u].phase \in Working /\ session'[b][u].event = claims'[u]
                             \/ session'[b][u].next = claims'[u]
                             \/ \E v \in Task : giving'[b][v] = claims'[u]
      BY DEF ClaimHasWork, HasWork
    <2>1. CASE u = t
      BY <1>3, <1>4, <2>1
    <2>2. CASE u # t
      <3>1. claims'[u] = claims[u]
        BY <1>3, <2>2
      <3>2. \A b \in Instance, v \in Task : giving[b][v] = claims[u] => giving'[b][v] = claims[u]
        BY <1>4, <3>1
      <3>3. QED
        BY <3>1, <3>2 DEF ClaimsSound, ClaimHasWork, HasWork
    <2>3. QED
      BY <2>1, <2>2
  <1>11. QED
    BY <1>1, <1>3, <1>4, <1>7, <1>8, <1>9, <1>10 DEF WorkTyped, ClaimsSound

\* Where the sessions, the claims and the events being given stay the same.
LEMMA ClaimsKept ==
  ASSUME ClaimsSound, UNCHANGED <<session, claims, giving, kept>> PROVE ClaimsSound'
  BY DEF ClaimsSound, OneAtWork, GivenApart, KeptApart, ClaimHasWork, HasWork, Holds

\* A step of a session at work that stays at work.
LEMMA SessionStepProperties ==
  ASSUME WorkTyped, ClaimsSound, NEW a \in Instance, NEW t \in Thread,
         UNCHANGED <<claims, giving, kept>>,
         session' \in [Instance -> [Thread -> Session]],
         \A b \in Instance, u \in Thread : b # a \/ u # t => session'[b][u] = session[b][u],
         session[a][t].phase \in Working, session'[a][t].phase \in Working,
         session'[a][t].event = session[a][t].event, session'[a][t].next = session[a][t].next,
         session'[a][t].phase \in {"sending", "applied"} =>
           session'[a][t].target = session'[a][t].event
  PROVE  ClaimsSound'
  <1>1. \A b \in Instance, u \in Thread : Holds(b, u)' => Holds(b, u)
    BY DEF Holds
  <1>2. OneAtWork'
    BY <1>1 DEF ClaimsSound, OneAtWork, Working
  <1>3. GivenApart' /\ KeptApart'
    <2>1. \A e \in Event : ThreadOf[e] \in Thread
      BY ConstantsAssumption
    <2>2. kept \subseteq Thread
      BY DEF WorkTyped
    <2>3. QED
      BY <1>1, <2>1, <2>2 DEF ClaimsSound, GivenApart, KeptApart
  <1>4. ClaimHasWork'
    BY DEF ClaimsSound, ClaimHasWork, HasWork
  <1>5. QED
    BY <1>2, <1>3, <1>4 DEF ClaimsSound

\* The sessions with one field of one of them set.
WithPhase(f, a, t, x)  == [f EXCEPT ![a][t].phase = x]
WithTarget(f, a, t, x) == [f EXCEPT ![a][t].target = x]
WithTries(f, a, t, x)  == [f EXCEPT ![a][t].tries = x]

\* Setting one field of one session.
LEMMA PhaseUpdate ==
  ASSUME NEW f \in [Instance -> [Thread -> Session]], NEW a \in Instance, NEW t \in Thread,
         NEW x \in Working \cup {"idle", "leaving"}
  PROVE  LET g == WithPhase(f, a, t, x) IN
         /\ g \in [Instance -> [Thread -> Session]]
         /\ \A b \in Instance, u \in Thread : b # a \/ u # t => g[b][u] = f[b][u]
         /\ g[a][t].phase = x
         /\ g[a][t].target = f[a][t].target
         /\ g[a][t].tries = f[a][t].tries
         /\ g[a][t].event = f[a][t].event
         /\ g[a][t].next = f[a][t].next
  <1> DEFINE r == f[a][t]
             g == WithPhase(f, a, t, x)
  <1>1. r \in Session
    OBVIOUS
  <1>2. g[a][t] = [r EXCEPT !.phase = x]
    BY DEF WithPhase
  <1> HIDE DEF r
  <1>3. /\ [r EXCEPT !.phase = x] \in Session
        /\ [r EXCEPT !.phase = x].phase = x
        /\ [r EXCEPT !.phase = x].target = r.target
        /\ [r EXCEPT !.phase = x].tries = r.tries
        /\ [r EXCEPT !.phase = x].event = r.event
        /\ [r EXCEPT !.phase = x].next = r.next
    BY <1>1 DEF Session
  <1>4. /\ g \in [Instance -> [Thread -> Session]]
        /\ \A b \in Instance, u \in Thread : b # a \/ u # t => g[b][u] = f[b][u]
    BY <1>2, <1>3 DEF WithPhase
  <1>5. QED
    BY <1>2, <1>3, <1>4 DEF r

\* Setting one field of one session.
LEMMA TargetUpdate ==
  ASSUME NEW f \in [Instance -> [Thread -> Session]], NEW a \in Instance, NEW t \in Thread,
         NEW x \in Event \cup {Nobody}
  PROVE  LET g == WithTarget(f, a, t, x) IN
         /\ g \in [Instance -> [Thread -> Session]]
         /\ \A b \in Instance, u \in Thread : b # a \/ u # t => g[b][u] = f[b][u]
         /\ g[a][t].target = x
         /\ g[a][t].phase = f[a][t].phase
         /\ g[a][t].tries = f[a][t].tries
         /\ g[a][t].event = f[a][t].event
         /\ g[a][t].next = f[a][t].next
  <1> DEFINE r == f[a][t]
             g == WithTarget(f, a, t, x)
  <1>1. r \in Session
    OBVIOUS
  <1>2. g[a][t] = [r EXCEPT !.target = x]
    BY DEF WithTarget
  <1> HIDE DEF r
  <1>3. /\ [r EXCEPT !.target = x] \in Session
        /\ [r EXCEPT !.target = x].target = x
        /\ [r EXCEPT !.target = x].phase = r.phase
        /\ [r EXCEPT !.target = x].tries = r.tries
        /\ [r EXCEPT !.target = x].event = r.event
        /\ [r EXCEPT !.target = x].next = r.next
    BY <1>1 DEF Session
  <1>4. /\ g \in [Instance -> [Thread -> Session]]
        /\ \A b \in Instance, u \in Thread : b # a \/ u # t => g[b][u] = f[b][u]
    BY <1>2, <1>3 DEF WithTarget
  <1>5. QED
    BY <1>2, <1>3, <1>4 DEF r

\* Setting one field of one session.
LEMMA TriesUpdate ==
  ASSUME NEW f \in [Instance -> [Thread -> Session]], NEW a \in Instance, NEW t \in Thread,
         NEW x \in 0..MaxRetries
  PROVE  LET g == WithTries(f, a, t, x) IN
         /\ g \in [Instance -> [Thread -> Session]]
         /\ \A b \in Instance, u \in Thread : b # a \/ u # t => g[b][u] = f[b][u]
         /\ g[a][t].tries = x
         /\ g[a][t].phase = f[a][t].phase
         /\ g[a][t].target = f[a][t].target
         /\ g[a][t].event = f[a][t].event
         /\ g[a][t].next = f[a][t].next
  <1> DEFINE r == f[a][t]
             g == WithTries(f, a, t, x)
  <1>1. r \in Session
    OBVIOUS
  <1>2. g[a][t] = [r EXCEPT !.tries = x]
    BY DEF WithTries
  <1> HIDE DEF r
  <1>3. /\ [r EXCEPT !.tries = x] \in Session
        /\ [r EXCEPT !.tries = x].tries = x
        /\ [r EXCEPT !.tries = x].phase = r.phase
        /\ [r EXCEPT !.tries = x].target = r.target
        /\ [r EXCEPT !.tries = x].event = r.event
        /\ [r EXCEPT !.tries = x].next = r.next
    BY <1>1 DEF Session
  <1>4. /\ g \in [Instance -> [Thread -> Session]]
        /\ \A b \in Instance, u \in Thread : b # a \/ u # t => g[b][u] = f[b][u]
    BY <1>2, <1>3 DEF WithTries
  <1>5. QED
    BY <1>2, <1>3, <1>4 DEF r

\* What SessionTo leaves of the sessions.
LEMMA SessionToProperties ==
  ASSUME WorkTyped, NEW a \in Instance, NEW t \in Thread,
         NEW phase \in Working \cup {"idle", "leaving"}, SessionTo(a, t, phase)
  PROVE  /\ session' \in [Instance -> [Thread -> Session]]
         /\ \A b \in Instance, u \in Thread : b # a \/ u # t => session'[b][u] = session[b][u]
         /\ session'[a][t].phase = phase
         /\ session'[a][t].event = session[a][t].event
         /\ session'[a][t].target = session[a][t].target
         /\ session'[a][t].next = session[a][t].next
  <1>1. session' = WithPhase(session, a, t, phase)
    BY DEF SessionTo, WithPhase
  <1>2. session \in [Instance -> [Thread -> Session]]
    BY DEF WorkTyped
  <1>3. QED
    BY <1>1, <1>2, PhaseUpdate

\* A drain up to the next await, or to its failure.
LEMMA WalkProperties ==
  ASSUME WorkInv, NEW a \in Instance, NEW w \in Task, NEW list \in Seq(Event),
         giving[a][w] = Nobody,
         Walk(a, w, list) \/ WalkFails(a, w, list),
         UNCHANGED <<session, kept>>
  PROVE  /\ QueueTyped' /\ WorkTyped' /\ ClaimsSound'
         /\ failures' \in 0..MaxTroubles
         /\ \E n \in 0..Len(list) : DropUnauthorised(a, list, n)
         /\ \A b \in Instance, v \in Task : drain'[b][v] = drain[b][v] \/
              (b = a /\ v = w /\ Range(drain'[b][v]) \subseteq Range(list))
         /\ \A b \in Instance, v \in Task : b # a \/ v # w =>
              drain'[b][v] = drain[b][v] /\ giving'[b][v] = giving[b][v]
         /\ WalkFails(a, w, list) => drain'[a][w] = <<>> /\ giving'[a][w] = Nobody
         /\ \A t \in Thread : claims'[t] = claims[t] \/ claims'[t] \in Range(list)
  <1>1. QueueTyped /\ WorkTyped /\ RestTyped /\ CountsTyped /\ ClaimsSound
    BY TypeParts DEF WorkInv
  <1>2. \E n \in 0..Len(list) : DropUnauthorised(a, list, n)
    <2>1. Stop(a, list) \in 1..(Len(list) + 1) /\ Len(list) \in Nat
      BY StopProperties, LenProperties
    <2>2. (Stop(a, list) - 1) \in 0..Len(list) /\ 0..(Stop(a, list) - 1) \subseteq 0..Len(list)
      BY <2>1
    <2>3. QED
      BY <2>2 DEF Walk, WalkFails
  <1>3. QueueTyped'
    BY <1>1, <1>2, DropProperties
  <1>4. /\ DOMAIN list = 1..Len(list) /\ Len(list) \in Nat
        /\ drain \in [Instance -> [Task -> Seq(Event)]]
        /\ giving \in [Instance -> [Task -> Event \cup {Nobody}]]
        /\ <<>> \in Seq(Event) /\ Range(<<>>) = {}
    <2>1. <<>> \in Seq(Event) /\ DOMAIN <<>> = {}
      BY EmptySeq
    <2>2. QED
      BY <1>1, <2>1, LenProperties DEF WorkTyped, Range
  <1>5. CASE drain' = [drain EXCEPT ![a][w] = <<>>] /\ UNCHANGED <<claims, giving>>
    <2>1. WorkTyped'
      BY <1>1, <1>4, <1>5 DEF WorkTyped
    <2>2. ClaimsSound'
      BY <1>1, <1>5, ClaimsKept
    <2>3. failures' \in 0..MaxTroubles
      BY <1>1, ConstantsAssumption DEF Walk, WalkFails, CountFailure, CountsTyped
    <2>4. /\ drain'[a][w] = <<>>
          /\ \A b \in Instance, v \in Task : b # a \/ v # w => drain'[b][v] = drain[b][v]
      BY <1>4, <1>5
    <2>5. QED
      BY <1>2, <1>3, <1>4, <1>5, <2>1, <2>2, <2>3, <2>4
  <1>6. CASE ~(drain' = [drain EXCEPT ![a][w] = <<>>] /\ UNCHANGED <<claims, giving>>)
    <2> DEFINE i == Stop(a, list)
    <2>1. /\ ~(i > Len(list)) /\ ~WalkFails(a, w, list)
          /\ claims' = [claims EXCEPT ![ThreadOf[list[i]]] = list[i]]
          /\ giving' = [giving EXCEPT ![a][w] = list[i]]
          /\ drain' = [drain EXCEPT ![a][w] = SubSeq(list, i + 1, Len(list))]
          /\ UNCHANGED failures
      BY <1>6 DEF Walk, WalkFails
    <2>2. i \in 1..Len(list) /\ Takes(a, list[i])
      <3>1. i \in 1..(Len(list) + 1) /\ (i <= Len(list) => Takes(a, list[i]))
        BY StopProperties
      <3> HIDE DEF i
      <3>2. QED
        BY <1>4, <2>1, <3>1
    <2> HIDE DEF i
    <2>3. list[i] \in Event /\ list[i] \in Range(list)
      BY <1>4, <2>2, ElementOfSeq DEF Range
    <2>4. claims[ThreadOf[list[i]]] = Nobody
      BY <2>2 DEF Takes
    <2>5. /\ claims' \in [Thread -> Event \cup {Nobody}]
          /\ \A t \in Thread : claims'[t] # Nobody => ThreadOf[claims'[t]] = t
          /\ giving' \in [Instance -> [Task -> Event \cup {Nobody}]]
          /\ ClaimsSound'
      BY <1>1, <2>1, <2>3, <2>4, ClaimProperties
    <2>6. /\ SubSeq(list, i + 1, Len(list)) \in Seq(Event)
          /\ Range(SubSeq(list, i + 1, Len(list))) \subseteq Range(list)
      <3>1. \A j \in 1..Len(list) : list[j] \in Event
        BY ElementOfSeq
      <3>2. /\ SubSeq(list, i + 1, Len(list)) \in Seq(Event)
            /\ Len(SubSeq(list, i + 1, Len(list))) = IF i + 1 <= Len(list) THEN Len(list) - (i + 1) + 1 ELSE 0
            /\ \A j \in 1..(Len(list) - (i + 1) + 1) :
                 SubSeq(list, i + 1, Len(list))[j] = list[(i + 1) + j - 1]
        BY <1>4, <2>2, <3>1, SubSeqProperties
      <3>3. DOMAIN SubSeq(list, i + 1, Len(list)) = 1..(Len(list) - i)
        BY <1>4, <2>2, <3>2, LenProperties
      <3>4. ASSUME NEW j \in 1..(Len(list) - i)
            PROVE  SubSeq(list, i + 1, Len(list))[j] \in Range(list)
        <4>1. i \in Nat /\ Len(list) \in Nat /\ i <= Len(list) /\ DOMAIN list = 1..Len(list)
          BY <1>4, <2>2, LenProperties
        <4>2. i + j \in DOMAIN list /\ (i + 1) + j - 1 = i + j /\ j \in 1..(Len(list) - (i + 1) + 1)
          BY <4>1
        <4>3. SubSeq(list, i + 1, Len(list))[j] = list[i + j]
          BY <3>2, <4>2
        <4>4. QED
          BY <4>2, <4>3 DEF Range
      <3>5. QED
        BY <3>2, <3>3, <3>4 DEF Range
    <2>7. /\ drain' \in [Instance -> [Task -> Seq(Event)]]
          /\ Range(drain'[a][w]) \subseteq Range(list)
          /\ \A b \in Instance, v \in Task : b # a \/ v # w => drain'[b][v] = drain[b][v]
      BY <1>4, <2>1, <2>6
    <2>8. \A b \in Instance, v \in Task : b # a \/ v # w => giving'[b][v] = giving[b][v]
      BY <1>4, <2>1
    <2>9. \A t \in Thread : claims'[t] = claims[t] \/ claims'[t] \in Range(list)
      BY <1>1, <2>1, <2>3 DEF WorkTyped
    <2>10. WorkTyped'
      BY <1>1, <2>5, <2>7 DEF WorkTyped
    <2>11. QED
      BY <1>1, <1>2, <1>3, <2>1, <2>5, <2>7, <2>8, <2>9, <2>10 DEF CountsTyped
  <1>7. QED
    BY <1>5, <1>6

\* A drain begins with the queue's list or goes on with its own rest.
LEMMA ListsAreTyped ==
  ASSUME WorkInv PROVE pending \in Seq(Event) /\ \A a \in Instance, w \in Task : drain[a][w] \in Seq(Event)
  BY DEF WorkInv, TypeOK

\* A task that waits for handle_message or has a rest to walk is not free, so it
\* does not begin a drain.
LEMMA TasksFreeKept ==
  ASSUME TypeOK, TypeOK', TasksFree, Next PROVE TasksFree'
  <1>1. WorkTyped /\ RestTyped /\ WorkTyped' /\ RestTyped'
    BY TypeParts, PTL
  <1>2. {"connect", "gateway", "watch"} \subseteq Task
    BY DEF Task
  <1> DEFINE Only1(a, w) == \A b \in Instance, v \in Task : b # a \/ v # w =>
                              drain'[b][v] = drain[b][v] /\ giving'[b][v] = giving[b][v]
  <1>3. ASSUME NEW a \in Instance, NEW w \in Task, NEW list, Walk(a, w, list) \/ WalkFails(a, w, list)
        PROVE  /\ Only1(a, w)
               /\ WalkFails(a, w, list) /\ giving[a][w] = Nobody => IsFree(a, w)'
    BY <1>1, <1>3 DEF Walk, WalkFails, IsFree, WorkTyped
  <1>4. ASSUME NEW a \in Instance, Connect(a) \/ ConnectResumes(a) PROVE TasksFree'
    <2>1. /\ Only1(a, "connect") /\ UNCHANGED <<probing, due>>
          /\ status[a] \in {"new", "connecting"}
          /\ \A b \in Instance \ {a} : status'[b] = status[b]
          /\ \/ status'[a] = "connecting"
             \/ status'[a] = "down" /\ IsFree(a, "connect")'
      <3>1. CASE Connect(a)
        BY <1>1, <1>2, <1>3, <3>1 DEF Connect, RestTyped, TasksFree, IsFree
      <3>2. CASE ConnectResumes(a)
        BY <1>1, <1>2, <1>3, <3>2 DEF ConnectResumes, ConnectFails, RestTyped, TasksFree, IsFree
      <3>3. QED
        BY <1>4, <3>1, <3>2
    <2>2. a \notin probing
      BY <2>1 DEF TasksFree
    <2>3. QED
      BY <1>2, <2>1, <2>2 DEF TasksFree, IsFree
  <1>5. ASSUME NEW a \in Instance, NEW w \in Task, w # "connect",
               \E list \in {pending, drain[a][w]} : Walk(a, w, list) \/ WalkFails(a, w, list),
               UNCHANGED status, probing' \subseteq probing, due' \subseteq due,
               w = "gateway" => (a \in probing /\ a \notin probing') \/ ~IsFree(a, w),
               w = "watch" => a \notin due'
        PROVE  TasksFree'
    <2>1. Only1(a, w)
      BY <1>3, <1>5
    <2>2. w = "gateway" => status[a] \notin {"new", "connecting"} /\ a \notin probing'
      BY <1>5 DEF TasksFree
    <2>3. QED
      BY <1>2, <1>5, <2>1, <2>2 DEF TasksFree, IsFree
  <1>6. ASSUME NEW a \in Instance, GatewayReady(a) \/ ReadyFrame(a) \/ DueDrain(a) PROVE TasksFree'
    <2>1. CASE GatewayReady(a)
      BY <1>2, <1>5, <2>1 DEF GatewayReady, Drain
    <2>2. CASE ReadyFrame(a)
      BY <1>2, <1>5, <2>2 DEF ReadyFrame, Drain, WatchIsFree, lifecycle
    <2>3. CASE DueDrain(a)
      BY <1>2, <1>5, <2>3 DEF DueDrain, Drain
    <2>4. QED
      BY <1>6, <2>1, <2>2, <2>3
  <1>7. ASSUME NEW a \in Instance, NEW w \in Task, Resume(a, w) PROVE TasksFree'
    <2>1. ~IsFree(a, w)
      BY <1>7 DEF Resume, IsFree
    <2>2. w = "watch" => a \notin due
      BY <2>1 DEF TasksFree
    <2>3. QED
      BY <1>5, <1>7, <2>1, <2>2 DEF Resume, Drain, lifecycle
  <1>8. ASSUME NEW a \in Instance, NEW t \in Thread, IdleDrain(a, t) PROVE TasksFree'
    <2>1. t \in Task
      BY DEF Task
    <2>2. Only1(a, t) /\ UNCHANGED <<status, probing, due>> /\ IsFree(a, t)
      BY <1>3, <1>8, <2>1 DEF IdleDrain, Drain, lifecycle
    <2>3. ASSUME NEW v \in {"connect", "gateway", "watch"}, NEW b \in Instance,
                 IsFree(b, v), a = b, t = v, ~IsFree(b, v)'
          PROVE  FALSE
      BY <2>3, ConstantsAssumption
    <2>4. QED
      BY <1>2, <2>2, <2>3 DEF TasksFree, IsFree
  <1>9. ASSUME NEW a \in Instance, ConnectRefused(a) \/ Connected(a) \/ Disconnected(a) \/ Rebuilt(a)
        PROVE  TasksFree'
    <2>1. UNCHANGED <<drain, giving, due>> /\ \A b \in Instance \ {a} : status'[b] = status[b]
      BY <1>1, <1>9 DEF ConnectRefused, Connected, Disconnected, Rebuilt, work, RestTyped
    <2>2. CASE ConnectRefused(a) \/ Disconnected(a)
      BY <1>1, <2>1, <2>2 DEF ConnectRefused, Disconnected, TasksFree, IsFree, RestTyped
    <2>3. CASE Connected(a)
      BY <1>1, <2>1, <2>3 DEF Connected, TasksFree, IsFree, RestTyped
    <2>4. CASE Rebuilt(a)
      BY <1>1, <1>2, <2>1, <2>4 DEF Rebuilt, TasksFree, IsFree, RestTyped
    <2>5. QED
      BY <1>9, <2>2, <2>3, <2>4
  <1>10. ASSUME NEW a \in Instance, Disconnect(a) PROVE TasksFree'
    <2>1. /\ \A b \in Instance \ {a} : drain'[b] = drain[b] /\ giving'[b] = giving[b]
          /\ drain'[a]["connect"] = drain[a]["connect"] /\ giving'[a]["connect"] = giving[a]["connect"]
      BY <1>1, <1>2, <1>10 DEF Disconnect, WorkTyped
    <2>2. /\ status[a] = "up" /\ status'[a] = "closing" /\ probing' = probing \ {a} /\ due' = due \ {a}
          /\ \A b \in Instance \ {a} : status'[b] = status[b]
      BY <1>1, <1>10 DEF Disconnect, RestTyped
    <2>3. QED
      BY <2>1, <2>2 DEF TasksFree, IsFree
  <1>11. ASSUME NEW a \in Instance,
                GatewayOpens(a) \/ AcknowledgementFails(a) \/ \E e \in Event : EventFrame(a, e)
         PROVE  TasksFree'
    BY <1>11 DEF GatewayOpens, AcknowledgementFails, EventFrame, WatchIsFree, work, TasksFree, IsFree
  <1>12. ASSUME NEW a \in Instance, NEW w \in Task, HandleMessage(a, w) PROVE TasksFree'
    <2>1. UNCHANGED <<drain, status, probing, due>>
      BY <1>12 DEF HandleMessage, lifecycle
    <2>2. \A b \in Instance, v \in Task : giving'[b][v] \in {giving[b][v], Nobody}
      BY <1>1, <1>12 DEF HandleMessage, WorkTyped
    <2>3. QED
      BY <1>2, <2>1, <2>2 DEF TasksFree, IsFree
  <1>13. ASSUME NEW a \in Instance, NEW w \in Task, DispatchFails(a, w) PROVE TasksFree'
    <2>1. \A b \in Instance, v \in Task :
            /\ giving'[b][v] \in {giving[b][v], Nobody}
            /\ drain'[b][v] \in {drain[b][v], <<>>}
      BY <1>1, <1>13 DEF DispatchFails, WorkTyped
    <2>2. IsFree(a, w)' /\ UNCHANGED <<probing, due>>
      BY <1>1, <1>13 DEF DispatchFails, WorkTyped, IsFree
    <2>3. CASE w # "connect"
      BY <1>2, <1>13, <2>1, <2>2, <2>3 DEF DispatchFails, TasksFree, IsFree
    <2>4. CASE w = "connect"
      <3>1. status[a] = "connecting"
        BY <1>13, <2>4 DEF DispatchFails, TasksFree, IsFree
      <3>2. status'[a] = "down" /\ \A b \in Instance \ {a} : status'[b] = status[b]
        BY <1>1, <1>13, <2>4 DEF DispatchFails, ConnectFails, RestTyped
      <3>3. QED
        BY <1>2, <2>1, <2>2, <2>4, <3>1, <3>2 DEF TasksFree, IsFree
    <2>5. QED
      BY <2>3, <2>4
  <1>14. ASSUME NEW a \in Instance, NEW t \in Thread, SessionStep(a, t) \/ SessionTrouble(a, t)
         PROVE  TasksFree'
    <2>1. UNCHANGED <<drain, giving, status, probing, due>>
      BY <1>14 DEF SessionStep, SessionTrouble, Send, SendAgain, HeyApplies, Confirm, Finish, Leave,
                   HandlerFails, SendFails, ResultLost, FinishFails, work, lifecycle
    <2>2. QED
      BY <2>1 DEF TasksFree, IsFree
  <1>15. CASE Crash
    <2>1. \A a \in Instance, w \in Task : IsFree(a, w)'
      BY <1>15 DEF Crash, FreshProcess, IsFree
    <2>2. QED
      BY <1>2, <1>15, <2>1 DEF Crash, FreshProcess, TasksFree
  <1>16. QED
    BY <1>4, <1>6, <1>7, <1>8, <1>9, <1>10, <1>11, <1>12, <1>13, <1>14, <1>15
    DEF Next, Lifecycle, Watch

\* A disconnect leaves the claims of the drains it cancels behind.
LEMMA DisconnectProperties ==
  ASSUME WorkTyped, CountsTyped, ClaimsSound, NEW a \in Instance, Disconnect(a)
  PROVE  /\ giving' \in [Instance -> [Task -> Event \cup {Nobody}]]
         /\ kept' \subseteq Thread /\ failures' \in 0..MaxTroubles
         /\ ClaimsSound'
  <1> DEFINE given == {giving[a]["gateway"], giving[a]["watch"]} \ {Nobody}
             left  == {ThreadOf[e] : e \in given}
  <1>1. {"connect", "gateway", "watch"} \subseteq Task
    BY DEF Task
  <1>2. given \subseteq Event /\ left \subseteq Thread /\ Nobody \notin Event
    BY <1>1, ConstantsAssumption DEF WorkTyped
  <1>3. /\ giving' = [giving EXCEPT ![a]["gateway"] = Nobody, ![a]["watch"] = Nobody]
        /\ kept' = kept \cup left /\ failures' \in 0..MaxTroubles
        /\ UNCHANGED <<session, claims>>
    <2>1. /\ giving' = [giving EXCEPT ![a]["gateway"] = Nobody, ![a]["watch"] = Nobody]
          /\ IF given = {} THEN UNCHANGED <<kept, failures>> ELSE CountFailure /\ kept' = kept \cup left
          /\ UNCHANGED <<session, claims>>
      BY DEF Disconnect
    <2>2. given = {} => left = {}
      OBVIOUS
    <2> HIDE DEF given, left
    <2>3. CountFailure => failures' \in 0..MaxTroubles
      BY ConstantsAssumption DEF CountFailure, CountsTyped
    <2>4. QED
      BY <2>1, <2>2, <2>3 DEF CountsTyped
  <1>4. /\ giving' \in [Instance -> [Task -> Event \cup {Nobody}]]
        /\ giving'[a]["gateway"] = Nobody /\ giving'[a]["watch"] = Nobody
        /\ \A b \in Instance, w \in Task : (b # a \/ w \notin {"gateway", "watch"}) =>
             giving'[b][w] = giving[b][w]
    BY <1>1, <1>3 DEF WorkTyped
  <1>5. \A e \in given : \E w \in {"gateway", "watch"} : giving[a][w] = e
    OBVIOUS
  <1>6. \A e \in given : /\ claims[ThreadOf[e]] = e
                         /\ \A b \in Instance : ~Holds(b, ThreadOf[e])
    BY <1>1, <1>2, <1>5 DEF ClaimsSound, GivenApart
  <1>7. \A e \in Event, b \in Instance, w \in Task : giving'[b][w] = e =>
          giving[b][w] = e /\ e \notin given
    <2> SUFFICES ASSUME NEW e \in Event, NEW b \in Instance, NEW w \in Task, giving'[b][w] = e
                 PROVE  giving[b][w] = e /\ e \notin given
      OBVIOUS
    <2>1. (b # a \/ w \notin {"gateway", "watch"}) /\ giving[b][w] = e
      BY <1>2, <1>4
    <2>2. QED
      BY <1>1, <1>5, <2>1 DEF ClaimsSound, GivenApart
  <1>8. \A b \in Instance, u \in Thread : Holds(b, u)' <=> Holds(b, u)
    BY <1>3 DEF Holds
  <1> HIDE DEF given
  <1>9. OneAtWork'
    BY <1>3, <1>8 DEF ClaimsSound, OneAtWork
  <1>10. KeptApart'
    <2>1. \A t \in left : t \in Thread /\ claims[t] # Nobody /\ \A b \in Instance : ~Holds(b, t)
      BY <1>2, <1>6
    <2>2. kept \subseteq Thread
      BY DEF WorkTyped
    <2>3. QED
      BY <1>3, <1>8, <2>1, <2>2 DEF ClaimsSound, KeptApart
  <1>11. GivenApart'
    <2> SUFFICES ASSUME NEW b \in Instance, NEW w \in Task, NEW e \in Event, giving'[b][w] = e
                 PROVE  /\ claims'[ThreadOf[e]] = e /\ ThreadOf[e] \notin kept'
                        /\ \A c \in Instance : ~Holds(c, ThreadOf[e])'
                        /\ \A c \in Instance, v \in Task : giving'[c][v] = e => c = b /\ v = w
      BY DEF GivenApart
    <2>1. giving[b][w] = e /\ e \notin given /\ ThreadOf[e] \in Thread
      BY <1>7, ConstantsAssumption
    <2>2. /\ claims[ThreadOf[e]] = e /\ ThreadOf[e] \notin kept
          /\ \A c \in Instance : ~Holds(c, ThreadOf[e])
          /\ \A c \in Instance, v \in Task : giving[c][v] = e => c = b /\ v = w
      BY <2>1 DEF ClaimsSound, GivenApart
    <2>3. ThreadOf[e] \notin left
      BY <1>6, <2>1, <2>2
    <2> HIDE DEF left
    <2>4. claims'[ThreadOf[e]] = e /\ ThreadOf[e] \notin kept'
      BY <1>3, <2>2, <2>3
    <2>5. \A c \in Instance : ~Holds(c, ThreadOf[e])'
      BY <1>8, <2>1, <2>2
    <2>6. \A c \in Instance, v \in Task : giving'[c][v] = e => c = b /\ v = w
      BY <1>7, <2>2
    <2>7. QED
      BY <2>4, <2>5, <2>6
  <1>12. ClaimHasWork'
    <2> SUFFICES ASSUME NEW t \in Thread, claims'[t] # Nobody, t \notin kept'
                 PROVE  \E b \in Instance :
                          \/ session'[b][t].phase \in Working /\ session'[b][t].event = claims'[t]
                          \/ session'[b][t].next = claims'[t]
                          \/ \E w \in Task : giving'[b][w] = claims'[t]
      BY DEF ClaimHasWork, HasWork
    <2>1. claims[t] \in Event /\ ThreadOf[claims[t]] = t /\ t \notin kept /\ t \notin left
      BY <1>3 DEF WorkTyped
    <2>2. claims[t] \notin given
      BY <2>1
    <2>3. \A b \in Instance, w \in Task : giving[b][w] = claims[t] => giving'[b][w] = claims[t]
      BY <1>2, <1>4, <2>1, <2>2 DEF given
    <2>4. \E b \in Instance :
            \/ session[b][t].phase \in Working /\ session[b][t].event = claims[t]
            \/ session[b][t].next = claims[t]
            \/ \E w \in Task : giving[b][w] = claims[t]
      BY <2>1, ConstantsAssumption DEF ClaimsSound, ClaimHasWork, HasWork
    <2>5. UNCHANGED <<session, claims>>
      BY <1>3
    <2>6. QED
      BY <2>3, <2>4, <2>5
  <1>13. QED
    BY <1>2, <1>3, <1>4, <1>9, <1>10, <1>11, <1>12 DEF WorkTyped, ClaimsSound

\* connect, disconnect and the watch task.
LEMMA LifecycleKeepsClaims ==
  ASSUME WorkInv, NEW a \in Instance, Lifecycle(a) \/ Watch(a) PROVE TypeOK' /\ ClaimsSound'
  <1>1. QueueTyped /\ WorkTyped /\ RestTyped /\ CountsTyped /\ ClaimsSound /\ TasksFree
    BY TypeParts DEF WorkInv
  <1>2. pending \in Seq(Event) /\ \A w \in Task : drain[a][w] \in Seq(Event)
    BY ListsAreTyped
  <1>3. {"connect", "gateway", "watch"} \subseteq Task
    BY DEF Task
  <1>4. ASSUME QueueTyped', WorkTyped', RestTyped', CountsTyped', ClaimsSound'
        PROVE  TypeOK' /\ ClaimsSound'
    BY <1>4, TypeParts, PTL
  <1>5. ASSUME UNCHANGED <<claims, giving, session, kept>> PROVE ClaimsSound'
    BY <1>1, <1>5, ClaimsKept
  <1>6. ASSUME NEW w \in Task, NEW list \in Seq(Event), Walk(a, w, list) \/ WalkFails(a, w, list),
               giving[a][w] = Nobody, UNCHANGED <<session, kept, answered, lost, crashes>>
        PROVE  QueueTyped' /\ WorkTyped' /\ CountsTyped' /\ ClaimsSound'
    BY <1>1, <1>6, WalkProperties DEF CountsTyped
  <1>7. CASE Connect(a)
    <2>1. RestTyped'
      BY <1>1, <1>7 DEF Connect, RestTyped
    <2>2. giving[a]["connect"] = Nobody
      BY <1>1, <1>7 DEF Connect, TasksFree, IsFree
    <2>3. QED
      BY <1>2, <1>3, <1>4, <1>6, <1>7, <2>1, <2>2 DEF Connect
  <1>8. CASE ConnectResumes(a)
    <2>1. RestTyped'
      BY <1>1, <1>8 DEF ConnectResumes, ConnectFails, RestTyped
    <2>2. QED
      BY <1>2, <1>3, <1>4, <1>6, <1>8, <2>1 DEF ConnectResumes
  <1>9. CASE ConnectRefused(a)
    BY <1>1, <1>4, <1>5, <1>9, ConstantsAssumption
    DEF ConnectRefused, CountFailure, queue, work, QueueTyped, WorkTyped, RestTyped, CountsTyped
  <1>10. CASE Connected(a)
    BY <1>1, <1>4, <1>5, <1>10
    DEF Connected, queue, work, outside, QueueTyped, WorkTyped, RestTyped, CountsTyped
  <1>11. CASE GatewayOpens(a)
    BY <1>1, <1>4, <1>5, <1>11
    DEF GatewayOpens, queue, work, outside, QueueTyped, WorkTyped, RestTyped, CountsTyped
  <1>12. CASE GatewayReady(a)
    <2>1. RestTyped'
      BY <1>1, <1>12 DEF GatewayReady, RestTyped
    <2>2. giving[a]["gateway"] = Nobody
      BY <1>1, <1>12 DEF GatewayReady, TasksFree, IsFree
    <2>3. QED
      BY <1>2, <1>3, <1>4, <1>6, <1>12, <2>1, <2>2 DEF GatewayReady, Drain
  <1>13. CASE Disconnect(a)
    <2>1. drain' \in [Instance -> [Task -> Seq(Event)]]
      <3>1. <<>> \in Seq(Event)
        BY EmptySeq
      <3>2. QED
        BY <1>1, <1>3, <1>13, <3>1 DEF Disconnect, WorkTyped
    <2>2. QED
      BY <1>1, <1>4, <1>13, <2>1, DisconnectProperties
      DEF Disconnect, queue, QueueTyped, WorkTyped, RestTyped, CountsTyped
  <1>14. CASE Disconnected(a)
    BY <1>1, <1>4, <1>5, <1>14
    DEF Disconnected, queue, work, outside, QueueTyped, WorkTyped, RestTyped, CountsTyped
  <1>15. CASE Rebuilt(a)
    BY <1>1, <1>4, <1>5, <1>15
    DEF Rebuilt, queue, work, outside, QueueTyped, WorkTyped, RestTyped, CountsTyped
  <1>16. CASE ReadyFrame(a)
    <2>1. RestTyped'
      BY <1>1, <1>16 DEF ReadyFrame, lifecycle, RestTyped
    <2>2. giving[a]["watch"] = Nobody
      BY <1>16 DEF ReadyFrame, WatchIsFree, IsFree
    <2>3. QED
      BY <1>2, <1>3, <1>4, <1>6, <1>16, <2>1, <2>2 DEF ReadyFrame, Drain
  <1>17. CASE DueDrain(a)
    <2>1. RestTyped'
      BY <1>1, <1>17 DEF DueDrain, RestTyped
    <2>2. giving[a]["watch"] = Nobody
      BY <1>1, <1>17 DEF DueDrain, TasksFree, IsFree
    <2>3. QED
      BY <1>2, <1>3, <1>4, <1>6, <1>17, <2>1, <2>2 DEF DueDrain, Drain
  <1>18. CASE AcknowledgementFails(a)
    BY <1>1, <1>4, <1>5, <1>18, ConstantsAssumption
    DEF AcknowledgementFails, CountFailure, queue, work, QueueTyped, WorkTyped, RestTyped, CountsTyped
  <1>19. ASSUME NEW e \in Event, EventFrame(a, e) PROVE TypeOK' /\ ClaimsSound'
    <2>1. /\ Append(pending, e) \in Seq(Event) /\ Len(Append(pending, e)) = Len(pending) + 1
          /\ Len(pending) \in Nat
      BY <1>2, AppendProperties, LenProperties
    <2>2. QueueTyped'
      BY <1>1, <1>19, <2>1, ConstantsAssumption DEF EventFrame, QueueAccept, QueueTyped, outside
    <2>3. QED
      BY <1>1, <1>4, <1>5, <1>19, <2>2
      DEF EventFrame, work, outside, QueueTyped, WorkTyped, RestTyped, CountsTyped
  <1>20. QED
    BY <1>7, <1>8, <1>9, <1>10, <1>11, <1>12, <1>13, <1>14, <1>15, <1>16, <1>17, <1>18, <1>19
    DEF Lifecycle, Watch

\* complete() of one event.
LEMMA CompleteProperties ==
  ASSUME QueueTyped, UNCHANGED dropped, NEW e \in Event, QueueComplete(e)
  PROVE  /\ QueueTyped'
         /\ Waiting' \subseteq Waiting /\ Done \subseteq Done' /\ Done' \subseteq Done \cup {e}
         /\ Waiting' \cup Done' = Waiting \cup Done
         /\ e \in Waiting => e \in Done'
         /\ NoRepeat(pending) => NoRepeat(pending')
         /\ NoRepeat(pending) /\ Waiting \cap Done = {} => Waiting' \cap Done' = {}
  <1>1. CASE e \notin Waiting
    <2>1. UNCHANGED <<pending, completed>>
      BY <1>1 DEF QueueComplete, queue
    <2>2. QED
      BY <1>1, <2>1 DEF QueueTyped, Waiting, Done
  <1>2. CASE e \in Waiting
    <2>1. PICK i \in DOMAIN pending : pending[i] = e /\ pending' = RemoveAt(pending, i)
      BY <1>2 DEF QueueComplete
    <2>2. completed' = Append(completed, e)
      BY <1>2 DEF QueueComplete
    <2>3. Len(pending) \in Nat /\ DOMAIN pending = 1..Len(pending)
      BY LenProperties DEF QueueTyped
    <2>4. /\ pending' \in Seq(Event) /\ Len(pending') = Len(pending) - 1
          /\ \A j \in 1..(Len(pending) - 1) :
               pending'[j] = IF j < i THEN pending[j] ELSE pending[j + 1]
          /\ Waiting \ {e} \subseteq Waiting'
      BY <2>1, <2>3, RemoveAtProperties, RemoveAtKeeps DEF QueueTyped, Waiting
    <2>5. NoRepeat(pending) => NoRepeat(pending') /\ Waiting' = Waiting \ {e}
      BY <2>1, <2>3, RemoveAtOnce DEF QueueTyped, Waiting
    <2>6. Waiting' \subseteq Waiting
      <3>1. DOMAIN pending' = 1..(Len(pending) - 1)
        BY <2>3, <2>4, LenProperties
      <3>2. \A j \in DOMAIN pending' : pending'[j] \in Waiting
        BY <2>3, <2>4, <3>1 DEF Waiting, Range
      <3>3. QED
        BY <3>2 DEF Waiting, Range
    <2>7. completed' \in Seq(Event) /\ Done' = Done \cup {e}
      BY <2>2, AppendRange DEF QueueTyped, Done
    <2>8. QED
      BY <1>2, <2>3, <2>4, <2>5, <2>6, <2>7, ConstantsAssumption DEF QueueTyped
  <1>3. QED
    BY <1>1, <1>2

\* Drains of the tasks that wait.
LEMMA DrainKeepsClaims ==
  ASSUME WorkInv, NEW a \in Instance, NEW w \in Task,
         Resume(a, w) \/ (w \in Thread /\ IdleDrain(a, w))
  PROVE  TypeOK' /\ ClaimsSound'
  <1>1. QueueTyped /\ WorkTyped /\ RestTyped /\ CountsTyped
    BY TypeParts DEF WorkInv
  <1>2. giving[a][w] = Nobody
    BY DEF Resume, IdleDrain, IsFree
  <1>3. PICK list \in Seq(Event) : Drain(a, w, list)
    BY ListsAreTyped DEF Resume, IdleDrain
  <1>4. QueueTyped' /\ WorkTyped' /\ CountsTyped' /\ ClaimsSound'
    BY <1>1, <1>2, <1>3, WalkProperties DEF Drain, CountsTyped
  <1>5. RestTyped'
    BY <1>1 DEF Resume, IdleDrain, lifecycle, RestTyped
  <1>6. QED
    BY <1>4, <1>5, TypeParts, PTL

\* handle_message takes the event, or raises before it has.
LEMMA DispatchKeepsClaims ==
  ASSUME WorkInv, NEW a \in Instance, NEW w \in Task, HandleMessage(a, w) \/ DispatchFails(a, w)
  PROVE  TypeOK' /\ ClaimsSound'
  <1> DEFINE e == giving[a][w]
             t == ThreadOf[e]
  <1>1. QueueTyped /\ WorkTyped /\ RestTyped /\ CountsTyped /\ ClaimsSound
    BY TypeParts DEF WorkInv
  <1>2. e \in Event /\ t \in Thread /\ e # Nobody /\ Nobody \notin Event
    BY <1>1, ConstantsAssumption DEF HandleMessage, DispatchFails, WorkTyped
  <1>3. /\ claims[t] = e /\ t \notin kept /\ \A b \in Instance : ~Holds(b, t)
        /\ \A b \in Instance, v \in Task : giving[b][v] = e => b = a /\ v = w
    BY <1>1, <1>2 DEF ClaimsSound, GivenApart
  <1>4. /\ giving' \in [Instance -> [Task -> Event \cup {Nobody}]]
        /\ giving'[a][w] = Nobody
        /\ \A b \in Instance, v \in Task : b # a \/ v # w => giving'[b][v] = giving[b][v]
    <2>1. giving' = [giving EXCEPT ![a][w] = Nobody]
      BY DEF HandleMessage, DispatchFails
    <2>2. QED
      BY <1>1, <2>1 DEF WorkTyped
  <1>5. \A b \in Instance, v \in Task, x \in Event : giving'[b][v] = x =>
          giving[b][v] = x /\ x # e /\ ThreadOf[x] \in Thread \ {t}
    <2> SUFFICES ASSUME NEW b \in Instance, NEW v \in Task, NEW x \in Event, giving'[b][v] = x
                 PROVE  giving[b][v] = x /\ x # e /\ ThreadOf[x] \in Thread \ {t}
      OBVIOUS
    <2>1. giving[b][v] = x /\ x # e
      BY <1>2, <1>3, <1>4
    <2>2. claims[ThreadOf[x]] = x
      BY <1>1, <2>1 DEF ClaimsSound, GivenApart
    <2>3. QED
      BY <1>3, <2>1, <2>2, ConstantsAssumption
  <1>6. kept \subseteq Thread /\ t \notin kept
    BY <1>1, <1>3 DEF WorkTyped
  <1> HIDE DEF t
  <1>7. CASE HandleMessage(a, w)
    <2>1. /\ session' = IF session[a][t].phase = "idle"
                          THEN [session EXCEPT ![a][t] = Handling(e)]
                          ELSE [session EXCEPT ![a][t].next = e]
          /\ UNCHANGED <<pending, completed, claims, live, status, probing, open, due, drain,
                         waiting, answered, dropped, kept, failures, lost, crashes>>
      BY <1>7 DEF HandleMessage, queue, lifecycle, outside, t
    <2> HIDE DEF e
    <2>2. session[a][t] \in Session /\ session \in [Instance -> [Thread -> Session]]
      BY <1>1, <1>2 DEF WorkTyped
    <2>3. /\ session' \in [Instance -> [Thread -> Session]]
          /\ \A b \in Instance, u \in Thread : b # a \/ u # t => session'[b][u] = session[b][u]
          /\ \/ session'[a][t].phase = "handling" /\ session'[a][t].event = e /\ session'[a][t].next = Nobody
             \/ session'[a][t].phase = "leaving" /\ session'[a][t].next = e
      <3>1. CASE session[a][t].phase = "idle"
        <4>1. session' = [session EXCEPT ![a][t] = Handling(e)]
          BY <2>1, <3>1
        <4>2. Handling(e) \in Session
          BY <1>2, ConstantsAssumption DEF Handling, Session, Working
        <4>3. QED
          BY <1>2, <2>2, <4>1, <4>2 DEF Handling
      <3>2. CASE session[a][t].phase # "idle"
        <4>1. session[a][t].phase = "leaving"
          BY <1>2, <1>3, <2>2, <3>2 DEF Holds, Session
        <4>2. session' = [session EXCEPT ![a][t].next = e]
          BY <2>1, <3>2
        <4>3. session'[a][t] = [session[a][t] EXCEPT !.next = e]
          BY <1>2, <2>2, <4>2
        <4>4. [session[a][t] EXCEPT !.next = e] \in Session
          BY <1>2, <2>2 DEF Session
        <4>5. session'[a][t].phase = "leaving" /\ session'[a][t].next = e
          BY <2>2, <4>1, <4>3 DEF Session
        <4>6. QED
          BY <1>2, <2>2, <4>2, <4>3, <4>4, <4>5
      <3>3. QED
        BY <3>1, <3>2
    <2>4. \A b \in Instance, u \in Thread : Holds(b, u)' => (b = a /\ u = t) \/ (Holds(b, u) /\ u # t)
      BY <1>3, <2>3 DEF Holds
    <2>5. OneAtWork'
      BY <1>1, <1>2, <1>3, <2>1, <2>3, <2>4 DEF ClaimsSound, OneAtWork, Holds, Working
    <2>6. GivenApart'
      BY <1>1, <1>5, <2>1, <2>4 DEF ClaimsSound, GivenApart
    <2>7. KeptApart'
      BY <1>1, <1>6, <2>1, <2>4 DEF ClaimsSound, KeptApart
    <2>8. ClaimHasWork'
      <3> SUFFICES ASSUME NEW u \in Thread, claims'[u] # Nobody, u \notin kept'
                   PROVE  \E b \in Instance :
                            \/ session'[b][u].phase \in Working /\ session'[b][u].event = claims'[u]
                            \/ session'[b][u].next = claims'[u]
                            \/ \E v \in Task : giving'[b][v] = claims'[u]
        BY DEF ClaimHasWork, HasWork
      <3>1. CASE u = t
        BY <1>3, <2>1, <2>3, <3>1 DEF Working
      <3>2. CASE u # t
        <4>1. claims[u] # e
          BY <1>1, <1>2, <3>2 DEF WorkTyped, t
        <4>2. \A b \in Instance, v \in Task : giving[b][v] = claims[u] => giving'[b][v] = claims[u]
          BY <1>4, <4>1 DEF e
        <4>3. QED
          BY <1>1, <2>1, <2>3, <3>2, <4>2 DEF ClaimsSound, ClaimHasWork, HasWork
      <3>3. QED
        BY <3>1, <3>2
    <2>9. QueueTyped' /\ WorkTyped' /\ RestTyped' /\ CountsTyped'
      BY <1>1, <1>4, <2>1, <2>3 DEF QueueTyped, WorkTyped, RestTyped, CountsTyped
    <2>10. QED
      BY <2>5, <2>6, <2>7, <2>8, <2>9, TypeParts, PTL DEF ClaimsSound
  <1>8. CASE DispatchFails(a, w)
    <2>1. /\ claims' = [u \in Thread |-> IF claims[u] = e THEN Nobody ELSE claims[u]]
          /\ drain' = [drain EXCEPT ![a][w] = <<>>]
          /\ CountFailure
          /\ UNCHANGED <<pending, completed, probing, open, due, waiting, session, answered,
                         dropped, kept, lost, crashes>>
      BY <1>8 DEF DispatchFails, queue
    <2>2. live' \in Instance \cup {Nobody} /\ status' \in [Instance -> {"new", "connecting", "up", "closing", "down"}]
      BY <1>1, <1>8 DEF DispatchFails, ConnectFails, RestTyped
    <2> HIDE DEF e
    <2>3. claims'[t] = Nobody /\ \A u \in Thread \ {t} : claims'[u] = claims[u]
      <3>1. \A u \in Thread \ {t} : claims[u] # e
        BY <1>1, <1>2 DEF WorkTyped, t
      <3>2. QED
        BY <1>2, <1>3, <2>1, <3>1
    <2>4. drain' \in [Instance -> [Task -> Seq(Event)]]
      BY <1>1, <2>1, EmptySeq DEF WorkTyped
    <2>5. \A b \in Instance, u \in Thread : (Holds(b, u)' <=> Holds(b, u)) /\ (Holds(b, u) => u # t)
      BY <1>3, <2>1 DEF Holds
    <2>6. OneAtWork'
      BY <1>1, <2>1, <2>3, <2>5 DEF ClaimsSound, OneAtWork, Holds, Working
    <2>7. GivenApart'
      BY <1>1, <1>5, <2>1, <2>3, <2>5 DEF ClaimsSound, GivenApart
    <2>8. KeptApart'
      BY <1>1, <1>6, <2>1, <2>3, <2>5 DEF ClaimsSound, KeptApart
    <2>9. ClaimHasWork'
      <3>1. \A u \in Thread : claims[u] # e => \A b \in Instance, v \in Task :
              giving[b][v] = claims[u] => giving'[b][v] = claims[u]
        BY <1>4 DEF e
      <3>2. \A u \in Thread \ {t} : claims[u] # e
        BY <1>1, <1>2 DEF WorkTyped, t
      <3>3. QED
        BY <1>1, <2>1, <2>3, <3>1, <3>2 DEF ClaimsSound, ClaimHasWork, HasWork
    <2>10. WorkTyped'
      BY <1>1, <1>4, <2>1, <2>3, <2>4 DEF WorkTyped
    <2>11. CountsTyped'
      BY <1>1, <2>1, ConstantsAssumption DEF CountFailure, CountsTyped
    <2>12. QueueTyped' /\ RestTyped'
      BY <1>1, <2>1, <2>2 DEF QueueTyped, RestTyped
    <2>13. QED
      BY <2>6, <2>7, <2>8, <2>9, <2>10, <2>11, <2>12, TypeParts, PTL DEF ClaimsSound
  <1>9. QED
    BY <1>7, <1>8

\* send looks up the claimed event, at first or before it tries again.
LEMMA SendProperties ==
  ASSUME WorkTyped, NEW a \in Instance, NEW t \in Thread, Send(a, t) \/ SendAgain(a, t)
  PROVE  \E p \in {"sending", "ended"} :
           /\ p = "sending" => ClaimedEvent(t) # Nobody
           /\ session[a][t].phase \in {"handling", "sending"}
           /\ session' \in [Instance -> [Thread -> Session]]
           /\ \A b \in Instance, u \in Thread : b # a \/ u # t => session'[b][u] = session[b][u]
           /\ session'[a][t].phase = p /\ session'[a][t].target = ClaimedEvent(t)
           /\ session'[a][t].event = session[a][t].event /\ session'[a][t].next = session[a][t].next
  <1> DEFINE p == IF ClaimedEvent(t) = Nobody THEN "ended" ELSE "sending"
             f == WithTarget(session, a, t, ClaimedEvent(t))
             h == WithTries(f, a, t, f[a][t].tries + 1)
  <1>1. p \in {"sending", "ended"} /\ (p = "sending" => ClaimedEvent(t) # Nobody)
    OBVIOUS
  <1>2. ClaimedEvent(t) \in Event \cup {Nobody} /\ session \in [Instance -> [Thread -> Session]]
    BY DEF ClaimedEvent, WorkTyped
  <1>3. p \in Working \cup {"idle", "leaving"}
    BY <1>1 DEF Working
  <1>4. session[a][t].phase \in {"handling", "sending"}
    BY DEF Send, SendAgain
  <1>5. \/ session' = WithPhase(f, a, t, p)
        \/ session[a][t].tries < MaxRetries /\ session' = WithPhase(h, a, t, p)
    <2>1. CASE Send(a, t)
      BY <2>1 DEF Send, WithPhase, WithTarget
    <2>2. CASE SendAgain(a, t)
      BY <2>2 DEF SendAgain, WithPhase, WithTarget, WithTries
    <2>3. QED
      BY <2>1, <2>2
  <1> HIDE DEF p
  <1>6. /\ f \in [Instance -> [Thread -> Session]]
        /\ \A b \in Instance, u \in Thread : b # a \/ u # t => f[b][u] = session[b][u]
        /\ f[a][t].target = ClaimedEvent(t) /\ f[a][t].tries = session[a][t].tries
        /\ f[a][t].event = session[a][t].event /\ f[a][t].next = session[a][t].next
    BY <1>2, TargetUpdate
  <1> HIDE DEF f
  <1>7. CASE session' = WithPhase(f, a, t, p)
    <2>1. /\ session' \in [Instance -> [Thread -> Session]]
          /\ \A b \in Instance, u \in Thread : b # a \/ u # t => session'[b][u] = f[b][u]
          /\ session'[a][t].phase = p /\ session'[a][t].target = f[a][t].target
          /\ session'[a][t].event = f[a][t].event /\ session'[a][t].next = f[a][t].next
      BY <1>3, <1>6, <1>7, PhaseUpdate
    <2>2. QED
      BY <1>1, <1>4, <1>6, <2>1
  <1>8. CASE session[a][t].tries < MaxRetries /\ session' = WithPhase(h, a, t, p)
    <2>1. f[a][t].tries + 1 \in 0..MaxRetries
      <3>1. session[a][t].tries \in 0..MaxRetries
        BY <1>2 DEF Session
      <3>2. QED
        BY <1>6, <1>8, <3>1, ConstantsAssumption
    <2>2. /\ h \in [Instance -> [Thread -> Session]]
          /\ \A b \in Instance, u \in Thread : b # a \/ u # t => h[b][u] = f[b][u]
          /\ h[a][t].target = f[a][t].target
          /\ h[a][t].event = f[a][t].event /\ h[a][t].next = f[a][t].next
      BY <1>6, <2>1, TriesUpdate
    <2> HIDE DEF h
    <2>3. /\ session' \in [Instance -> [Thread -> Session]]
          /\ \A b \in Instance, u \in Thread : b # a \/ u # t => session'[b][u] = h[b][u]
          /\ session'[a][t].phase = p /\ session'[a][t].target = h[a][t].target
          /\ session'[a][t].event = h[a][t].event /\ session'[a][t].next = h[a][t].next
      BY <1>3, <1>8, <2>2, PhaseUpdate
    <2>4. QED
      BY <1>1, <1>4, <1>6, <2>2, <2>3
  <1>9. QED
    BY <1>5, <1>7, <1>8

\* A session's steps.
LEMMA SessionKeepsClaims ==
  ASSUME WorkInv, NEW a \in Instance, NEW t \in Thread, SessionStep(a, t) \/ SessionTrouble(a, t)
  PROVE  TypeOK' /\ ClaimsSound'
  <1>1. QueueTyped /\ WorkTyped /\ RestTyped /\ CountsTyped /\ ClaimsSound
    BY TypeParts DEF WorkInv
  <1>2. ASSUME QueueTyped', WorkTyped', RestTyped', CountsTyped', ClaimsSound'
        PROVE  TypeOK' /\ ClaimsSound'
    BY <1>2, TypeParts, PTL
  <1>3. ASSUME UNCHANGED queue, UNCHANGED dropped PROVE QueueTyped'
    BY <1>1, <1>3 DEF queue, QueueTyped
  <1>4. ASSUME UNCHANGED <<lifecycle, waiting>> PROVE RestTyped'
    BY <1>1, <1>4 DEF lifecycle, RestTyped
  <1>5. ASSUME UNCHANGED <<claims, drain, giving, kept>>, session' \in [Instance -> [Thread -> Session]] PROVE WorkTyped'
    BY <1>1, <1>5 DEF WorkTyped
  <1>6. ASSUME UNCHANGED outside PROVE CountsTyped' /\ UNCHANGED <<dropped, kept>>
    BY <1>1, <1>6 DEF outside, CountsTyped
  <1>7. session \in [Instance -> [Thread -> Session]] /\ session[a][t] \in Session
    BY <1>1 DEF WorkTyped
  <1>8. session[a][t].phase \in Working => session[a][t].event \in Event /\ claims[t] = session[a][t].event
    BY <1>1 DEF ClaimsSound, OneAtWork, WorkTyped
  <1>9. ASSUME NEW phase \in Working, session[a][t].phase \in Working, SessionTo(a, t, phase),
               phase \in {"sending", "applied"} => session[a][t].phase \in {"sending", "applied"},
               UNCHANGED <<claims, drain, giving, kept>>
        PROVE  WorkTyped' /\ ClaimsSound'
    <2>1. /\ session' \in [Instance -> [Thread -> Session]]
          /\ \A b \in Instance, u \in Thread : b # a \/ u # t => session'[b][u] = session[b][u]
          /\ session'[a][t].phase = phase
          /\ session'[a][t].event = session[a][t].event
          /\ session'[a][t].target = session[a][t].target
          /\ session'[a][t].next = session[a][t].next
      BY <1>1, <1>9, SessionToProperties
    <2>2. phase \in {"sending", "applied"} => session[a][t].target = session[a][t].event
      BY <1>1, <1>9 DEF ClaimsSound, OneAtWork
    <2>3. ClaimsSound'
      BY <1>1, <1>9, <2>1, <2>2, SessionStepProperties
    <2>4. QED
      BY <1>5, <1>9, <2>1, <2>3
  <1>10. {"handling", "sending", "applied", "ended"} = Working
    BY DEF Working
  <1>11. CASE HeyApplies(a, t)
    <2>1. CountsTyped'
      BY <1>1, <1>8, <1>10, <1>11 DEF HeyApplies, CountsTyped
    <2>2. QED
      BY <1>2, <1>3, <1>4, <1>9, <1>10, <1>11, <2>1 DEF HeyApplies, work
  <1>12. CASE Confirm(a, t)
    <2>1. QueueTyped'
      BY <1>1, <1>3, <1>6, <1>8, <1>10, <1>12, CompleteProperties DEF Confirm
    <2>2. QED
      BY <1>2, <1>4, <1>6, <1>9, <1>10, <1>12, <2>1 DEF Confirm, work
  <1>13. CASE HandlerFails(a, t) \/ SendFails(a, t)
    <2>1. CountsTyped'
      BY <1>1, <1>13, ConstantsAssumption DEF HandlerFails, SendFails, CountFailure, CountsTyped
    <2>2. QED
      BY <1>2, <1>3, <1>4, <1>9, <1>10, <1>13, <2>1 DEF HandlerFails, SendFails, work
  <1>14. CASE ResultLost(a, t)
    <2>1. CountsTyped'
      <3>1. Cardinality(Thread) \in Nat /\ crashes \in Nat
        BY <1>1, FS_CardinalityType, ConstantsAssumption DEF CountsTyped
      <3>2. crashes * Cardinality(Thread) \in Nat
        BY <3>1
      <3> DEFINE more == crashes * Cardinality(Thread)
      <3>3. lost' = lost + 1 /\ lost < MaxTroubles /\ UNCHANGED <<answered, failures, crashes>>
        BY <1>1, <1>14, ConstantsAssumption DEF ResultLost, CountsTyped
      <3>4. lost' \in 0..(MaxTroubles + more)
        <4> HIDE DEF more
        <4>1. QED
          BY <1>1, <3>2, <3>3, ConstantsAssumption DEF CountsTyped, more
      <3>5. QED
        BY <1>1, <3>3, <3>4 DEF CountsTyped
    <2>2. QED
      BY <1>2, <1>3, <1>4, <1>9, <1>10, <1>14, <2>1 DEF ResultLost, work
  <1>15. ASSUME NEW p \in {"sending", "ended"},
                p = "sending" => ClaimedEvent(t) # Nobody,
                session[a][t].phase \in Working, UNCHANGED <<claims, drain, giving, kept>>,
                session' \in [Instance -> [Thread -> Session]],
                \A b \in Instance, u \in Thread : b # a \/ u # t => session'[b][u] = session[b][u],
                session'[a][t].phase = p, session'[a][t].target = ClaimedEvent(t),
                session'[a][t].event = session[a][t].event, session'[a][t].next = session[a][t].next
         PROVE  WorkTyped' /\ ClaimsSound'
    <2>1. p \in Working /\ p \notin {"applied"}
      BY <1>15 DEF Working
    <2>2. p = "sending" => session'[a][t].target = session'[a][t].event
      BY <1>8, <1>15 DEF ClaimedEvent
    <2>3. ClaimsSound'
      BY <1>1, <1>15, <2>1, <2>2, SessionStepProperties
    <2>4. QED
      BY <1>5, <1>15, <2>3
  <1>16. CASE Send(a, t) \/ SendAgain(a, t)
    <2>1. PICK p \in {"sending", "ended"} :
             /\ p = "sending" => ClaimedEvent(t) # Nobody
             /\ session[a][t].phase \in {"handling", "sending"}
             /\ session' \in [Instance -> [Thread -> Session]]
             /\ \A b \in Instance, u \in Thread : b # a \/ u # t => session'[b][u] = session[b][u]
             /\ session'[a][t].phase = p /\ session'[a][t].target = ClaimedEvent(t)
             /\ session'[a][t].event = session[a][t].event /\ session'[a][t].next = session[a][t].next
      BY <1>1, <1>16, SendProperties
    <2>2. WorkTyped' /\ ClaimsSound'
      BY <1>10, <1>15, <1>16, <2>1 DEF Send, SendAgain, work, outside
    <2>3. QED
      BY <1>2, <1>3, <1>4, <1>6, <1>16, <2>2 DEF Send, SendAgain, work
  <1>17. ASSUME session[a][t].phase = "ended", SessionTo(a, t, "leaving"),
                UNCHANGED <<drain, giving>>,
                \/ /\ kept' = kept
                   /\ claims' = [u \in Thread |->
                        IF claims[u] = session[a][t].event THEN Nobody ELSE claims[u]]
                \/ kept' = kept \cup {t} /\ claims' = claims
         PROVE  WorkTyped' /\ ClaimsSound'
    <2> DEFINE e == session[a][t].event
    <2>1. /\ session[a][t].phase \in Working /\ claims[t] = e /\ e \in Event
          /\ session[a][t].next = Nobody
      BY <1>1, <1>8, <1>10, <1>17 DEF ClaimsSound, OneAtWork
    <2>2. /\ Holds(a, t) /\ t \notin kept /\ kept \subseteq Thread
          /\ \A b \in Instance : b # a => ~Holds(b, t)
          /\ \A b \in Instance, w \in Task, x \in Event : giving[b][w] = x => ThreadOf[x] \in Thread \ {t}
      <3>1. Holds(a, t)
        BY <2>1 DEF Holds
      <3>2. \A x \in Event : ThreadOf[x] \in Thread
        BY ConstantsAssumption
      <3>3. QED
        BY <1>1, <3>1, <3>2 DEF ClaimsSound, OneAtWork, GivenApart, KeptApart, WorkTyped
    <2>3. /\ session' \in [Instance -> [Thread -> Session]]
          /\ \A b \in Instance, u \in Thread : b # a \/ u # t => session'[b][u] = session[b][u]
          /\ session'[a][t].phase = "leaving"
          /\ session'[a][t].next = Nobody
      BY <1>1, <1>17, <2>1, SessionToProperties
    <2>4. /\ \A u \in Thread \ {t} : claims'[u] = claims[u] /\ (u \in kept' <=> u \in kept)
          /\ \/ t \notin kept' /\ claims'[t] = Nobody
             \/ t \in kept' /\ claims'[t] = e
          /\ kept' \subseteq Thread
      <3>1. \A u \in Thread \ {t} : claims[u] # e
        BY <1>1, <2>1, ConstantsAssumption DEF WorkTyped
      <3>2. claims \in [Thread -> Event \cup {Nobody}]
        BY <1>1 DEF WorkTyped
      <3> HIDE DEF e
      <3>3. CASE kept' = kept /\ claims' = [u \in Thread |-> IF claims[u] = e THEN Nobody ELSE claims[u]]
        BY <2>1, <2>2, <3>1, <3>3
      <3>4. CASE kept' = kept \cup {t} /\ claims' = claims
        BY <2>1, <2>2, <3>4
      <3>5. QED
        BY <1>17, <3>3, <3>4 DEF e
    <2>5. WorkTyped'
      <3>1. claims' \in [Thread -> Event \cup {Nobody}]
        BY <1>1, <1>17 DEF WorkTyped
      <3>2. \A u \in Thread : claims'[u] # Nobody => ThreadOf[claims'[u]] = u
        BY <1>1, <2>1, <2>4 DEF WorkTyped
      <3>3. QED
        BY <1>1, <1>17, <2>3, <2>4, <3>1, <3>2 DEF WorkTyped
    <2> HIDE DEF e
    <2>6. \A b \in Instance, u \in Thread : Holds(b, u)' => u # t /\ Holds(b, u)
      <3>1. ~Holds(a, t)'
        BY <2>3 DEF Holds, Working
      <3>2. \A b \in Instance : b # a => ~Holds(b, t)'
        BY <2>2, <2>3 DEF Holds
      <3>3. \A b \in Instance, u \in Thread \ {t} : Holds(b, u)' <=> Holds(b, u)
        BY <2>3 DEF Holds
      <3>4. QED
        BY <3>1, <3>2, <3>3
    <2>7. OneAtWork'
      <3>1. \A b \in Instance, u \in Thread : (session[b][u].phase \in Working \/ session[b][u].next # Nobody)'
                => u # t /\ session'[b][u] = session[b][u] /\ claims'[u] = claims[u]
        BY <2>3, <2>4, <2>6 DEF Holds
      <3>2. {"sending", "applied"} \subseteq Working
        BY <1>10
      <3>3. QED
        BY <1>1, <2>6, <3>1, <3>2 DEF ClaimsSound, OneAtWork, Holds
    <2>8. GivenApart'
      BY <1>1, <1>17, <2>2, <2>4, <2>6 DEF ClaimsSound, GivenApart
    <2>9. KeptApart'
      BY <1>1, <2>1, <2>2, <2>4, <2>6, ConstantsAssumption DEF ClaimsSound, KeptApart
    <2>10. ClaimHasWork'
      BY <1>1, <1>17, <2>3, <2>4 DEF ClaimsSound, ClaimHasWork, HasWork
    <2>11. QED
      BY <2>5, <2>7, <2>8, <2>9, <2>10 DEF ClaimsSound
  <1>18. CASE Finish(a, t)
    <2>1. WorkTyped' /\ ClaimsSound'
      BY <1>6, <1>17, <1>18 DEF Finish
    <2>2. RestTyped'
      BY <1>1, <1>18 DEF Finish, lifecycle, RestTyped
    <2>3. QED
      BY <1>2, <1>3, <1>6, <1>18, <2>1, <2>2 DEF Finish
  <1>19. CASE FinishFails(a, t)
    <2>1. WorkTyped' /\ ClaimsSound'
      BY <1>17, <1>19 DEF FinishFails, work
    <2>2. CountsTyped'
      BY <1>1, <1>19, ConstantsAssumption DEF FinishFails, CountFailure, CountsTyped
    <2>3. QED
      BY <1>2, <1>3, <1>4, <1>19, <2>1, <2>2 DEF FinishFails, work
  <1>20. ASSUME UNCHANGED <<claims, giving, kept>>,
                \A b \in Instance, u \in Thread : Holds(b, u)' => Holds(b, u)
         PROVE  GivenApart' /\ KeptApart'
    <2>1. kept \subseteq Thread /\ \A x \in Event : ThreadOf[x] \in Thread
      BY <1>1, ConstantsAssumption DEF WorkTyped
    <2>2. QED
      BY <1>1, <1>20, <2>1 DEF ClaimsSound, GivenApart, KeptApart
  <1>21. CASE Leave(a, t)
    <2> DEFINE next == session[a][t].next
    <2>1. /\ session[a][t].phase = "leaving"
          /\ session' = [session EXCEPT ![a][t] = IF next = Nobody THEN Resting ELSE Handling(next)]
      BY <1>21 DEF Leave
    <2>2. Resting \in Session /\ \A e \in Event : Handling(e) \in Session
      BY ConstantsAssumption DEF Resting, Handling, Session, Working
    <2>3. next \in Event \cup {Nobody}
      BY <1>7 DEF Session
    <2>4. /\ session' \in [Instance -> [Thread -> Session]]
          /\ \A b \in Instance, u \in Thread : b # a \/ u # t => session'[b][u] = session[b][u]
          /\ session'[a][t] = IF next = Nobody THEN Resting ELSE Handling(next)
      BY <1>7, <2>1, <2>2, <2>3
    <2>5. UNCHANGED <<claims, drain, giving, kept>>
      BY <1>21 DEF Leave, work, outside
    <2>6. next # Nobody => claims[t] = next
      BY <1>1 DEF ClaimsSound, OneAtWork
    <2>7. CASE next = Nobody
      <3>1. session'[a][t].phase = "idle" /\ session'[a][t].next = Nobody
        BY <2>4, <2>7 DEF Resting
      <3>2. ~Holds(a, t) /\ ~Holds(a, t)'
        BY <2>1, <2>7, <3>1 DEF Holds, Working
      <3>3. \A b \in Instance, u \in Thread : Holds(b, u)' => (b # a \/ u # t) /\ Holds(b, u)
        BY <2>4, <3>2 DEF Holds
      <3>4. \A b \in Instance, u \in Thread : session'[b][u].phase \in Working \cup {"sending", "applied"} \/ session'[b][u].next # Nobody
              => session'[b][u] = session[b][u]
        BY <1>10, <2>4, <3>1
      <3>5. OneAtWork'
        BY <1>1, <2>5, <3>3, <3>4 DEF ClaimsSound, OneAtWork, Holds
      <3>6. ClaimHasWork'
        BY <1>1, <2>4, <2>5, <3>2 DEF ClaimsSound, ClaimHasWork, HasWork, Holds
      <3>7. ClaimsSound'
        BY <1>20, <2>5, <3>3, <3>5, <3>6 DEF ClaimsSound
      <3>8. QED
        BY <1>2, <1>3, <1>4, <1>5, <1>6, <1>21, <2>4, <2>5, <3>7 DEF Leave, work
    <2>8. CASE next # Nobody
      <3>1. session'[a][t].phase = "handling" /\ session'[a][t].event = next /\ session'[a][t].next = Nobody
        BY <2>4, <2>8 DEF Handling
      <3>2. Holds(a, t) /\ Holds(a, t)'
        BY <2>8, <3>1 DEF Holds, Working
      <3>3. \A b \in Instance, u \in Thread : Holds(b, u)' => Holds(b, u)
        BY <2>4, <3>2 DEF Holds
      <3>4. OneAtWork'
        BY <1>1, <2>4, <2>5, <2>6, <2>8, <3>1, <3>3 DEF ClaimsSound, OneAtWork, Working
      <3>5. ClaimHasWork'
        BY <1>1, <2>1, <2>4, <2>5, <2>6, <2>8, <3>1, <3>2 DEF ClaimsSound, ClaimHasWork, HasWork, Holds, Working
      <3>6. ClaimsSound'
        BY <1>20, <2>5, <3>3, <3>4, <3>5 DEF ClaimsSound
      <3>7. QED
        BY <1>2, <1>3, <1>4, <1>5, <1>6, <1>21, <2>4, <2>5, <3>6 DEF Leave, work
    <2>9. QED
      BY <2>7, <2>8
  <1>22. QED
    BY <1>11, <1>12, <1>13, <1>14, <1>16, <1>18, <1>19, <1>21 DEF SessionStep, SessionTrouble

-----------------------------------------------------------------------------

\* The sessions that wait for the result of an applied mutation.
Applied == {at \in Instance \X Thread : session[at[1]][at[2]].phase = "applied"}

\* A crash loses the results on their way, at most one for each thread.
LEMMA CutProperties ==
  ASSUME OneAtWork
  PROVE  /\ IsFiniteSet(Applied) /\ Cardinality(Applied) \in 0..Cardinality(Thread)
         /\ Applied # {} => Cardinality(Applied) >= 1
  <1> DEFINE threadOf == [at \in Applied |-> at[2]]
  <1>1. \A at \in Applied : at \in Instance \X Thread /\ Holds(at[1], at[2])
    BY DEF Applied, Holds, Working
  <1>2. ASSUME NEW at \in Applied, NEW bu \in Applied, at[2] = bu[2] PROVE at = bu
    <2>1. at[1] = bu[1]
      BY <1>1, <1>2 DEF OneAtWork
    <2>2. at = <<at[1], at[2]>> /\ bu = <<bu[1], bu[2]>>
      BY <1>1
    <2>3. QED
      BY <1>2, <2>1, <2>2
  <1>3. threadOf \in Injection(Applied, Thread)
    BY <1>1, <1>2 DEF Injection, IsInjective
  <1>4. IsFiniteSet(Applied) /\ Cardinality(Applied) <= Cardinality(Thread)
    BY <1>3, FS_Injection, ConstantsAssumption
  <1>5. Cardinality(Applied) \in Nat /\ Cardinality(Thread) \in Nat
    BY <1>4, FS_CardinalityType, ConstantsAssumption
  <1>6. Applied # {} => Cardinality(Applied) # 0
    BY <1>4, FS_EmptySet
  <1>7. QED
    BY <1>4, <1>5, <1>6

\* A process starts with no work.
LEMMA FreshIsSound ==
  ASSUME FreshProcess PROVE WorkTyped' /\ RestTyped' /\ ClaimsSound'
  <1>1. Resting \in Session /\ <<>> \in Seq(Event) /\ Resting.phase = "idle" /\ Resting.next = Nobody
    BY ConstantsAssumption, EmptySeq DEF Resting, Session
  <1>2. WorkTyped' /\ RestTyped'
    BY <1>1 DEF FreshProcess, WorkTyped, RestTyped
  <1>3. OneAtWork' /\ KeptApart' /\ ClaimHasWork'
    BY <1>1 DEF FreshProcess, OneAtWork, Holds, KeptApart, ClaimHasWork, HasWork, Working
  <1>4. GivenApart'
    BY ConstantsAssumption DEF FreshProcess, GivenApart
  <1>5. QED
    BY <1>2, <1>3, <1>4 DEF ClaimsSound

\* The gateway process dies and starts again.
LEMMA CrashKeepsClaims ==
  ASSUME WorkInv, Crash PROVE TypeOK' /\ ClaimsSound'
  <1>1. QueueTyped /\ WorkTyped /\ RestTyped /\ CountsTyped /\ OneAtWork
    BY TypeParts DEF WorkInv, ClaimsSound
  <1>2. lost' = lost + Cardinality(Applied) /\ crashes' = crashes + 1 /\ crashes < MaxCrashes
    BY DEF Crash, Applied
  <1>3. FreshProcess /\ UNCHANGED <<pending, completed, answered, dropped, failures>>
    BY DEF Crash, queue
  <1>4. CountsTyped'
    <2> DEFINE c == Cardinality(Applied)
               n == Cardinality(Thread)
    <2>1. n \in Nat /\ crashes \in Nat /\ c \in 0..n
      BY <1>1, FS_CardinalityType, ConstantsAssumption, CutProperties DEF CountsTyped
    <2> HIDE DEF c, n
    <2>2. crashes * n \in Nat /\ (crashes + 1) * n = crashes * n + n
      BY <2>1
    <2> DEFINE m == crashes * n
    <2>3. lost \in 0..(MaxTroubles + m)
      BY <1>1 DEF CountsTyped, n
    <2> HIDE DEF m
    <2>4. m \in Nat /\ MaxTroubles \in Nat /\ MaxCrashes \in Nat
      BY <2>2, ConstantsAssumption DEF m
    <2>5. lost + c \in 0..(MaxTroubles + (m + n))
      BY <2>1, <2>3, <2>4
    <2>6. (crashes + 1) * n = m + n
      BY <2>2 DEF m
    <2>7. lost' \in 0..(MaxTroubles + crashes' * Cardinality(Thread))
      BY <1>2, <2>5, <2>6 DEF c, n
    <2>8. crashes' \in 0..MaxCrashes
      BY <1>2, <2>1, <2>4
    <2>9. QED
      BY <1>1, <1>3, <2>7, <2>8 DEF CountsTyped
  <1>5. QueueTyped'
    BY <1>1, <1>3 DEF QueueTyped
  <1>6. WorkTyped' /\ RestTyped' /\ ClaimsSound'
    BY <1>3, FreshIsSound
  <1>7. QED
    BY <1>4, <1>5, <1>6, TypeParts, PTL

\* What holds in the whole of a process's life.
THEOREM WorkInvariance == Spec => []WorkInv
  <1>1. Init => WorkInv
    <2> SUFFICES ASSUME Init PROVE WorkInv
      OBVIOUS
    <2>1. QueueTyped /\ CountsTyped
      <3>1. <<>> \in Seq(Event) /\ Len(<<>>) = 0
        BY EmptySeq
      <3>2. Cardinality(Thread) \in Nat
        BY FS_CardinalityType, ConstantsAssumption
      <3>3. 0 * Cardinality(Thread) = 0
        BY <3>2
      <3>4. QED
        BY <3>1, <3>3, ConstantsAssumption DEF Init, QueueTyped, CountsTyped
    <2>2. WorkTyped /\ RestTyped
      <3>1. Resting \in Session /\ <<>> \in Seq(Event)
        BY ConstantsAssumption, EmptySeq DEF Resting, Session
      <3>2. QED
        BY <3>1 DEF Init, WorkTyped, RestTyped
    <2>3. ClaimsSound
      <3>1. Resting.phase = "idle" /\ Resting.next = Nobody
        BY DEF Resting
      <3>2. OneAtWork /\ KeptApart /\ ClaimHasWork
        BY <3>1 DEF Init, OneAtWork, Holds, KeptApart, ClaimHasWork, HasWork, Working
      <3>3. GivenApart
        BY ConstantsAssumption DEF Init, GivenApart
      <3>4. QED
        BY <3>2, <3>3 DEF ClaimsSound
    <2>4. TasksFree
      BY DEF Init, TasksFree, IsFree, Task
    <2>5. QED
      BY <2>1, <2>2, <2>3, <2>4, TypeParts DEF WorkInv
  <1>2. WorkInv /\ [Next]_vars => WorkInv'
    <2> SUFFICES ASSUME WorkInv, [Next]_vars PROVE WorkInv'
      OBVIOUS
    <2>1. CASE UNCHANGED vars
      <3>1. TypeOK' /\ TasksFree'
        BY <2>1 DEF vars, WorkInv, TypeOK, TasksFree, IsFree
      <3>2. ClaimsSound'
        BY <2>1, ClaimsKept DEF vars, WorkInv
      <3>3. QED
        BY <3>1, <3>2 DEF WorkInv
    <2>2. CASE Next
      <3>1. ASSUME NEW a \in Instance, NEW t \in Thread,
                   IdleDrain(a, t) \/ SessionStep(a, t) \/ SessionTrouble(a, t)
            PROVE  TypeOK' /\ ClaimsSound'
        <4>1. t \in Task
          BY DEF Task
        <4>2. QED
          BY <3>1, <4>1, DrainKeepsClaims, SessionKeepsClaims
      <3>2. TypeOK' /\ ClaimsSound'
        BY <2>2, <3>1, LifecycleKeepsClaims, DrainKeepsClaims, DispatchKeepsClaims,
           CrashKeepsClaims DEF Next
      <3>3. TasksFree'
        BY <2>2, <3>2, TasksFreeKept DEF WorkInv
      <3>4. QED
        BY <3>2, <3>3 DEF WorkInv
    <2>3. QED
      BY <2>1, <2>2
  <1>3. QED
    BY <1>1, <1>2, PTL DEF Spec

\* Every variable keeps its type.
THEOREM TypeCorrectness == Spec => []TypeOK
  <1>1. WorkInv => TypeOK
    BY DEF WorkInv
  <1>2. QED
    BY <1>1, WorkInvariance, PTL

\* A claim outlives the work it stands for only where the hook could not read the
\* queue or a disconnect cancelled the drain that was giving the event to Hermes.
THEOREM ClaimsHaveWork == Spec => []ClaimHasWork
  <1>1. WorkInv => ClaimHasWork
    BY DEF WorkInv, ClaimsSound
  <1>2. QED
    BY <1>1, WorkInvariance, PTL

\* Two adapters never work on one thread.
THEOREM OneSessionForEachThread == Spec => []OneSessionPerThread
  <1>1. ASSUME OneAtWork PROVE OneSessionPerThread
    <2> SUFFICES ASSUME NEW t \in Thread
                 PROVE  LET workers == {a \in Instance : session[a][t].phase \in Working}
                            takers  == {a \in Instance : session[a][t].next # Nobody}
                        IN  /\ Cardinality(workers) + Cardinality(takers) <= 1
                            /\ \A a \in workers : claims[t] = session[a][t].event
                            /\ \A a \in takers : claims[t] = session[a][t].next
                            /\ \A a \in workers : session[a][t].phase \in {"sending", "applied"} =>
                                 session[a][t].target = session[a][t].event
      BY DEF OneSessionPerThread
    <2> DEFINE workers == {a \in Instance : session[a][t].phase \in Working}
               takers  == {a \in Instance : session[a][t].next # Nobody}
    <2>1. \A a, b \in workers \cup takers : a = b
      BY <1>1 DEF OneAtWork, Holds
    <2>2. workers \cap takers = {}
      BY <1>1 DEF OneAtWork
    <2>3. /\ \A a \in workers : claims[t] = session[a][t].event
          /\ \A a \in takers : claims[t] = session[a][t].next
          /\ \A a \in workers : session[a][t].phase \in {"sending", "applied"} =>
               session[a][t].target = session[a][t].event
      BY <1>1 DEF OneAtWork
    <2> HIDE DEF workers, takers
    <2>4. \/ workers = {} /\ takers = {}
          \/ workers = {} /\ \E a \in takers : takers = {a}
          \/ takers = {} /\ \E a \in workers : workers = {a}
      BY <2>1, <2>2
    <2>5. Cardinality({}) = 0
      BY FS_EmptySet
    <2>6. Cardinality(workers) + Cardinality(takers) <= 1
      <3>1. CASE workers = {} /\ takers = {}
        BY <2>5, <3>1
      <3>2. ASSUME NEW a \in takers, workers = {}, takers = {a}
            PROVE  Cardinality(workers) + Cardinality(takers) <= 1
        <4>1. Cardinality({a}) = 1
          BY FS_Singleton
        <4>2. QED
          BY <2>5, <3>2, <4>1
      <3>3. ASSUME NEW a \in workers, takers = {}, workers = {a}
            PROVE  Cardinality(workers) + Cardinality(takers) <= 1
        <4>1. Cardinality({a}) = 1
          BY FS_Singleton
        <4>2. QED
          BY <2>5, <3>3, <4>1
      <3>4. QED
        BY <2>4, <3>1, <3>2, <3>3
    <2>7. QED
      BY <2>3, <2>6 DEF workers, takers
  <1>2. WorkInv => OneSessionPerThread
    BY <1>1 DEF WorkInv, ClaimsSound
  <1>3. QED
    BY <1>2, WorkInvariance, PTL

\* The register of the live adapter is cleared by nobody but the adapter in it.
THEOREM RegistrationsLast == Spec => RegistrationLasts
  <1> DEFINE Kept == live # Nobody /\ live' # live =>
                       \/ status'[live] \in {"down", "new"}
                       \/ \E b \in Instance \ {live} : status[b] = "new" /\ status'[b] # "new"
  <1>1. ASSUME RestTyped, [Next]_vars PROVE Kept
    <2> SUFFICES ASSUME live # Nobody, live' # live
                 PROVE  \/ status'[live] \in {"down", "new"}
                        \/ \E b \in Instance \ {live} : status[b] = "new" /\ status'[b] # "new"
      OBVIOUS
    <2>1. live \in Instance
      BY <1>1 DEF RestTyped
    <2>2. ASSUME NEW a \in Instance, Connect(a) PROVE Kept
      BY <1>1, <2>1, <2>2 DEF Connect, RestTyped
    <2>3. ASSUME NEW a \in Instance, ConnectFails(a) PROVE Kept
      BY <1>1, <2>1, <2>3 DEF ConnectFails, RestTyped
    <2>4. ASSUME NEW a \in Instance, Disconnected(a) PROVE Kept
      BY <1>1, <2>1, <2>4 DEF Disconnected, RestTyped
    <2>5. CASE Crash
      BY <2>1, <2>5 DEF Crash, FreshProcess
    <2>6. ASSUME NEW a \in Instance, Lifecycle(a) \/ Watch(a) PROVE Kept
      BY <2>2, <2>3, <2>4, <2>6
      DEF Lifecycle, ConnectResumes, ConnectRefused, Connected, GatewayOpens, GatewayReady, Disconnect,
          Rebuilt, Watch, ReadyFrame, DueDrain, AcknowledgementFails, EventFrame, lifecycle
    <2>7. ASSUME NEW a \in Instance, NEW w \in Task,
                 Resume(a, w) \/ HandleMessage(a, w) \/ DispatchFails(a, w)
          PROVE  Kept
      BY <2>3, <2>7 DEF Resume, HandleMessage, DispatchFails, lifecycle
    <2>8. ASSUME NEW a \in Instance, NEW t \in Thread,
                 IdleDrain(a, t) \/ SessionStep(a, t) \/ SessionTrouble(a, t)
          PROVE  Kept
      BY <2>8 DEF IdleDrain, SessionStep, SessionTrouble, Send, SendAgain, HeyApplies, Confirm,
                  Finish, Leave, HandlerFails, SendFails, ResultLost, FinishFails, lifecycle
    <2>9. QED
      BY <1>1, <2>5, <2>6, <2>7, <2>8 DEF Next, vars
  <1>2. TypeOK => RestTyped
    BY TypeParts
  <1>3. ASSUME TypeOK, [Next]_vars PROVE [Kept]_vars
    BY <1>1, <1>2, <1>3
  <1>4. QED
    BY <1>3, TypeCorrectness, PTL DEF Spec, RegistrationLasts
-----------------------------------------------------------------------------

\* What the queue knows.
Known == Waiting \cup Done

\* An event is in the queue once; claims and stale snapshots name known events only.
QueueSound ==
  /\ NoRepeat(pending) /\ Waiting \cap Done = {}
  /\ \A t \in Thread : claims[t] # Nobody => claims[t] \in Known
  /\ \A a \in Instance, w \in Task : Range(drain[a][w]) \subseteq Known
  /\ CompletedWasAnswered

\* A session waits for the result of the event's answer.
BeingAnswered(e) ==
  \E a \in Instance : session[a][ThreadOf[e]].phase = "applied" /\ session[a][ThreadOf[e]].event = e

\* No answer is ahead of what was lost by more than the one whose result is awaited.
AnswersSound ==
  /\ AnsweredOnce
  /\ \A e \in Event \ Done : answered[e] <= lost \/ BeingAnswered(e)
  /\ \A a \in Instance, t \in Thread :
       /\ session[a][t].phase = "applied" => answered[session[a][t].event] > 0
       /\ session[a][t].phase = "sending" => answered[session[a][t].event] <= lost

\* The second inductive invariant.
AnswerInv == QueueSound /\ AnswersSound

\* A step that neither HEY nor a sending session takes part in.
LEMMA SendsKeptPreservesAnswers ==
  ASSUME AnswersSound, SendsKept, Done \subseteq Done', UNCHANGED <<answered, lost>>
  PROVE  AnswersSound'
  <1>1. \A a \in Instance, t \in Thread :
          {session[a][t].phase, session'[a][t].phase} \cap {"sending", "applied"} # {} =>
            session'[a][t] = session[a][t]
    BY DEF SendsKept
  <1>2. \A e \in Event : BeingAnswered(e) => BeingAnswered(e)'
    BY <1>1, ConstantsAssumption DEF BeingAnswered
  <1>3. AnsweredOnce'
    BY DEF AnswersSound, AnsweredOnce
  <1>4. \A e \in Event \ Done' : answered'[e] <= lost' \/ BeingAnswered(e)'
    BY <1>2 DEF AnswersSound
  <1>5. \A a \in Instance, t \in Thread :
          /\ session'[a][t].phase = "applied" => answered'[session'[a][t].event] > 0
          /\ session'[a][t].phase = "sending" => answered'[session'[a][t].event] <= lost'
    BY <1>1 DEF AnswersSound
  <1>6. QED
    BY <1>3, <1>4, <1>5 DEF AnswersSound

\* A step that leaves the queue, the claims and the drains alone, or takes
\* some of the claims and of the lists away.
LEMMA QueueKeptPreservesSoundness ==
  ASSUME QueueSound, UNCHANGED <<pending, completed, dropped>>,
         \A e \in Event : answered'[e] >= answered[e],
         answered \in [Event -> Nat], answered' \in [Event -> Nat], completed \in Seq(Event),
         \A t \in Thread : claims'[t] \in {claims[t], Nobody},
         \A a \in Instance, w \in Task : drain'[a][w] \in {drain[a][w], <<>>}
  PROVE  QueueSound' /\ UNCHANGED Done
  <1>1. UNCHANGED <<Waiting, Done, Known>>
    BY DEF Waiting, Done, Known
  <1>2. NoRepeat(pending') /\ Waiting' \cap Done' = {}
    BY <1>1 DEF QueueSound
  <1>3. Range(<<>>) = {}
    BY EmptySeq DEF Range
  <1>4. /\ \A t \in Thread : claims'[t] # Nobody => claims'[t] \in Known'
        /\ \A a \in Instance, w \in Task : Range(drain'[a][w]) \subseteq Known'
    BY <1>1, <1>3 DEF QueueSound
  <1>5. CompletedWasAnswered'
    <2>1. Done \subseteq Event
      BY ElementOfSeq, LenProperties DEF Done, Range
    <2>2. ASSUME NEW e \in Done PROVE answered'[e] > 0 \/ e \in dropped'
      BY <2>1 DEF QueueSound, CompletedWasAnswered
    <2>3. QED
      BY <1>1, <2>2 DEF CompletedWasAnswered
  <1>6. QED
    BY <1>1, <1>2, <1>4, <1>5 DEF QueueSound

\* A drain up to the next await.
LEMMA WalkPreservesAnswerInv ==
  ASSUME WorkInv, AnswerInv, NEW a \in Instance, NEW w \in Task, NEW list \in Seq(Event),
         Range(list) \subseteq Known, giving[a][w] = Nobody,
         Walk(a, w, list) \/ WalkFails(a, w, list), UNCHANGED <<session, kept, answered, lost>>
  PROVE  AnswerInv'
  <1>1. QueueTyped /\ CountsTyped
    BY TypeParts DEF WorkInv
  <1>2. /\ \E n \in 0..Len(list) : DropUnauthorised(a, list, n)
        /\ SendsKept
        /\ \A b \in Instance, v \in Task : drain'[b][v] = drain[b][v] \/
             (b = a /\ v = w /\ Range(drain'[b][v]) \subseteq Range(list))
        /\ \A t \in Thread : claims'[t] = claims[t] \/ claims'[t] \in Range(list)
    BY WalkProperties DEF SendsKept
  <1>3. /\ Waiting' \subseteq Waiting /\ Done \subseteq Done'
        /\ Waiting' \cup Done' = Waiting \cup Done
        /\ Done' \subseteq Done \cup dropped' /\ dropped \subseteq dropped'
        /\ NoRepeat(pending) => NoRepeat(pending')
        /\ Waiting \cap Done = {} => Waiting' \cap Done' = {}
    BY <1>1, <1>2, DropProperties
  <1>4. AnswersSound'
    BY <1>2, <1>3, SendsKeptPreservesAnswers DEF AnswerInv
  <1>5. Known' = Known
    BY <1>3 DEF Known
  <1>6. CompletedWasAnswered'
    BY <1>3 DEF AnswerInv, QueueSound, CompletedWasAnswered
  <1>7. QueueSound'
    BY <1>2, <1>3, <1>5, <1>6 DEF AnswerInv, QueueSound
  <1>8. QED
    BY <1>4, <1>7 DEF AnswerInv

\* Drains begin with the queue's list or with a rest of it.
LEMMA ListsAreKnown ==
  ASSUME WorkInv, AnswerInv
  PROVE  /\ pending \in Seq(Event) /\ Range(pending) \subseteq Known
         /\ \A a \in Instance, w \in Task : drain[a][w] \in Seq(Event) /\ Range(drain[a][w]) \subseteq Known
  BY ListsAreTyped DEF AnswerInv, QueueSound, Known, Waiting

\* connect, disconnect and the watch task.
LEMMA LifecyclePreservesAnswerInv ==
  ASSUME WorkInv, AnswerInv, NEW a \in Instance, Lifecycle(a) \/ Watch(a) PROVE AnswerInv'
  <1>1. QueueTyped /\ WorkTyped /\ CountsTyped /\ TasksFree
    BY TypeParts DEF WorkInv
  <1>2. ASSUME UNCHANGED <<pending, completed, dropped, answered, lost, claims, session>>,
               \A b \in Instance, w \in Task : drain'[b][w] \in {drain[b][w], <<>>}
        PROVE  AnswerInv'
    <2>1. answered \in [Event -> Nat] /\ completed \in Seq(Event)
      BY <1>1 DEF CountsTyped, QueueTyped
    <2>2. QueueSound' /\ UNCHANGED Done
      BY <1>2, <2>1, QueueKeptPreservesSoundness DEF AnswerInv
    <2>3. SendsKept
      BY <1>2 DEF SendsKept
    <2>4. AnswersSound'
      BY <1>2, <2>2, <2>3, SendsKeptPreservesAnswers DEF AnswerInv
    <2>5. QED
      BY <2>2, <2>4 DEF AnswerInv
  <1>3. ASSUME NEW w \in Task, NEW list \in Seq(Event), list = pending \/ list = drain[a][w],
               giving[a][w] = Nobody, Walk(a, w, list) \/ WalkFails(a, w, list),
               UNCHANGED <<session, kept, answered, lost>>
        PROVE  AnswerInv'
    BY <1>3, ListsAreKnown, WalkPreservesAnswerInv
  <1>4. {"connect", "gateway", "watch"} \subseteq Task
    BY DEF Task
  <1>5. pending \in Seq(Event) /\ \A w \in Task : drain[a][w] \in Seq(Event)
    BY ListsAreTyped
  <1>6. CASE Connect(a) \/ ConnectResumes(a)
    BY <1>1, <1>3, <1>4, <1>5, <1>6 DEF Connect, ConnectResumes, TasksFree, IsFree
  <1>7. CASE GatewayReady(a) \/ ReadyFrame(a) \/ DueDrain(a)
    BY <1>1, <1>3, <1>4, <1>5, <1>7
    DEF GatewayReady, ReadyFrame, DueDrain, Drain, WatchIsFree, TasksFree, IsFree
  <1>8. CASE ConnectRefused(a) \/ AcknowledgementFails(a)
    BY <1>2, <1>8 DEF ConnectRefused, AcknowledgementFails, queue, work
  <1>9. CASE Connected(a) \/ GatewayOpens(a) \/ Disconnected(a) \/ Rebuilt(a)
    BY <1>2, <1>9 DEF Connected, GatewayOpens, Disconnected, Rebuilt, queue, work, outside
  <1>10. CASE Disconnect(a)
    <2>1. \A b \in Instance, w \in Task : drain'[b][w] \in {drain[b][w], <<>>}
      BY <1>1, <1>10 DEF Disconnect, WorkTyped
    <2>2. QED
      BY <1>2, <1>10, <2>1 DEF Disconnect, queue, outside
  <1>11. ASSUME NEW e \in Event, EventFrame(a, e) PROVE AnswerInv'
    <2>1. /\ e \notin Known /\ pending' = Append(pending, e)
          /\ UNCHANGED <<completed, dropped, answered, lost, claims, drain, session>>
      BY <1>11 DEF EventFrame, QueueAccept, work, outside, Known
    <2>2. /\ Waiting' = Waiting \cup {e} /\ Done' = Done
          /\ NoRepeat(pending) => NoRepeat(pending')
      BY <1>5, <2>1, AppendRange, AppendKeepsNoRepeat DEF Waiting, Done, Known
    <2>3. CompletedWasAnswered'
      BY <2>1, <2>2 DEF AnswerInv, QueueSound, CompletedWasAnswered
    <2>4. QueueSound'
      BY <2>1, <2>2, <2>3 DEF AnswerInv, QueueSound, Known
    <2>5. SendsKept
      BY <2>1 DEF SendsKept
    <2>6. AnswersSound'
      BY <2>1, <2>2, <2>5, SendsKeptPreservesAnswers DEF AnswerInv
    <2>7. QED
      BY <2>4, <2>6 DEF AnswerInv
  <1>12. QED
    BY <1>6, <1>7, <1>8, <1>9, <1>10, <1>11 DEF Lifecycle, Watch

\* A step of a session that neither begins nor ends as an applied mutation.
LEMMA QuietStepPreservesAnswers ==
  ASSUME AnswersSound, NEW a \in Instance, NEW t \in Thread,
         \A b \in Instance, u \in Thread : b # a \/ u # t => session'[b][u] = session[b][u],
         session[a][t].phase # "applied", session'[a][t].phase # "applied",
         session'[a][t].phase = "sending" => answered[session'[a][t].event] <= lost,
         UNCHANGED <<answered, lost, Done>>
  PROVE  AnswersSound'
  <1>1. \A e \in Event : BeingAnswered(e) => BeingAnswered(e)'
    BY ConstantsAssumption DEF BeingAnswered
  <1>2. AnsweredOnce'
    BY DEF AnswersSound, AnsweredOnce
  <1>3. \A e \in Event \ Done' : answered'[e] <= lost' \/ BeingAnswered(e)'
    BY <1>1 DEF AnswersSound
  <1>4. \A b \in Instance, u \in Thread :
          /\ session'[b][u].phase = "applied" => answered'[session'[b][u].event] > 0
          /\ session'[b][u].phase = "sending" => answered'[session'[b][u].event] <= lost'
    BY DEF AnswersSound
  <1>5. QED
    BY <1>2, <1>3, <1>4 DEF AnswersSound

\* The thread of a session's event.
LEMMA EventOfWork ==
  ASSUME WorkInv, NEW a \in Instance, NEW t \in Thread, session[a][t].phase \in Working
  PROVE  LET e == session[a][t].event
         IN  /\ e \in Event /\ ThreadOf[e] = t /\ claims[t] = e
             /\ \A b \in Instance, u \in Thread :
                  session[b][u].phase \in Working /\ session[b][u].event = e => b = a /\ u = t
  <1> DEFINE e == session[a][t].event
  <1>1. OneAtWork /\ WorkTyped
    BY TypeParts DEF WorkInv, ClaimsSound
  <1>2. e \in Event /\ ThreadOf[e] = t /\ claims[t] = e
    BY <1>1 DEF OneAtWork, WorkTyped
  <1>3. ASSUME NEW b \in Instance, NEW u \in Thread, session[b][u].phase \in Working,
               session[b][u].event = e
        PROVE  b = a /\ u = t
    <2>1. ThreadOf[e] = u
      BY <1>1, <1>3 DEF OneAtWork, WorkTyped
    <2>2. Holds(a, t) /\ Holds(b, t)
      BY <1>2, <1>3, <2>1 DEF Holds
    <2>3. QED
      BY <1>1, <1>2, <2>1, <2>2 DEF OneAtWork
  <1>4. QED
    BY <1>2, <1>3

\* handle_message neither answers nor completes anything.
LEMMA DispatchPreservesAnswerInv ==
  ASSUME WorkInv, AnswerInv, NEW a \in Instance, NEW w \in Task,
         HandleMessage(a, w) \/ DispatchFails(a, w)
  PROVE  AnswerInv'
  <1>1. QueueTyped /\ WorkTyped /\ CountsTyped /\ ClaimsSound
    BY TypeParts DEF WorkInv
  <1>2. /\ UNCHANGED <<pending, completed, dropped, answered, lost>>
        /\ answered \in [Event -> Nat] /\ completed \in Seq(Event)
    BY <1>1 DEF HandleMessage, DispatchFails, queue, outside, CountsTyped, QueueTyped
  <1>3. /\ \A t \in Thread : claims'[t] \in {claims[t], Nobody}
        /\ \A b \in Instance, v \in Task : drain'[b][v] \in {drain[b][v], <<>>}
    <2>1. CASE HandleMessage(a, w)
      BY <2>1 DEF HandleMessage
    <2>2. CASE DispatchFails(a, w)
      <3>1. drain' = [drain EXCEPT ![a][w] = <<>>] /\ drain \in [Instance -> [Task -> Seq(Event)]]
        BY <1>1, <2>2 DEF DispatchFails, WorkTyped
      <3>2. \A t \in Thread : claims'[t] \in {claims[t], Nobody}
        BY <2>2 DEF DispatchFails
      <3>3. QED
        BY <3>1, <3>2
    <2>3. QED
      BY <2>1, <2>2
  <1>4. QueueSound' /\ UNCHANGED Done
    <2>1. \A x \in Event : answered'[x] >= answered[x]
      BY <1>2
    <2>2. QED
      BY <1>2, <1>3, <2>1, QueueKeptPreservesSoundness DEF AnswerInv
  <1>5. AnswersSound'
    <2>1. CASE DispatchFails(a, w)
      <3>1. SendsKept
        BY <2>1 DEF DispatchFails, SendsKept
      <3>2. QED
        BY <1>2, <1>4, <3>1, SendsKeptPreservesAnswers DEF AnswerInv
    <2>2. CASE HandleMessage(a, w)
      <3> DEFINE e == giving[a][w]
                 t == ThreadOf[e]
      <3>1. e \in Event /\ t \in Thread
        BY <1>1, <2>2, ConstantsAssumption DEF HandleMessage, WorkTyped
      <3>2. session[a][t].phase \notin Working
        BY <1>1, <3>1 DEF ClaimsSound, GivenApart, Holds
      <3>3. /\ session \in [Instance -> [Thread -> Session]]
            /\ session' = IF session[a][t].phase = "idle"
                            THEN [session EXCEPT ![a][t] = Handling(e)]
                            ELSE [session EXCEPT ![a][t].next = e]
        BY <1>1, <2>2 DEF HandleMessage, WorkTyped
      <3> HIDE DEF e, t
      <3>4. /\ \A b \in Instance, u \in Thread : b # a \/ u # t => session'[b][u] = session[b][u]
            /\ session'[a][t].phase \in {"handling", session[a][t].phase}
        <4>1. CASE session[a][t].phase = "idle"
          BY <3>1, <3>3, <4>1 DEF Handling
        <4>2. CASE session[a][t].phase # "idle"
          <5>1. session' = [session EXCEPT ![a][t].next = e]
            BY <3>3, <4>2
          <5>2. session'[a][t] = [session[a][t] EXCEPT !.next = e]
            BY <3>1, <3>3, <5>1
          <5>3. session'[a][t].phase = session[a][t].phase
            <6>1. session[a][t] \in Session
              BY <3>1, <3>3
            <6>2. QED
              BY <5>2, <6>1 DEF Session
          <5>4. QED
            BY <3>1, <3>3, <5>1, <5>3
        <4>3. QED
          BY <4>1, <4>2
      <3>5. session[a][t].phase # "applied" /\ session'[a][t].phase \notin {"applied", "sending"}
        BY <3>2, <3>4 DEF Working
      <3>6. QED
        BY <1>2, <1>4, <3>1, <3>4, <3>5, QuietStepPreservesAnswers DEF AnswerInv
    <2>3. QED
      BY <2>1, <2>2
  <1>6. QED
    BY <1>4, <1>5 DEF AnswerInv

\* A session's steps.
LEMMA SessionPreservesAnswerInv ==
  ASSUME WorkInv, AnswerInv, NEW a \in Instance, NEW t \in Thread,
         SessionStep(a, t) \/ SessionTrouble(a, t)
  PROVE  AnswerInv'
  <1> DEFINE e == session[a][t].event
  <1>1. QueueTyped /\ WorkTyped /\ CountsTyped /\ OneAtWork
    BY TypeParts DEF WorkInv, ClaimsSound
  <1>2. /\ answered \in [Event -> Nat] /\ completed \in Seq(Event) /\ lost \in Nat
        /\ session \in [Instance -> [Thread -> Session]]
    <2>1. crashes * Cardinality(Thread) \in Nat
      BY <1>1, FS_CardinalityType, ConstantsAssumption DEF CountsTyped
    <2>2. QED
      BY <1>1, <2>1, ConstantsAssumption DEF CountsTyped, QueueTyped, WorkTyped
  <1>3. QueueSound /\ AnswersSound
    BY DEF AnswerInv
  <1>4. {"handling", "sending", "applied", "ended"} = Working
    BY DEF Working
  <1>5. session[a][t].phase \in Working =>
          /\ e \in Event /\ ThreadOf[e] = t /\ claims[t] = e
          /\ \A b \in Instance, u \in Thread :
               session[b][u].phase \in Working /\ session[b][u].event = e => b = a /\ u = t
    BY EventOfWork
  <1>6. ASSUME UNCHANGED <<pending, completed, dropped, answered, drain>>,
               \A u \in Thread : claims'[u] \in {claims[u], Nobody}
        PROVE  QueueSound' /\ UNCHANGED Done
    <2>1. \A x \in Event : answered'[x] >= answered[x]
      BY <1>2, <1>6
    <2>2. QED
      BY <1>2, <1>3, <1>6, <2>1, QueueKeptPreservesSoundness
  <1>7. ASSUME NEW phase \in Working \cup {"idle", "leaving"}, SessionTo(a, t, phase)
        PROVE  /\ \A b \in Instance, u \in Thread : b # a \/ u # t => session'[b][u] = session[b][u]
               /\ session'[a][t].phase = phase /\ session'[a][t].event = e
    BY <1>1, <1>7, SessionToProperties
  <1>8. CASE Send(a, t) \/ SendAgain(a, t)
    <2>1. /\ \A b \in Instance, u \in Thread : b # a \/ u # t => session'[b][u] = session[b][u]
          /\ session[a][t].phase \in {"handling", "sending"}
          /\ session'[a][t].phase \in {"sending", "ended"} /\ session'[a][t].event = e
          /\ session'[a][t].phase = "sending" => ClaimedEvent(t) # Nobody
      BY <1>1, <1>8, SendProperties
    <2>2. UNCHANGED <<pending, completed, dropped, answered, drain, claims, lost>>
      BY <1>8 DEF Send, SendAgain, queue, work, outside
    <2>3. session'[a][t].phase = "sending" => answered[e] <= lost
      <3>1. SUFFICES ASSUME session'[a][t].phase = "sending" PROVE answered[e] <= lost
        OBVIOUS
      <3>2. CASE session[a][t].phase = "sending"
        BY <1>3, <3>2 DEF AnswersSound
      <3>3. CASE session[a][t].phase = "handling"
        <4>1. e \in Event /\ e \in Waiting
          BY <1>4, <1>5, <2>1, <3>1, <3>3 DEF ClaimedEvent
        <4>2. e \notin Done
          BY <1>3, <4>1 DEF QueueSound
        <4>3. ~BeingAnswered(e)
          BY <1>4, <1>5, <3>3 DEF BeingAnswered
        <4>4. QED
          BY <1>3, <4>1, <4>2, <4>3 DEF AnswersSound
      <3>4. QED
        BY <2>1, <3>2, <3>3
    <2>4. QueueSound' /\ UNCHANGED Done
      BY <1>6, <2>2
    <2>5. AnswersSound'
      BY <1>3, <2>1, <2>2, <2>3, <2>4, QuietStepPreservesAnswers
    <2>6. QED
      BY <2>4, <2>5 DEF AnswerInv
  <1>9. CASE HeyApplies(a, t)
    <2>1. /\ \A b \in Instance, u \in Thread : b # a \/ u # t => session'[b][u] = session[b][u]
          /\ session[a][t].phase = "sending" /\ session'[a][t].phase = "applied" /\ session'[a][t].event = e
      BY <1>4, <1>7, <1>9 DEF HeyApplies
    <2>2. /\ e \in Event /\ ThreadOf[e] = t
          /\ \A b \in Instance, u \in Thread :
               session[b][u].phase \in Working /\ session[b][u].event = e => b = a /\ u = t
      BY <1>4, <1>5, <2>1
    <2>3. UNCHANGED <<pending, completed, dropped, drain, claims, lost>>
      BY <1>9 DEF HeyApplies, queue, work
    <2>4. /\ answered' = [answered EXCEPT ![e] = @ + 1]
          /\ answered[e] <= lost
      BY <1>3, <1>9, <2>1 DEF HeyApplies, AnswersSound
    <2> HIDE DEF e
    <2>5. /\ answered' \in [Event -> Nat] /\ answered'[e] = answered[e] + 1
          /\ \A x \in Event \ {e} : answered'[x] = answered[x]
          /\ \A x \in Event : answered'[x] >= answered[x]
      BY <1>2, <2>2, <2>4
    <2>6. QueueSound' /\ UNCHANGED Done
      BY <1>2, <1>3, <2>3, <2>5, QueueKeptPreservesSoundness
    <2>7. AnsweredOnce'
      BY <1>2, <1>3, <2>2, <2>3, <2>4, <2>5 DEF AnswersSound, AnsweredOnce
    <2>8. \A x \in Event \ Done' : answered'[x] <= lost' \/ BeingAnswered(x)'
      <3>1. ASSUME NEW x \in Event, x = e PROVE BeingAnswered(x)'
        BY <2>1, <2>2, <3>1 DEF BeingAnswered
      <3>2. \A x \in Event : BeingAnswered(x) => BeingAnswered(x)'
        BY <2>1, ConstantsAssumption DEF BeingAnswered
      <3>3. QED
        BY <1>3, <2>3, <2>5, <2>6, <3>1, <3>2 DEF AnswersSound
    <2>9. \A b \in Instance, u \in Thread :
            /\ session'[b][u].phase = "applied" => answered'[session'[b][u].event] > 0
            /\ session'[b][u].phase = "sending" => answered'[session'[b][u].event] <= lost'
      <3>1. ASSUME NEW b \in Instance, NEW u \in Thread, b # a \/ u # t,
                   session[b][u].phase \in {"sending", "applied"}
            PROVE  session[b][u].event \in Event \ {e}
        BY <1>4, <2>2, <3>1, EventOfWork
      <3>2. answered'[e] > 0
        BY <1>2, <2>2, <2>5
      <3>3. QED
        BY <1>3, <2>1, <2>3, <2>5, <3>1, <3>2 DEF AnswersSound
    <2>10. QED
      BY <2>6, <2>7, <2>8, <2>9 DEF AnswerInv, AnswersSound
  <1>10. CASE Confirm(a, t)
    <2>1. /\ \A b \in Instance, u \in Thread : b # a \/ u # t => session'[b][u] = session[b][u]
          /\ session[a][t].phase = "applied" /\ session'[a][t].phase = "ended"
      BY <1>4, <1>7, <1>10 DEF Confirm
    <2>2. e \in Event /\ claims[t] = e
      BY <1>4, <1>5, <2>1
    <2>3. QueueComplete(e) /\ UNCHANGED <<dropped, answered, drain, claims, lost>>
      BY <1>10, <2>2, ConstantsAssumption DEF Confirm, work, outside
    <2>4. /\ Waiting' \subseteq Waiting /\ Done \subseteq Done' /\ Done' \subseteq Done \cup {e}
          /\ Waiting' \cup Done' = Waiting \cup Done
          /\ e \in Waiting => e \in Done'
          /\ NoRepeat(pending) => NoRepeat(pending')
          /\ NoRepeat(pending) /\ Waiting \cap Done = {} => Waiting' \cap Done' = {}
      BY <1>1, <2>2, <2>3, CompleteProperties
    <2>5. e \in Done' /\ answered[e] > 0
      <3>1. e \in Waiting \cup Done
        BY <1>3, <2>2, ConstantsAssumption DEF QueueSound, Known
      <3>2. QED
        BY <1>3, <2>1, <2>4, <3>1 DEF AnswersSound
    <2>6. CompletedWasAnswered'
      BY <1>3, <2>3, <2>4, <2>5 DEF QueueSound, CompletedWasAnswered
    <2>7. QueueSound'
      BY <1>3, <2>3, <2>4, <2>6 DEF QueueSound, Known
    <2>8. \A x \in Event \ Done' : answered'[x] <= lost' \/ BeingAnswered(x)'
      <3>1. \A x \in Event \ {e} : BeingAnswered(x) => BeingAnswered(x)'
        BY <2>1, ConstantsAssumption DEF BeingAnswered
      <3>2. QED
        BY <1>3, <2>3, <2>4, <2>5, <3>1 DEF AnswersSound
    <2>9. \A b \in Instance, u \in Thread :
            /\ session'[b][u].phase = "applied" => answered'[session'[b][u].event] > 0
            /\ session'[b][u].phase = "sending" => answered'[session'[b][u].event] <= lost'
      BY <1>3, <2>1, <2>3 DEF AnswersSound
    <2>10. AnsweredOnce'
      BY <1>3, <2>3 DEF AnswersSound, AnsweredOnce
    <2>11. QED
      BY <2>7, <2>8, <2>9, <2>10 DEF AnswerInv, AnswersSound
  <1>11. CASE HandlerFails(a, t) \/ SendFails(a, t)
    <2>1. /\ \A b \in Instance, u \in Thread : b # a \/ u # t => session'[b][u] = session[b][u]
          /\ session[a][t].phase # "applied" /\ session'[a][t].phase = "ended"
      BY <1>4, <1>7, <1>11 DEF HandlerFails, SendFails
    <2>2. UNCHANGED <<pending, completed, dropped, answered, drain, claims, lost>>
      BY <1>11 DEF HandlerFails, SendFails, queue, work
    <2>3. QueueSound' /\ UNCHANGED Done
      BY <1>6, <2>2
    <2>4. AnswersSound'
      BY <1>3, <2>1, <2>2, <2>3, QuietStepPreservesAnswers
    <2>5. QED
      BY <2>3, <2>4 DEF AnswerInv
  <1>12. CASE ResultLost(a, t)
    <2>1. /\ \A b \in Instance, u \in Thread : b # a \/ u # t => session'[b][u] = session[b][u]
          /\ session'[a][t].phase = "ended"
      BY <1>4, <1>7, <1>12 DEF ResultLost
    <2>2. lost' = lost + 1 /\ UNCHANGED <<pending, completed, dropped, answered, drain, claims>>
      BY <1>12 DEF ResultLost, queue, work
    <2>3. QueueSound' /\ UNCHANGED Done
      BY <1>6, <2>2
    <2>4. \A x \in Event : answered'[x] <= lost'
      BY <1>2, <1>3, <2>2 DEF AnswersSound, AnsweredOnce
    <2>5. AnsweredOnce'
      BY <1>2, <2>2, <2>4 DEF AnsweredOnce
    <2>6. \A b \in Instance, u \in Thread :
            /\ session'[b][u].phase = "applied" => answered'[session'[b][u].event] > 0
            /\ session'[b][u].phase = "sending" => answered'[session'[b][u].event] <= lost'
      <3>1. ASSUME NEW b \in Instance, NEW u \in Thread, session[b][u].phase = "sending"
            PROVE  answered[session[b][u].event] <= lost'
        BY <1>4, <2>2, <2>4, <3>1, EventOfWork
      <3>2. QED
        BY <1>3, <2>1, <2>2, <3>1 DEF AnswersSound
    <2>7. QED
      BY <2>3, <2>4, <2>5, <2>6 DEF AnswerInv, AnswersSound
  <1>13. CASE Finish(a, t) \/ FinishFails(a, t)
    <2>1. /\ \A b \in Instance, u \in Thread : b # a \/ u # t => session'[b][u] = session[b][u]
          /\ session[a][t].phase # "applied" /\ session'[a][t].phase = "leaving"
      BY <1>4, <1>7, <1>13 DEF Finish, FinishFails
    <2>2. UNCHANGED <<pending, completed, dropped, answered, drain, lost>>
      BY <1>13 DEF Finish, FinishFails, queue, work, outside
    <2>3. \A u \in Thread : claims'[u] \in {claims[u], Nobody}
      BY <1>13 DEF Finish, FinishFails
    <2>4. QueueSound' /\ UNCHANGED Done
      BY <1>6, <2>2, <2>3
    <2>5. AnswersSound'
      BY <1>3, <2>1, <2>2, <2>4, QuietStepPreservesAnswers
    <2>6. QED
      BY <2>4, <2>5 DEF AnswerInv
  <1>14. CASE Leave(a, t)
    <2>1. /\ \A b \in Instance, u \in Thread : b # a \/ u # t => session'[b][u] = session[b][u]
          /\ session[a][t].phase # "applied"
          /\ session'[a][t] = Resting \/ session'[a][t] = Handling(session[a][t].next)
      BY <1>2, <1>14 DEF Leave
    <2>2. session'[a][t].phase \in {"idle", "handling"}
      BY <2>1 DEF Resting, Handling
    <2>3. UNCHANGED <<pending, completed, dropped, answered, drain, claims, lost>>
      BY <1>14 DEF Leave, queue, work, outside
    <2>4. QueueSound' /\ UNCHANGED Done
      BY <1>6, <2>3
    <2>5. AnswersSound'
      BY <1>3, <2>1, <2>2, <2>3, <2>4, QuietStepPreservesAnswers
    <2>6. QED
      BY <2>4, <2>5 DEF AnswerInv
  <1>15. QED
    BY <1>8, <1>9, <1>10, <1>11, <1>12, <1>13, <1>14 DEF SessionStep, SessionTrouble

\* A new process loses every result that was on its way, and nothing else.
LEMMA CrashPreservesAnswerInv ==
  ASSUME WorkInv, AnswerInv, Crash PROVE AnswerInv'
  <1>1. QueueTyped /\ CountsTyped /\ OneAtWork
    BY TypeParts DEF WorkInv, ClaimsSound
  <1>2. /\ answered \in [Event -> Nat] /\ completed \in Seq(Event) /\ lost \in Nat
        /\ Cardinality(Applied) \in Nat /\ (Applied # {} => Cardinality(Applied) >= 1)
    <2>1. crashes * Cardinality(Thread) \in Nat /\ Cardinality(Thread) \in Nat
      BY <1>1, FS_CardinalityType, ConstantsAssumption DEF CountsTyped
    <2>2. QED
      BY <1>1, <2>1, CutProperties, ConstantsAssumption, SMTT(30) DEF CountsTyped, QueueTyped
  <1>3. /\ lost' = lost + Cardinality(Applied)
        /\ UNCHANGED <<pending, completed, answered, dropped>>
        /\ claims' = [t \in Thread |-> Nobody]
        /\ drain' = [a \in Instance |-> [w \in Task |-> <<>>]]
        /\ session' = [a \in Instance |-> [t \in Thread |-> Resting]]
    BY DEF Crash, FreshProcess, queue, Applied
  <1>4. QueueSound' /\ UNCHANGED Done
    <2>1. \A e \in Event : answered'[e] >= answered[e]
      BY <1>2, <1>3
    <2>2. QED
      BY <1>2, <1>3, <2>1, QueueKeptPreservesSoundness DEF AnswerInv
  <1>5. \A e \in Event \ Done : answered[e] <= lost'
    <2>1. CASE Applied = {}
      <3>1. \A e \in Event : ~BeingAnswered(e)
        <4>1. \A a \in Instance, t \in Thread : session[a][t].phase # "applied"
          <5>1. \A a \in Instance, t \in Thread : session[a][t].phase = "applied" => <<a, t>> \in Applied
            BY DEF Applied
          <5>2. QED
            BY <2>1, <5>1
        <4>2. QED
          BY <4>1, ConstantsAssumption DEF BeingAnswered
      <3>2. lost <= lost'
        BY <1>2, <1>3
      <3>3. QED
        BY <1>2, <1>3, <3>1, <3>2 DEF AnswerInv, AnswersSound
    <2>2. CASE Applied # {}
      BY <1>2, <1>3, <2>2 DEF AnswerInv, AnswersSound, AnsweredOnce
    <2>3. QED
      BY <2>1, <2>2
  <1>6. AnsweredOnce'
    BY <1>2, <1>3 DEF AnswerInv, AnswersSound, AnsweredOnce
  <1>7. \A a \in Instance, t \in Thread : session'[a][t].phase = "idle"
    BY <1>3 DEF Resting
  <1>8. QED
    BY <1>3, <1>4, <1>5, <1>6, <1>7 DEF AnswerInv, AnswersSound

\* What is known of the answers, at any time.
THEOREM AnswerInvariance == Spec => []AnswerInv
  <1>1. Init => AnswerInv
    <2> SUFFICES ASSUME Init PROVE AnswerInv
      OBVIOUS
    <2>1. Waiting = {} /\ Done = {} /\ Range(<<>>) = {} /\ NoRepeat(<<>>)
      BY EmptySeq DEF Init, Waiting, Done, Range, NoRepeat
    <2>2. QueueSound
      BY <2>1, ConstantsAssumption DEF Init, QueueSound, CompletedWasAnswered, Known
    <2>3. \A a \in Instance, t \in Thread : session[a][t].phase = "idle"
      BY DEF Init, Resting
    <2>4. AnswersSound
      BY <2>3 DEF Init, AnswersSound, AnsweredOnce
    <2>5. QED
      BY <2>2, <2>4 DEF AnswerInv
  <1>2. WorkInv /\ AnswerInv /\ [Next]_vars => AnswerInv'
    <2> SUFFICES ASSUME WorkInv, AnswerInv, [Next]_vars PROVE AnswerInv'
      OBVIOUS
    <2>1. CASE UNCHANGED vars
      <3>1. UNCHANGED <<Waiting, Done>>
        BY <2>1 DEF vars, Waiting, Done
      <3>2. QueueSound'
        BY <2>1, <3>1 DEF vars, AnswerInv, QueueSound, Known, CompletedWasAnswered
      <3>3. AnswersSound'
        BY <2>1, <3>1 DEF vars, AnswerInv, AnswersSound, AnsweredOnce, BeingAnswered
      <3>4. QED
        BY <3>2, <3>3 DEF AnswerInv
    <2>2. ASSUME NEW a \in Instance, Lifecycle(a) \/ Watch(a) PROVE AnswerInv'
      BY <2>2, LifecyclePreservesAnswerInv
    <2>3. ASSUME NEW a \in Instance, NEW w \in Task, NEW list \in Seq(Event), Drain(a, w, list),
                 list = pending \/ list = drain[a][w], giving[a][w] = Nobody
          PROVE  AnswerInv'
      <3>1. Range(list) \subseteq Known
        BY <2>3, ListsAreKnown
      <3>2. QED
        BY <2>3, <3>1, WalkPreservesAnswerInv DEF Drain
    <2>4. ASSUME NEW a \in Instance, NEW w \in Task, Resume(a, w) PROVE AnswerInv'
      BY <2>3, <2>4, ListsAreTyped DEF Resume
    <2>5. ASSUME NEW a \in Instance, NEW t \in Thread, IdleDrain(a, t) PROVE AnswerInv'
      <3>1. t \in Task
        BY DEF Task
      <3>2. QED
        BY <2>3, <2>5, <3>1, ListsAreTyped DEF IdleDrain, IsFree
    <2>6. ASSUME NEW a \in Instance, NEW t \in Thread, SessionStep(a, t) \/ SessionTrouble(a, t)
          PROVE  AnswerInv'
      BY <2>6, SessionPreservesAnswerInv
    <2>7. CASE Crash
      BY <2>7, CrashPreservesAnswerInv
    <2>8. ASSUME NEW a \in Instance, NEW w \in Task, HandleMessage(a, w) \/ DispatchFails(a, w)
          PROVE  AnswerInv'
      BY <2>8, DispatchPreservesAnswerInv
    <2>9. QED
      BY <2>1, <2>2, <2>4, <2>5, <2>6, <2>7, <2>8 DEF Next
  <1>3. QED
    BY <1>1, <1>2, WorkInvariance, PTL DEF Spec

\* Nothing is completed that was neither answered nor dropped.
THEOREM CompletedEventsWereAnswered == Spec => []CompletedWasAnswered
  <1>1. AnswerInv => CompletedWasAnswered
    BY DEF AnswerInv, QueueSound
  <1>2. QED
    BY <1>1, AnswerInvariance, PTL

\* Only the loss of a result costs another answer.
THEOREM EventsAreAnsweredOnce == Spec => []AnsweredOnce
  <1>1. AnswerInv => AnsweredOnce
    BY DEF AnswerInv, AnswersSound
  <1>2. QED
    BY <1>1, AnswerInvariance, PTL
=============================================================================

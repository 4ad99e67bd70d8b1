------------------------- MODULE DurableQueueProofs -------------------------
(***************************************************************************)
(* Proofs about DurableQueue, for any number of threads and events and any *)
(* bounds: the lock of the path excludes, a file that was spoilt is never  *)
(* written again, what was promised is durable, no content is refused by   *)
(* _load, and the file implements AssignmentQueue. The argument: a call    *)
(* that is past _load holds the lock and has found a readable file, and    *)
(* while a call holds the lock nobody else writes; so no call is past      *)
(* _load once the file is spoilt, and what a call puts in place is what    *)
(* was there, with one assignment more or less. That the one is a step of  *)
(* the queue takes a last fact: every content is the answered identities   *)
(* followed by the waiting ones.                                           *)
(***************************************************************************)
EXTENDS DurableQueue, SequenceLemmas, FiniteSetTheorems, TLAPS

\* A call's record, whatever its fields hold.
Calls ==
  call = [c \in Caller |-> [op |-> call[c].op, event |-> call[c].event,
                            at |-> call[c].at, new |-> call[c].new]]

Inside == {"entering", "locked", "write", "written", "synced", "replaced"}

\* Whoever is past the acquisition holds the lock, with a content in its hands
\* that is one.
HoldsLock ==
  \A c \in Caller :
    /\ call[c].at \in Inside => lock = c
    /\ call[c].new # Torn

\* Nobody is at work on a spoilt file, or on its directory, and a loss of power
\* does not bring back what it held.
LeftAlone ==
  /\ visible = Torn => lock = NoOne /\ dir = "private"
  /\ visible = Torn <=> durable = Torn
  /\ unsynced = FALSE

IInv == Calls /\ HoldsLock /\ LeftAlone

-----------------------------------------------------------------------------

\* What _save writes is never taken for a spoilt file.
LEMMA SavedIsContent == ASSUME NEW s, NEW p PROVE Saved(s, p) # Torn
  BY DEF Saved, Torn

\* A missing file is no spoilt one.
LEMMA EmptyIsContent == Empty # Torn
  BY DEF Empty, Torn

\* The initial state satisfies the invariant.
LEMMA InitEstablishesIInv == Init => IInv
  BY EmptyIsContent DEF Init, IInv, Calls, HoldsLock, LeftAlone, Inside, Idle

\* Each step of a call preserves the invariant.
LEMMA CallPreservesIInv ==
  ASSUME IInv, NEW c \in Caller, Step(c) PROVE IInv'
  <1> USE ConstantsAssumption DEF IInv, HoldsLock, LeftAlone, Inside, file, rest
  <1>1. ASSUME NEW e \in Event, NEW op \in {"ingest", "complete"}, Start(c, op, e) PROVE IInv'
    BY <1>1, EmptyIsContent DEF Start, Calls
  <1>2. CASE Acquire(c)
    BY <1>2 DEF Acquire, OpenDir, GoToWith, Loadable, Calls
  <1>3. CASE LoadRefuses(c)
    BY <1>3, EmptyIsContent DEF LoadRefuses, EndCall, Idle, Calls
  <1>4. CASE IngestSeen(c)
    BY <1>4, EmptyIsContent DEF IngestSeen, EndCall, Idle, Calls
  <1>5. CASE IngestFull(c)
    BY <1>5, EmptyIsContent DEF IngestFull, EndCall, Idle, Calls
  <1>6. CASE IngestNew(c)
    BY <1>6, SavedIsContent DEF IngestNew, GoToWith, Calls
  <1>7. CASE CompleteRemoves(c)
    BY <1>7, SavedIsContent DEF CompleteRemoves, GoToWith, Calls
  <1>8. CASE Write(c)
    BY <1>8, SMTT(30) DEF Write, GoTo, Calls
  <1>9. CASE Sync(c)
    BY <1>9, SMTT(30) DEF Sync, GoTo, Calls
  <1>10. CASE SaveFails(c)
    BY <1>10, EmptyIsContent DEF SaveFails, EndCall, Idle, Calls
  <1>11. CASE Replace(c)
    BY <1>11, SMTT(30) DEF Replace, PutInPlace, GoTo, Calls
  <1>12. CASE SyncDir(c)
    BY <1>12, EmptyIsContent DEF SyncDir, ReturnSaved, EndCall, Idle, Calls
  <1>13. CASE SyncDirFails(c)
    BY <1>13, EmptyIsContent DEF SyncDirFails, Mishap, EndCall, Idle, Calls
  <1>14. CASE MakeDir(c)
    BY <1>14, SMTT(30) DEF MakeDir, GoTo, Calls
  <1>15. CASE LockDown(c)
    BY <1>15, EmptyIsContent DEF LockDown, GoToWith, Calls
  <1>16. CASE LockDownFails(c)
    BY <1>16, EmptyIsContent DEF LockDownFails, EndCall, Idle, Calls
  <1>17. CASE FlushFails(c)
    BY <1>17, EmptyIsContent DEF FlushFails, Mishap, EndCall, Idle, Calls
  <1>18. CASE CheckFails(c)
    BY <1>18, EmptyIsContent DEF CheckFails, EndCall, Idle, Calls
  <1>19. QED
    BY <1>1, <1>2, <1>3, <1>4, <1>5, <1>6, <1>7, <1>8, <1>9, <1>10, <1>11, <1>12, <1>13,
       <1>14, <1>15, <1>16, <1>17, <1>18 DEF Step

\* Each step, of a call and of the environment, preserves the invariant.
LEMMA StepPreservesIInv == IInv /\ [Next]_vars => IInv'
  <1> SUFFICES ASSUME IInv, [Next]_vars PROVE IInv'
    OBVIOUS
  <1> USE DEF IInv, Calls, HoldsLock, LeftAlone, Inside, file, rest
  <1>1. ASSUME NEW c \in Caller, Step(c) PROVE IInv'
    BY <1>1, CallPreservesIInv
  <1>2. CASE Flush
    BY <1>2 DEF Flush
  <1>3. CASE ProcessCrash
    BY <1>3, EmptyIsContent DEF ProcessCrash, Mishap, Idle
  <1>4. CASE PowerLoss
    BY <1>4, EmptyIsContent DEF PowerLoss, Mishap, Idle
  <1>5. CASE Damage
    BY <1>5 DEF Damage, Mishap
  <1>6. CASE UNCHANGED vars
    BY <1>6 DEF vars
  <1>7. QED
    BY <1>1, <1>2, <1>3, <1>4, <1>5, <1>6 DEF Next

\* The inductive invariant of the lock and of a spoilt file.
THEOREM LockInvariant == Spec => []IInv
  <1>1. QED
    BY InitEstablishesIInv, StepPreservesIInv, PTL DEF Spec

-----------------------------------------------------------------------------

\* Two calls are never past the acquisition at the same time: no update of one
\* is computed from what the other one is about to replace.
OneInside ==
  \A c, d \in Caller : call[c].at \in Inside /\ call[d].at \in Inside => c = d

\* ingest and complete exclude each other, for any number of threads.
THEOREM MutualExclusion == Spec => []OneInside
  <1>1. IInv => OneInside
    BY DEF IInv, HoldsLock, OneInside
  <1>2. QED
    BY <1>1, LockInvariant, PTL

\* A call replaces the file only while it holds the lock on a readable one, so
\* that a file which _load has refused stays as it is.
THEOREM SpoiltFileIsKept == Spec => DamageIsNeverOverwritten
  <1>1. ASSUME IInv, [Next]_vars, visible = Torn PROVE visible' = Torn
    <2> USE ConstantsAssumption DEF IInv, HoldsLock, LeftAlone, Inside, file, rest
    <2>1. ASSUME NEW c \in Caller, Step(c) PROVE visible' = Torn
      BY <1>1, <2>1, EmptyIsContent DEF Step, Start, Acquire, LoadRefuses, IngestSeen, IngestFull, IngestNew,
         CompleteRemoves, Write, Sync, SaveFails, Replace, SyncDir, ReturnSaved, SyncDirFails,
         MakeDir, LockDown, LockDownFails, FlushFails, CheckFails
    <2>2. CASE Flush \/ ProcessCrash \/ PowerLoss \/ Damage
      BY <1>1, <2>2 DEF Flush, ProcessCrash, PowerLoss, Damage
    <2>3. CASE UNCHANGED vars
      BY <1>1, <2>3 DEF vars
    <2>4. QED
      BY <1>1, <2>1, <2>2, <2>3 DEF Next
  <1>2. IInv /\ [Next]_vars => [visible = Torn => visible' = Torn]_vars
    BY <1>1
  <1>3. QED
    BY <1>2, LockInvariant, PTL DEF Spec, DamageIsNeverOverwritten
-----------------------------------------------------------------------------

Saving == {"write", "written", "synced"}

\* What a call holds in its hands is what is in the file, or what is to come.
InHand(c) ==
  /\ call[c].new.pending \in Seq(Event)
  /\ call[c].at # "idle" => call[c].event \in Event
  /\ call[c].at \in Inside \ {"entering"} => dir = "private"
  /\ call[c].at = "entering" => visible = Empty /\ durable = Empty
  /\ call[c].at = "locked" => call[c].new = visible
  /\ call[c].at \in Saving => promised \ {call[c].event} \subseteq Range(call[c].new.pending)
  /\ call[c].at \in Saving /\ call[c].op # "complete" =>
       promised \subseteq Range(call[c].new.pending)

\* The file has what was promised, and so has what is durable, which is the same
\* unless a call is about to sync it.
Kept ==
  /\ visible # Torn /\ durable # Torn
  /\ visible.pending \in Seq(Event) /\ durable.pending \in Seq(Event)
  /\ dir = "absent" => visible = Empty /\ durable = Empty
  /\ promised \subseteq Range(visible.pending)
  /\ promised \subseteq Range(durable.pending)
  /\ (\A c \in Caller : call[c].at # "replaced") => durable = visible

\* What holds as long as no call was cut short and nothing spoilt the file.
Sound == (\A c \in Caller : InHand(c)) /\ Kept

PromiseInv == mishaps \cap {"damage", "cutShort"} = {} => Sound

\* What complete leaves of the waiting events: every other one.
LEMMA WithoutKeeps ==
  ASSUME NEW s \in Seq(Event), NEW e
  PROVE  /\ Without(s, e) \in Seq(Event)
         /\ Range(s) \ {e} \subseteq Range(Without(s, e))
  <1>1. CASE e \notin Range(s)
    BY <1>1 DEF Without
  <1>2. CASE e \in Range(s)
    <2> DEFINE i == CHOOSE j \in DOMAIN s : s[j] = e
    <2>1. DOMAIN s = 1..Len(s)
      BY LenProperties
    <2>2. i \in 1..Len(s) /\ s[i] = e
      BY <1>2, <2>1 DEF Range
    <2>3. Without(s, e) = RemoveAt(s, i)
      BY <1>2 DEF Without
    <2> HIDE DEF i
    <2>4. QED
      BY <2>2, <2>3, RemoveAtProperties, RemoveAtKeeps
  <1>3. QED
    BY <1>1, <1>2

\* _save writes the waiting events as they are.
LEMMA SavedPending == ASSUME NEW s, NEW p PROVE Saved(s, p).pending = p
  BY DEF Saved

\* A missing file has no waiting events.
LEMMA EmptyPending == Empty.pending \in Seq(Event) /\ Range(Empty.pending) = {}
  <1>1. Empty.pending = <<>>
    BY DEF Empty
  <1>2. <<>> \in Seq(Event) /\ DOMAIN <<>> = {}
    BY EmptySeq
  <1>3. QED
    BY <1>1, <1>2 DEF Range

\* Nothing is promised at first.
LEMMA InitEstablishesPromiseInv == Init => PromiseInv
  BY EmptyPending, EmptyIsContent
  DEF Init, PromiseInv, Sound, InHand, Kept, Saving, Inside, Idle

\* Each step of a call preserves it, unless it is one of the mishaps.
LEMMA CallPreservesSound ==
  ASSUME IInv, Sound, NEW c \in Caller, Step(c), mishaps' \cap {"damage", "cutShort"} = {}
  PROVE  Sound'
  <1> USE ConstantsAssumption
      DEF IInv, Calls, HoldsLock, LeftAlone, Sound, InHand, Kept, Inside, Saving, file, rest
  <1>1. ASSUME NEW e \in Event, NEW op \in {"ingest", "complete"}, Start(c, op, e) PROVE Sound'
    BY <1>1, EmptyPending DEF Start
  <1>2. CASE Acquire(c)
    BY <1>2 DEF Acquire, OpenDir, GoToWith
  <1>3. CASE LoadRefuses(c)
    BY <1>3, EmptyPending DEF LoadRefuses, EndCall, Idle
  <1>4. CASE IngestSeen(c)
    BY <1>4, EmptyPending, ZenonT(30) DEF IngestSeen, EndCall, Idle
  <1>5. CASE IngestFull(c)
    BY <1>5, EmptyPending DEF IngestFull, EndCall, Idle
  <1>6. CASE IngestNew(c)
    <2>1. /\ Append(call[c].new.pending, call[c].event) \in Seq(Event)
          /\ Range(call[c].new.pending) \subseteq Range(Append(call[c].new.pending, call[c].event))
      BY <1>6, AppendKeeps DEF IngestNew
    <2> DEFINE new == Saved(Append(call[c].new.seen, call[c].event),
                            Append(call[c].new.pending, call[c].event))
    <2>2. new.pending = Append(call[c].new.pending, call[c].event)
      BY SavedPending
    <2>3. /\ call' = [call EXCEPT ![c] = [op |-> call[c].op, event |-> call[c].event,
                                         at |-> "write", new |-> new]]
          /\ call[c].at = "locked"
          /\ UNCHANGED <<file, lock, age, promised, rest>>
      BY <1>6 DEF IngestNew, GoToWith
    <2> HIDE DEF new
    <2>4. promised \subseteq Range(new.pending)
      BY <2>1, <2>2, <2>3
    <2>5. QED
      BY <2>1, <2>2, <2>3, <2>4
  <1>7. CASE CompleteRemoves(c)
    <2>1. /\ Without(call[c].new.pending, call[c].event) \in Seq(Event)
          /\ Range(call[c].new.pending) \ {call[c].event}
               \subseteq Range(Without(call[c].new.pending, call[c].event))
      BY WithoutKeeps
    <2> DEFINE new == Saved(call[c].new.seen, Without(call[c].new.pending, call[c].event))
    <2>2. new.pending = Without(call[c].new.pending, call[c].event)
      BY SavedPending
    <2>3. /\ call' = [call EXCEPT ![c] = [op |-> call[c].op, event |-> call[c].event,
                                         at |-> "write", new |-> new]]
          /\ call[c].at = "locked" /\ call[c].op = "complete"
          /\ UNCHANGED <<file, lock, age, promised, rest>>
      BY <1>7 DEF CompleteRemoves, GoToWith
    <2> HIDE DEF new
    <2>4. promised \ {call[c].event} \subseteq Range(new.pending)
      BY <2>1, <2>2, <2>3
    <2>5. QED
      BY <2>1, <2>2, <2>3, <2>4
  <1>8. CASE Write(c)
    BY <1>8, SMTT(30) DEF Write, GoTo
  <1>9. CASE Sync(c)
    BY <1>9, SMTT(30) DEF Sync, GoTo
  <1>10. CASE SaveFails(c)
    BY <1>10, EmptyPending DEF SaveFails, EndCall, Idle
  <1>11. CASE Replace(c)
    BY <1>11, SMTT(30) DEF Replace, PutInPlace, GoTo
  <1>12. CASE SyncDir(c)
    BY <1>12, EmptyPending, SMTT(30) DEF SyncDir, ReturnSaved, EndCall, Idle
  <1>13. CASE SyncDirFails(c) \/ FlushFails(c)
    BY <1>13 DEF SyncDirFails, FlushFails, Mishap
  <1>14. CASE MakeDir(c)
    BY <1>14, SMTT(30) DEF MakeDir, GoTo
  <1>15. CASE LockDown(c)
    BY <1>15, EmptyPending DEF LockDown, GoToWith
  <1>16. CASE LockDownFails(c)
    BY <1>16, EmptyPending DEF LockDownFails, EndCall, Idle
  <1>17. CASE CheckFails(c)
    BY <1>17, EmptyPending DEF CheckFails, EndCall, Idle
  <1>18. QED
    BY <1>1, <1>2, <1>3, <1>4, <1>5, <1>6, <1>7, <1>8, <1>9, <1>10, <1>11, <1>12, <1>13,
       <1>14, <1>15, <1>16, <1>17 DEF Step

\* Each step, of a call and of the environment, preserves it.
LEMMA StepPreservesPromiseInv == IInv /\ PromiseInv /\ [Next]_vars => PromiseInv'
  <1> SUFFICES ASSUME IInv, PromiseInv, [Next]_vars,
                      mishaps' \cap {"damage", "cutShort"} = {}
               PROVE  Sound'
    BY DEF PromiseInv
  <1>1. ASSUME NEW c \in Caller, Step(c) PROVE mishaps \subseteq mishaps'
    BY <1>1 DEF Step, Start, Acquire, OpenDir, LoadRefuses, MakeDir, LockDown, LockDownFails,
       IngestSeen, IngestFull, IngestNew, CompleteRemoves, Write, Sync, SaveFails, Replace,
       PutInPlace, SyncDir, SyncDirFails, FlushFails, CheckFails, Mishap, rest
  <1>2. mishaps \subseteq mishaps'
    BY <1>1 DEF Next, Flush, ProcessCrash, PowerLoss, Damage, Mishap, vars, rest
  <1>3. Sound
    BY <1>2 DEF PromiseInv
  <1> USE DEF IInv, Calls, HoldsLock, LeftAlone, Sound, InHand, Kept, Inside, Saving, file, rest
  <1>4. ASSUME NEW c \in Caller, Step(c) PROVE Sound'
    BY <1>3, <1>4, CallPreservesSound
  <1>5. CASE Flush
    BY <1>3, <1>5 DEF Flush
  <1>6. CASE ProcessCrash
    BY <1>3, <1>6, EmptyPending DEF ProcessCrash, Mishap, Idle
  <1>7. CASE PowerLoss
    BY <1>3, <1>7, EmptyPending DEF PowerLoss, Mishap, Idle
  <1>8. CASE Damage
    BY <1>8 DEF Damage, Mishap
  <1>9. CASE UNCHANGED vars
    BY <1>3, <1>9 DEF vars
  <1>10. QED
    BY <1>4, <1>5, <1>6, <1>7, <1>8, <1>9 DEF Next

\* What ingest has promised is durable until it is completed, for any number of
\* threads, whatever fails before the replacement and whenever the process dies
\* or the power is lost, as long as no call is cut short after its replacement.
THEOREM PromiseSurvives == Spec => []PromisedIsDurable
  <1>1. PromiseInv => PromisedIsDurable
    BY DEF PromiseInv, PromisedIsDurable, Sound, Kept, PromisesKept
  <1>2. QED
    BY <1>1, InitEstablishesPromiseInv, StepPreservesPromiseInv, LockInvariant, PTL DEF Spec
-----------------------------------------------------------------------------

Content == [seen : Seq(Event), pending : Seq(Event)]

\* A content that _load accepts.
Sane(x) == x \in Content /\ Loadable(x)

\* Whatever is in the file, durable or in the hands of a call is accepted by
\* _load, unless something else has spoilt the file.
ContentInv ==
  /\ visible = Torn \/ Sane(visible)
  /\ durable = Torn \/ Sane(durable)
  /\ visible = Torn => "damage" \in mishaps
  /\ \A c \in Caller : Sane(call[c].new)
  /\ \A c \in Caller : call[c].at # "idle" => call[c].event \in Event

\* What _trim leaves: every value that it has is there once, and of a list without
\* repetitions that is short enough all of them are.
LEMMA TrimProperties ==
  ASSUME NEW s \in Seq(Event), NEW cap \in Nat
  PROVE  /\ Trim(s, cap) \in Seq(Event) /\ NoRepeat(Trim(s, cap))
         /\ Range(Trim(s, cap)) \subseteq Range(s)
         /\ NoRepeat(s) /\ Len(s) <= cap => Range(Trim(s, cap)) = Range(s)
  <1> DEFINE lasts == {i \in DOMAIN s : \A j \in DOMAIN s : j > i => s[j] # s[i]}
             kept  == Sublist(s, lasts)
  <1>1. Trim(s, cap) = IF Len(kept) > cap THEN SubSeq(kept, Len(kept) - cap + 1, Len(kept)) ELSE kept
    BY DEF Trim
  <1>2. Len(s) \in Nat /\ DOMAIN s = 1..Len(s)
    BY LenProperties
  <1>3. lasts \in SUBSET (DOMAIN s)
    OBVIOUS
  <1>4. \A i, j \in lasts : s[i] = s[j] => i = j
    BY <1>2
  <1>5. NoRepeat(s) => lasts = DOMAIN s
    BY <1>2 DEF NoRepeat
  <1> HIDE DEF lasts
  <1>6. /\ kept \in Seq(Event) /\ Len(kept) = Cardinality(lasts) /\ Cardinality(lasts) <= Len(s)
        /\ \A n \in 1..Cardinality(lasts) : \E i \in lasts : n = Rank(lasts, i) /\ kept[n] = s[i]
        /\ Range(kept) = {s[i] : i \in lasts}
    BY <1>3, SublistProperties
  <1> HIDE DEF kept
  <1>7. Len(kept) \in Nat /\ DOMAIN kept = 1..Len(kept)
    BY <1>6, LenProperties
  <1>8. NoRepeat(kept)
    <2>1. ASSUME NEW k \in DOMAIN kept, NEW n \in DOMAIN kept, kept[k] = kept[n] PROVE k = n
      <3>1. PICK i \in lasts : k = Rank(lasts, i) /\ kept[k] = s[i]
        BY <1>6, <1>7, <2>1
      <3>2. PICK j \in lasts : n = Rank(lasts, j) /\ kept[n] = s[j]
        BY <1>6, <1>7, <2>1
      <3>3. i = j
        BY <1>4, <2>1, <3>1, <3>2
      <3>4. QED
        BY <3>1, <3>2, <3>3
    <2>2. QED
      BY <2>1 DEF NoRepeat
  <1>9. Range(kept) \subseteq Range(s) /\ (NoRepeat(s) => Range(kept) = Range(s))
    BY <1>3, <1>5, <1>6 DEF Range
  <1>10. CASE Len(kept) > cap
    <2>1. Len(kept) - cap + 1 \in 1..(Len(kept) + 1)
      BY <1>7, <1>10
    <2>2. /\ SubSeq(kept, Len(kept) - cap + 1, Len(kept)) \in Seq(Event)
          /\ NoRepeat(SubSeq(kept, Len(kept) - cap + 1, Len(kept)))
          /\ Range(SubSeq(kept, Len(kept) - cap + 1, Len(kept))) \subseteq Range(kept)
      BY <1>6, <1>8, <2>1, SuffixKeepsNoRepeat
    <2>3. ~(Len(s) <= cap)
      BY <1>2, <1>6, <1>7, <1>10
    <2>4. QED
      BY <1>1, <1>9, <1>10, <2>2, <2>3
  <1>11. CASE ~(Len(kept) > cap)
    BY <1>1, <1>6, <1>8, <1>9, <1>11
  <1>12. QED
    BY <1>10, <1>11

\* What _save writes is what _load accepts: a waiting identity is never forgotten,
\* however many answered ones there are.
LEMMA SavedIsSane ==
  ASSUME NEW seen \in Seq(Event), NEW pending \in Seq(Event), NoRepeat(pending),
         Len(pending) <= MaxPending
  PROVE  Sane(Saved(seen, pending))
  <1> DEFINE completed == Only(seen, Range(seen) \ Range(pending))
             front == Trim(completed, MaxSeen)
             back  == Trim(pending, Len(pending))
  <1>1. completed \in Seq(Event) /\ Range(completed) \cap Range(pending) = {}
    <2>1. completed \in Seq(Event) /\ Range(completed) = Range(seen) \cap (Range(seen) \ Range(pending))
      BY OnlyProperties
    <2>2. QED
      BY <2>1
  <1> HIDE DEF completed
  <1>2. front \in Seq(Event) /\ NoRepeat(front) /\ Range(front) \subseteq Range(completed)
    BY <1>1, ConstantsAssumption, TrimProperties
  <1>3. back \in Seq(Event) /\ NoRepeat(back) /\ Range(back) = Range(pending)
    <2>1. Len(pending) \in Nat /\ Len(pending) <= Len(pending)
      BY LenProperties
    <2>2. QED
      BY <2>1, TrimProperties
  <1>4. Saved(seen, pending) = [seen |-> front \o back, pending |-> pending]
    BY DEF Saved, completed
  <1> HIDE DEF front, back
  <1>5. /\ front \o back \in Seq(Event) /\ NoRepeat(front \o back)
        /\ Range(front \o back) = Range(front) \cup Range(back)
    BY <1>1, <1>2, <1>3, ConcatKeepsNoRepeat
  <1> DEFINE all == front \o back
  <1> HIDE DEF all
  <1>6. /\ Saved(seen, pending) = [seen |-> all, pending |-> pending]
        /\ all \in Seq(Event) /\ NoRepeat(all) /\ Range(pending) \subseteq Range(all)
    BY <1>3, <1>4, <1>5 DEF all
  <1>7. QED
    BY <1>6, SavedIsContent DEF Sane, Content, Loadable

\* A missing file reads as an empty queue, which _load accepts.
LEMMA EmptyIsSane == Sane(Empty)
  <1>1. <<>> \in Seq(Event) /\ Len(<<>>) = 0 /\ DOMAIN <<>> = {}
    BY EmptySeq
  <1>2. NoRepeat(<<>>) /\ Range(<<>>) = {}
    BY <1>1 DEF NoRepeat, Range
  <1>3. Empty.seen = <<>> /\ Empty.pending = <<>> /\ Empty \in Content
    BY <1>1 DEF Empty, Content
  <1>4. QED
    BY <1>1, <1>2, <1>3, EmptyIsContent, ConstantsAssumption DEF Sane, Loadable

\* The content that ingest computes.
LEMMA IngestedIsSane ==
  ASSUME NEW old, Sane(old), NEW e \in Event, e \notin Range(old.seen),
         Len(old.pending) < MaxPending
  PROVE  Sane(Saved(Append(old.seen, e), Append(old.pending, e)))
  <1>1. /\ old.seen \in Seq(Event) /\ old.pending \in Seq(Event)
        /\ NoRepeat(old.pending) /\ e \notin Range(old.pending)
    BY DEF Sane, Content, Loadable
  <1>2. /\ Append(old.seen, e) \in Seq(Event) /\ Append(old.pending, e) \in Seq(Event)
        /\ Len(Append(old.pending, e)) = Len(old.pending) + 1
    BY <1>1, AppendProperties
  <1>3. NoRepeat(Append(old.pending, e))
    BY <1>1, AppendKeepsNoRepeat
  <1>4. Len(Append(old.pending, e)) <= MaxPending
    BY <1>1, <1>2, LenProperties, ConstantsAssumption
  <1>5. QED
    BY <1>2, <1>3, <1>4, SavedIsSane

\* The content that complete computes.
LEMMA CompletedIsSane ==
  ASSUME NEW old, Sane(old), NEW e
  PROVE  Sane(Saved(old.seen, Without(old.pending, e)))
  <1> DEFINE s == old.pending
  <1>1. /\ old.seen \in Seq(Event) /\ s \in Seq(Event) /\ NoRepeat(s) /\ Len(s) <= MaxPending
    BY DEF Sane, Content, Loadable
  <1> HIDE DEF s
  <1>2. Without(s, e) \in Seq(Event) /\ NoRepeat(Without(s, e)) /\ Len(Without(s, e)) <= MaxPending
    <2>1. CASE e \notin Range(s)
      BY <1>1, <2>1 DEF Without
    <2>2. CASE e \in Range(s)
      <3> DEFINE i == CHOOSE j \in DOMAIN s : s[j] = e
      <3>1. DOMAIN s = 1..Len(s) /\ Len(s) \in Nat
        BY <1>1, LenProperties
      <3>2. i \in 1..Len(s)
        BY <2>2, <3>1 DEF Range
      <3>3. Without(s, e) = RemoveAt(s, i)
        BY <2>2 DEF Without
      <3> HIDE DEF i
      <3>4. /\ RemoveAt(s, i) \in Seq(Event) /\ Len(RemoveAt(s, i)) = Len(s) - 1
            /\ NoRepeat(RemoveAt(s, i))
        BY <1>1, <3>2, RemoveAtProperties, RemoveAtOnce
      <3>5. QED
        BY <1>1, <3>1, <3>3, <3>4, ConstantsAssumption
    <2>3. QED
      BY <2>1, <2>2
  <1>3. QED
    BY <1>1, <1>2, SavedIsSane DEF s

\* Each step of a call keeps the contents sane.
LEMMA CallKeepsContent ==
  ASSUME IInv, ContentInv, NEW c \in Caller, Step(c) PROVE ContentInv'
  <1> USE ConstantsAssumption DEF IInv, Calls, HoldsLock, LeftAlone, ContentInv, Inside, file, rest
  <1>1. ASSUME NEW e \in Event, NEW op \in {"ingest", "complete"}, Start(c, op, e) PROVE ContentInv'
    BY <1>1, EmptyIsSane DEF Start
  <1>2. CASE Acquire(c)
    BY <1>2 DEF Acquire, OpenDir, GoToWith, Loadable
  <1>3. CASE LoadRefuses(c)
    BY <1>3, EmptyIsSane DEF LoadRefuses, EndCall, Idle
  <1>4. CASE IngestSeen(c)
    BY <1>4, EmptyIsSane DEF IngestSeen, EndCall, Idle
  <1>5. CASE IngestFull(c)
    BY <1>5, EmptyIsSane DEF IngestFull, EndCall, Idle
  <1>6. CASE IngestNew(c)
    <2> DEFINE new == Saved(Append(call[c].new.seen, call[c].event),
                            Append(call[c].new.pending, call[c].event))
    <2>1. Sane(new)
      BY <1>6, IngestedIsSane DEF IngestNew
    <2>2. /\ call' = [call EXCEPT ![c] = [op |-> call[c].op, event |-> call[c].event,
                                         at |-> "write", new |-> new]]
          /\ call[c].at = "locked"
          /\ UNCHANGED <<file, lock, age, promised, rest>>
      BY <1>6 DEF IngestNew, GoToWith
    <2> HIDE DEF new
    <2>3. QED
      BY <2>1, <2>2
  <1>7. CASE CompleteRemoves(c)
    <2> DEFINE new == Saved(call[c].new.seen, Without(call[c].new.pending, call[c].event))
    <2>1. Sane(new)
      BY CompletedIsSane
    <2>2. /\ call' = [call EXCEPT ![c] = [op |-> call[c].op, event |-> call[c].event,
                                         at |-> "write", new |-> new]]
          /\ call[c].at = "locked"
          /\ UNCHANGED <<file, lock, age, promised, rest>>
      BY <1>7 DEF CompleteRemoves, GoToWith
    <2> HIDE DEF new
    <2>3. QED
      BY <2>1, <2>2
  <1>8. CASE Write(c)
    BY <1>8, SMTT(30) DEF Write, GoTo
  <1>9. CASE Sync(c)
    BY <1>9, SMTT(30) DEF Sync, GoTo
  <1>10. CASE SaveFails(c)
    BY <1>10, EmptyIsSane DEF SaveFails, EndCall, Idle
  <1>11. CASE Replace(c)
    BY <1>11, SMTT(30) DEF Replace, PutInPlace, GoTo
  <1>12. CASE SyncDir(c)
    BY <1>12, EmptyIsSane DEF SyncDir, ReturnSaved, EndCall, Idle
  <1>13. CASE SyncDirFails(c)
    BY <1>13, EmptyIsSane DEF SyncDirFails, Mishap, EndCall, Idle
  <1>14. CASE MakeDir(c)
    BY <1>14, SMTT(30) DEF MakeDir, GoTo
  <1>15. CASE LockDown(c)
    BY <1>15, EmptyIsSane DEF LockDown, GoToWith
  <1>16. CASE LockDownFails(c)
    BY <1>16, EmptyIsSane DEF LockDownFails, EndCall, Idle
  <1>17. CASE FlushFails(c)
    BY <1>17, EmptyIsSane, EmptyIsContent DEF FlushFails, Mishap, EndCall, Idle
  <1>18. CASE CheckFails(c)
    BY <1>18, EmptyIsSane DEF CheckFails, EndCall, Idle
  <1>19. QED
    BY <1>1, <1>2, <1>3, <1>4, <1>5, <1>6, <1>7, <1>8, <1>9, <1>10, <1>11, <1>12, <1>13,
       <1>14, <1>15, <1>16, <1>17, <1>18 DEF Step

\* Whatever is in the file is a queue, unless something else has spoilt it.
THEOREM ContentInvariant == Spec => []ContentInv
  <1>1. Init => ContentInv
    BY EmptyIsSane, EmptyIsContent DEF Init, ContentInv, Idle
  <1>2. IInv /\ ContentInv /\ [Next]_vars => ContentInv'
    <2> SUFFICES ASSUME IInv, ContentInv, [Next]_vars PROVE ContentInv'
      OBVIOUS
    <2> USE DEF IInv, LeftAlone, ContentInv, file, rest
    <2>1. ASSUME NEW c \in Caller, Step(c) PROVE ContentInv'
      BY <2>1, CallKeepsContent
    <2>2. CASE Flush
      BY <2>2 DEF Flush
    <2>3. CASE ProcessCrash
      BY <2>3, EmptyIsSane DEF ProcessCrash, Mishap, Idle
    <2>4. CASE PowerLoss
      BY <2>4, EmptyIsSane DEF PowerLoss, Mishap, Idle
    <2>5. CASE Damage
      BY <2>5 DEF Damage, Mishap
    <2>6. CASE UNCHANGED vars
      BY <2>6 DEF vars
    <2>7. QED
      BY <2>1, <2>2, <2>3, <2>4, <2>5, <2>6 DEF Next
  <1>3. QED
    BY <1>1, <1>2, LockInvariant, PTL DEF Spec

\* Neither the file nor what a loss of power would leave of it is refused by
\* _load, whatever fails and whoever crashes.
THEOREM NeverRefused == Spec => []NeverUnreadable
  <1>1. IInv /\ ContentInv => NeverUnreadable
    BY DEF IInv, LeftAlone, ContentInv, Sane, NeverUnreadable
  <1>2. QED
    BY <1>1, LockInvariant, ContentInvariant, PTL
-----------------------------------------------------------------------------

\* The parts of the type that say nothing of a content: how far each call is, who
\* has the lock, ...
Places ==
  /\ lock \in Caller \cup {NoOne}
  /\ \A c \in Caller :
       /\ call[c].op \in {"none", "ingest", "complete"}
       /\ call[c].event \in Event \cup {NoOne}
       /\ call[c].at \in Stage
       /\ lock = c <=> call[c].at \notin {"idle", "blocked"}
       /\ call[c].op = "none" <=> call[c].at = "idle"

\* ... the histories, the directory and what has gone wrong.
Records ==
  /\ age \in [Event -> 0..MaxSeen]
  /\ promised \subseteq Event
  /\ platform \in Platforms /\ dir \in {"absent", "exposed", "private"}
  /\ mishaps \subseteq Mishaps /\ Cardinality(mishaps) <= MaxMishaps

\* A call takes the lock only when it is free and gives it back when it ends.
LEMMA StepKeepsPlaces ==
  ASSUME IInv, ContentInv, Places, [Next]_vars PROVE Places'
  <1> USE ConstantsAssumption DEF Calls, IInv, HoldsLock, Inside, Places, Stage, file, rest
  <1>1. ASSUME NEW c \in Caller, Step(c) PROVE Places'
    <2>1. ASSUME NEW e \in Event, NEW op \in {"ingest", "complete"}, Start(c, op, e) PROVE Places'
      BY <2>1 DEF Start
    <2>2. CASE Acquire(c)
      BY <2>2 DEF Acquire, GoToWith
    <2>3. CASE LoadRefuses(c) \/ LockDownFails(c) \/ IngestSeen(c) \/ IngestFull(c) \/ SaveFails(c)
      BY <2>3 DEF LoadRefuses, LockDownFails, IngestSeen, IngestFull, SaveFails, EndCall, Idle
    <2>4. CASE SyncDir(c) \/ SyncDirFails(c) \/ FlushFails(c) \/ CheckFails(c)
      BY <2>4 DEF SyncDir, ReturnSaved, SyncDirFails, FlushFails, CheckFails, EndCall, Idle
    <2>5. CASE IngestNew(c) \/ CompleteRemoves(c) \/ LockDown(c)
      BY <2>5 DEF IngestNew, CompleteRemoves, LockDown, GoToWith
    <2>6. CASE MakeDir(c)
      BY <2>6, SMTT(30) DEF MakeDir, GoTo
    <2>7. CASE Write(c)
      BY <2>7, SMTT(30) DEF Write, GoTo
    <2>8. CASE Sync(c)
      BY <2>8, SMTT(30) DEF Sync, GoTo
    <2>9. CASE Replace(c)
      BY <2>9, SMTT(30) DEF Replace, PutInPlace, GoTo
    <2>10. QED
      BY <1>1, <2>1, <2>2, <2>3, <2>4, <2>5, <2>6, <2>7, <2>8, <2>9 DEF Step
  <1>2. CASE ProcessCrash \/ PowerLoss
    BY <1>2 DEF ProcessCrash, PowerLoss, Idle
  <1>3. CASE Flush \/ Damage \/ UNCHANGED vars
    BY <1>3 DEF Flush, Damage, vars
  <1>4. QED
    BY <1>1, <1>2, <1>3 DEF Next

\* Each mishap is counted once.
LEMMA MishapIsCounted ==
  ASSUME Records, NEW kind, Mishap(kind)
  PROVE  mishaps' \subseteq Mishaps /\ Cardinality(mishaps') <= MaxMishaps
  <1>1. IsFiniteSet({"crash", "cutShort", "powerLoss", "damage"})
    <2>1. \A S, x : IsFiniteSet(S) => IsFiniteSet(S \cup {x})
      BY FS_AddElement
    <2>2. IsFiniteSet((({"crash"} \cup {"cutShort"}) \cup {"powerLoss"}) \cup {"damage"})
      BY <2>1, FS_Singleton, Zenon
    <2>3. {"crash", "cutShort", "powerLoss", "damage"}
            = (({"crash"} \cup {"cutShort"}) \cup {"powerLoss"}) \cup {"damage"}
      OBVIOUS
    <2>4. QED
      BY <2>2, <2>3
  <1>2. IsFiniteSet(mishaps)
    BY <1>1, FS_Subset, ConstantsAssumption DEF Records
  <1>3. Cardinality(mishaps) \in Nat /\ Cardinality(mishaps \cup {kind}) = Cardinality(mishaps) + 1
    BY <1>2, FS_CardinalityType, FS_AddElement DEF Mishap
  <1>4. QED
    BY <1>3, ConstantsAssumption DEF Records, Mishap

\* Each step keeps the histories and the rest within their bounds.
LEMMA StepKeepsRecords ==
  ASSUME IInv, ContentInv, Records, [Next]_vars PROVE Records'
  <1>1. \A e \in Event : Older(e) \in [Event -> 0..MaxSeen]
    BY ConstantsAssumption DEF Records, Older
  <1>2. \A kind : Mishap(kind) => /\ mishaps' \subseteq Mishaps /\ Cardinality(mishaps') <= MaxMishaps
                                  /\ UNCHANGED <<platform, dir>>
    BY MishapIsCounted DEF Mishap
  <1>3. ASSUME NEW c \in Caller, Step(c) PROVE Records'
    <2> USE DEF Records, ContentInv, file, rest
    <2>1. CASE \E e \in Event : Start(c, "ingest", e) \/ Start(c, "complete", e)
      BY <2>1 DEF Start
    <2>2. CASE Acquire(c)
      BY <2>2 DEF Acquire, OpenDir
    <2>3. CASE MakeDir(c) \/ LockDown(c)
      BY <2>3 DEF MakeDir, LockDown
    <2>4. CASE IngestSeen(c)
      BY <2>4 DEF IngestSeen
    <2>5. CASE SyncDir(c)
      BY <2>5 DEF SyncDir, ReturnSaved
    <2>6. CASE SyncDirFails(c) \/ FlushFails(c)
      BY <1>2, <2>6 DEF SyncDirFails, FlushFails
    <2>7. CASE Replace(c)
      BY <1>1, <2>7 DEF Replace, PutInPlace
    <2>8. CASE \/ LoadRefuses(c) \/ LockDownFails(c) \/ IngestFull(c) \/ IngestNew(c)
               \/ CompleteRemoves(c) \/ Write(c) \/ Sync(c) \/ SaveFails(c) \/ CheckFails(c)
      BY <2>8 DEF LoadRefuses, LockDownFails, IngestFull, IngestNew, CompleteRemoves, Write, Sync,
         SaveFails, CheckFails
    <2>9. QED
      BY <1>3, <2>1, <2>2, <2>3, <2>4, <2>5, <2>6, <2>7, <2>8 DEF Step
  <1>4. CASE ProcessCrash \/ PowerLoss \/ Damage
    BY <1>2, <1>4 DEF ProcessCrash, PowerLoss, Damage, Records
  <1>5. CASE Flush \/ UNCHANGED vars
    BY <1>5 DEF Flush, vars, rest, Records
  <1>6. QED
    BY <1>3, <1>4, <1>5 DEF Next

\* The type invariant: the lock is held exactly by the one call that is past its
\* acquisition, and every content is made of lists of events.
THEOREM TypeCorrectness == Spec => []TypeOK
  <1>1. Init => Places /\ Records
    BY ConstantsAssumption, FS_EmptySet DEF Init, Places, Records, Stage, Idle
  <1>2. IInv /\ ContentInv /\ Places /\ Records /\ [Next]_vars => (Places /\ Records)'
    BY StepKeepsPlaces, StepKeepsRecords
  <1>3. IInv /\ ContentInv /\ Places /\ Records => TypeOK
    <2> SUFFICES ASSUME IInv, ContentInv, Places, Records PROVE TypeOK
      OBVIOUS
    <2>1. call \in [Caller -> [op : {"none", "ingest", "complete"}, event : Event \cup {NoOne},
                               at : Stage, new : [seen : Seq(Event), pending : Seq(Event)]]]
      BY DEF IInv, Calls, ContentInv, Sane, Content, Places
    <2>2. QED
      BY <2>1 DEF IInv, LeftAlone, ContentInv, Sane, Content, Places, Records, TypeOK
  <1>4. QED
    BY <1>1, <1>2, <1>3, LockInvariant, ContentInvariant, PTL DEF Spec
-----------------------------------------------------------------------------

\* The answered identities that a content remembers, and what _save makes of every
\* content: these in front, the waiting ones behind.
Done(x) == Only(x.seen, Range(x.seen) \ Range(x.pending))

Built(x) == x.seen = Done(x) \o x.pending /\ Len(Done(x)) <= MaxSeen

Ingested(x, e) == Saved(Append(x.seen, e), Append(x.pending, e))

Completed(x, e) == Saved(x.seen, Without(x.pending, e))

\* What a call is about to put in place is computed from what is in place now.
Planned(c) ==
  /\ call[c].at = "entering" => visible = Empty /\ durable = Empty
  /\ call[c].at \in Inside \ {"entering"} => dir = "private"
  /\ call[c].at = "locked" => call[c].new = visible
  /\ call[c].at \in Saving /\ call[c].op = "ingest" =>
       /\ call[c].new = Ingested(visible, call[c].event)
       /\ call[c].event \notin Range(visible.seen) /\ Len(visible.pending) < MaxPending
  /\ call[c].at \in Saving /\ call[c].op = "complete" =>
       call[c].new = Completed(visible, call[c].event)

PlanInv ==
  /\ dir = "absent" => visible = Empty /\ durable = Empty
  /\ visible = Torn \/ Built(visible)
  /\ durable = Torn \/ Built(durable)
  /\ \A c \in Caller : Planned(c)

\* A list without repetitions that is short enough is left by _trim as it is, and
\* of one that is too long by one the first goes.
LEMMA TrimOfDistinct ==
  ASSUME NEW s \in Seq(Event), NoRepeat(s), NEW cap \in Nat, Len(s) <= cap + 1
  PROVE  Trim(s, cap) = IF Len(s) <= cap THEN s ELSE SubSeq(s, 2, Len(s))
  <1> DEFINE lasts == {i \in DOMAIN s : \A j \in DOMAIN s : j > i => s[j] # s[i]}
  <1>1. Len(s) \in Nat /\ DOMAIN s = 1..Len(s)
    BY LenProperties
  <1>2. lasts = 1..Len(s)
    BY <1>1 DEF NoRepeat
  <1>3. Sublist(s, 1..Len(s)) = s
    <2>1. Len(s) \in 0..Len(s)
      BY <1>1
    <2>2. /\ Sublist(s, 1..Len(s)) \in Seq(Event) /\ Len(Sublist(s, 1..Len(s))) = Len(s)
          /\ \A i \in 1..Len(s) : Sublist(s, 1..Len(s))[i] = s[i]
      BY <2>1, FirstEntries, Zenon
    <2>3. QED
      BY <2>2, SeqEqual
  <1>4. Sublist(s, lasts) = s
    BY <1>2, <1>3
  <1>5. Trim(s, cap) = IF Len(s) > cap THEN SubSeq(s, Len(s) - cap + 1, Len(s)) ELSE s
    BY <1>4 DEF Trim
  <1>6. CASE Len(s) <= cap
    BY <1>1, <1>5, <1>6
  <1>7. CASE ~(Len(s) <= cap)
    <2>1. Len(s) > cap /\ Len(s) - cap + 1 = 2
      BY <1>1, <1>7
    <2>2. QED
      BY <1>5, <1>7, <2>1
  <1>8. QED
    BY <1>6, <1>7

\* The answered identities of a content that is made of two lists.
LEMMA DoneInFront ==
  ASSUME NEW d \in Seq(Event), NEW p \in Seq(Event), Range(d) \cap Range(p) = {}
  PROVE  Only(d \o p, Range(d \o p) \ Range(p)) = d
  <1> DEFINE T == Range(d \o p) \ Range(p)
  <1>1. Range(d) \subseteq Range(d \o p)
    <2>1. /\ Len(d \o p) = Len(d) + Len(p) /\ d \o p \in Seq(Event)
          /\ \A i \in 1..(Len(d) + Len(p)) :
               (d \o p)[i] = IF i <= Len(d) THEN d[i] ELSE p[i - Len(d)]
      BY ConcatProperties
    <2>2. Len(d) \in Nat /\ Len(p) \in Nat /\ DOMAIN d = 1..Len(d)
          /\ DOMAIN (d \o p) = 1..Len(d \o p)
      BY <2>1, LenProperties
    <2>3. \A i \in DOMAIN d : i \in DOMAIN (d \o p) /\ (d \o p)[i] = d[i]
      BY <2>1, <2>2
    <2>4. QED
      BY <2>3 DEF Range
  <1>2. Range(d) \subseteq T /\ Range(p) \cap T = {}
    BY <1>1
  <1> HIDE DEF T
  <1>3. Only(d \o p, T) = d
    BY <1>2, OnlyTheFront
  <1>4. QED
    BY <1>3 DEF T

\* What _save makes of two lists when the answered identities among the first are
\* few enough, or one too many.
LEMMA SavedIsBuilt ==
  ASSUME NEW seen, NEW p \in Seq(Event), NoRepeat(p),
         NEW d \in Seq(Event), NoRepeat(d), Range(d) \cap Range(p) = {},
         Only(seen, Range(seen) \ Range(p)) = d, Len(d) <= MaxSeen + 1,
         NEW x, x = Saved(seen, p)
  PROVE  /\ x.pending = p /\ Built(x)
         /\ Done(x) = IF Len(d) <= MaxSeen THEN d ELSE SubSeq(d, 2, Len(d))
  <1> DEFINE front == IF Len(d) <= MaxSeen THEN d ELSE SubSeq(d, 2, Len(d))
  <1>1. Len(d) \in Nat /\ Len(p) \in Nat
    BY LenProperties
  <1>2. Trim(d, MaxSeen) = front
    BY TrimOfDistinct, ConstantsAssumption
  <1>3. Trim(p, Len(p)) = p
    <2>1. Len(p) \in Nat /\ Len(p) <= Len(p) + 1 /\ Len(p) <= Len(p)
      BY <1>1
    <2>2. QED
      BY <2>1, TrimOfDistinct
  <1>4. front \in Seq(Event) /\ Range(front) \subseteq Range(d) /\ Len(front) <= MaxSeen
    <2>1. CASE Len(d) <= MaxSeen
      BY <2>1
    <2>2. CASE ~(Len(d) <= MaxSeen)
      <3>1. 2 \in 1..(Len(d) + 1) /\ front = SubSeq(d, 2, Len(d)) /\ Len(d) - 2 + 1 <= MaxSeen
        BY <1>1, <2>2, ConstantsAssumption
      <3>2. SubSeq(d, 2, Len(d)) \in Seq(Event) /\ Range(SubSeq(d, 2, Len(d))) \subseteq Range(d)
        BY <3>1, SuffixKeepsNoRepeat
      <3>3. \A i \in 2..Len(d) : d[i] \in Event
        BY <1>1, ElementOfSeq
      <3>4. Len(SubSeq(d, 2, Len(d))) = Len(d) - 2 + 1
        <4>1. Len(SubSeq(d, 2, Len(d))) = IF 2 <= Len(d) THEN Len(d) - 2 + 1 ELSE 0
          BY <1>1, <3>3, SubSeqProperties
        <4>2. 2 <= Len(d)
          BY <1>1, <2>2, ConstantsAssumption
        <4>3. QED
          BY <4>1, <4>2
      <3>5. QED
        BY <3>1, <3>2, <3>4
    <2>3. QED
      BY <2>1, <2>2
  <1>5. Saved(seen, p) = [seen |-> front \o p, pending |-> p]
    BY <1>2, <1>3 DEF Saved
  <1>6. front = d \/ ~(Len(d) <= MaxSeen)
    OBVIOUS
  <1> HIDE DEF front
  <1>7. Range(front) \cap Range(p) = {}
    BY <1>4
  <1>8. Only(front \o p, Range(front \o p) \ Range(p)) = front
    BY <1>4, <1>7, DoneInFront
  <1>9. x.seen = front \o p /\ x.pending = p /\ Done(x) = front
    BY <1>5, <1>8 DEF Done
  <1>10. QED
    BY <1>4, <1>6, <1>9 DEF Built, front

\* ingest puts the event behind the waiting ones and leaves the answered ones.
LEMMA IngestedIsBuilt ==
  ASSUME NEW old, Sane(old), Built(old), NEW e \in Event, e \notin Range(old.seen), NEW x,
         x = Ingested(old, e)
  PROVE  Built(x) /\ Done(x) = Done(old) /\ x.pending = Append(old.pending, e)
  <1> DEFINE d == Done(old)
             p == old.pending
             q == Append(p, e)
             seen == Append(old.seen, e)
  <1>1. /\ old.seen \in Seq(Event) /\ p \in Seq(Event) /\ NoRepeat(old.seen) /\ NoRepeat(p)
        /\ Range(p) \subseteq Range(old.seen)
    BY DEF Sane, Content, Loadable
  <1>2. /\ d \in Seq(Event) /\ NoRepeat(d) /\ Range(d) = Range(old.seen) \ Range(p)
    <2>1. Range(old.seen) \cap (Range(old.seen) \ Range(p)) = Range(old.seen) \ Range(p)
      OBVIOUS
    <2>2. QED
      BY <1>1, <2>1, OnlyProperties DEF Done
  <1>3. old.seen = d \o p /\ Len(d) <= MaxSeen
    BY DEF Built
  <1> HIDE DEF d, p
  <1>4. /\ q \in Seq(Event) /\ Range(q) = Range(p) \cup {e} /\ NoRepeat(q)
    BY <1>1, AppendRange, AppendKeepsNoRepeat
  <1>5. seen = d \o q
    <2>1. d \in Seq(Event) /\ p \in Seq(Event)
      BY <1>1, <1>2
    <2>2. <<e>> \in Seq(Event) /\ d \o p \in Seq(Event)
      BY <2>1, ConcatProperties
    <2>3. Append(d \o p, e) = (d \o p) \o <<e>> /\ Append(p, e) = p \o <<e>>
      BY <2>1, <2>2, AppendIsConcat
    <2>4. (d \o p) \o <<e>> = d \o (p \o <<e>>)
      BY <2>1, <2>2, ConcatAssociative
    <2>5. QED
      BY <1>3, <2>3, <2>4
  <1>6. Range(d) \cap Range(q) = {}
    BY <1>2, <1>4
  <1>7. x = Saved(seen, q)
    BY DEF Ingested, p
  <1> HIDE DEF q, seen
  <1>8. Only(seen, Range(seen) \ Range(q)) = d
    BY <1>2, <1>4, <1>5, <1>6, DoneInFront
  <1>9. Len(d) <= MaxSeen + 1
    BY <1>2, <1>3, LenProperties, ConstantsAssumption
  <1>10. x.pending = q /\ Built(x) /\ Done(x) = d
    <2>1. /\ q \in Seq(Event) /\ NoRepeat(q) /\ d \in Seq(Event) /\ NoRepeat(d)
          /\ Range(d) \cap Range(q) = {} /\ Only(seen, Range(seen) \ Range(q)) = d
          /\ Len(d) <= MaxSeen + 1 /\ Len(d) <= MaxSeen /\ x = Saved(seen, q)
      BY <1>2, <1>3, <1>4, <1>6, <1>7, <1>8, <1>9
    <2>2. QED
      BY <2>1, SavedIsBuilt
  <1>11. QED
    BY <1>10 DEF d, p, q

\* complete takes the event out of the waiting ones, and it becomes the newest of
\* the answered ones, of which the oldest may have to go.
LEMMA CompletedIsBuilt ==
  ASSUME NEW old, Sane(old), Built(old), NEW e \in Range(old.pending), NEW x,
         x = Completed(old, e)
  PROVE  /\ Built(x)
         /\ Done(x) = IF Len(Done(old)) < MaxSeen THEN Append(Done(old), e)
                                                  ELSE Append(Tail(Done(old)), e)
         /\ \E i \in DOMAIN old.pending :
              old.pending[i] = e /\ x.pending = RemoveAt(old.pending, i)
  <1> DEFINE d == Done(old)
             p == old.pending
             T(q) == Range(old.seen) \ Range(q)
             i == CHOOSE j \in DOMAIN p : p[j] = e
  <1>1. /\ old.seen \in Seq(Event) /\ p \in Seq(Event) /\ NoRepeat(old.seen) /\ NoRepeat(p)
        /\ Range(p) \subseteq Range(old.seen)
    BY DEF Sane, Content, Loadable
  <1>2. /\ d \in Seq(Event) /\ NoRepeat(d) /\ Range(d) = Range(old.seen) \ Range(p)
    <2>1. Range(old.seen) \cap (Range(old.seen) \ Range(p)) = Range(old.seen) \ Range(p)
      OBVIOUS
    <2>2. QED
      BY <1>1, <2>1, OnlyProperties DEF Done
  <1>3. old.seen = d \o p /\ Len(d) <= MaxSeen
    BY DEF Built
  <1>4. DOMAIN p = 1..Len(p) /\ Len(p) \in Nat /\ Len(d) \in Nat
    BY <1>1, <1>2, LenProperties
  <1>5. i \in 1..Len(p) /\ p[i] = e
    BY <1>4 DEF Range
  <1>6. Without(p, e) = RemoveAt(p, i)
    BY DEF Without
  <1> DEFINE q == RemoveAt(p, i)
             a == Append(d, e)
  <1>7. x = Saved(old.seen, q)
    BY <1>6 DEF Completed
  <1> HIDE DEF d, p, i
  <1>8. q \in Seq(Event) /\ NoRepeat(q) /\ Range(q) = Range(p) \ {e}
    BY <1>1, <1>5, RemoveAtProperties, RemoveAtOnce
  <1>9. e \in Event /\ e \notin Range(d)
    <2>1. e \in Range(p)
      BY DEF p
    <2>2. \A j \in 1..Len(p) : p[j] \in Event
      BY <1>1, ElementOfSeq
    <2>3. QED
      BY <1>2, <1>5, <2>1, <2>2
  <1>10. /\ a \in Seq(Event) /\ NoRepeat(a) /\ Range(a) = Range(d) \cup {e} /\ Len(a) = Len(d) + 1
    BY <1>2, <1>9, AppendRange, AppendKeepsNoRepeat, AppendProperties
  <1> HIDE DEF q
  <1>11. Only(old.seen, T(q)) = a
    <2>1. Range(d) \subseteq T(q)
      BY <1>2, <1>8
    <2>2. \A j \in 1..Len(p) : p[j] \in T(q) <=> j = i
      <3>1. \A j \in 1..Len(p) : p[j] \in Range(p) /\ p[j] \in Range(old.seen)
        BY <1>1, <1>4 DEF Range
      <3>2. \A j \in 1..Len(p) : p[j] = e <=> j = i
        BY <1>1, <1>4, <1>5 DEF NoRepeat
      <3>3. QED
        BY <1>8, <3>1, <3>2
    <2> DEFINE U == T(q)
    <2> HIDE DEF U, T
    <2>3. Only(d \o p, U) = Append(d, p[i])
      BY <1>1, <1>2, <1>5, <2>1, <2>2, OnlyTheFrontAndOne DEF U
    <2>4. QED
      BY <1>3, <1>5, <2>3 DEF U
  <1>12. Range(a) \cap Range(q) = {}
    BY <1>2, <1>8, <1>10
  <1>13. Len(a) <= MaxSeen + 1
    BY <1>3, <1>4, <1>10, ConstantsAssumption
  <1> DEFINE left == IF Len(a) <= MaxSeen THEN a ELSE SubSeq(a, 2, Len(a))
  <1> DEFINE seen == old.seen
  <1>14. x.pending = q /\ Built(x) /\ Done(x) = left
    <2> HIDE DEF seen, a
    <2>1. /\ q \in Seq(Event) /\ NoRepeat(q) /\ a \in Seq(Event) /\ NoRepeat(a)
          /\ Range(a) \cap Range(q) = {} /\ Only(seen, Range(seen) \ Range(q)) = a
          /\ Len(a) <= MaxSeen + 1 /\ x = Saved(seen, q)
      BY <1>7, <1>8, <1>10, <1>11, <1>12, <1>13 DEF seen
    <2>2. QED
      BY <2>1, SavedIsBuilt
  <1>15. left = IF Len(d) < MaxSeen THEN Append(d, e) ELSE Append(Tail(d), e)
    <2>1. CASE Len(d) < MaxSeen
      <3>1. Len(a) <= MaxSeen
        BY <1>4, <1>10, <2>1, ConstantsAssumption
      <3>2. QED
        BY <2>1, <3>1
    <2>2. CASE ~(Len(d) < MaxSeen)
      <3>1. ~(Len(a) <= MaxSeen) /\ Len(d) # 0
        BY <1>4, <1>10, <2>2, ConstantsAssumption
      <3>2. d # <<>>
        BY <3>1, EmptySeq
      <3>3. Tail(a) = Append(Tail(d), e)
        BY <1>2, <3>2, HeadTailAppend
      <3>4. SubSeq(a, 2, Len(a)) = Tail(a)
        BY <1>9, <1>10, TailIsSubSeq, AppendProperties
      <3>5. QED
        BY <2>2, <3>1, <3>3, <3>4
    <2>3. QED
      BY <2>1, <2>2
  <1>16. QED
    BY <1>4, <1>5, <1>14, <1>15 DEF d, p, q

\* Completing what does not wait leaves everything as it is.
LEMMA CompletedTwice ==
  ASSUME NEW old, Sane(old), Built(old), NEW e, e \notin Range(old.pending)
  PROVE  Completed(old, e) = old
  <1> DEFINE d == Done(old)
             p == old.pending
             x == Saved(old.seen, p)
  <1>1. /\ old = [seen |-> old.seen, pending |-> p]
        /\ old.seen \in Seq(Event) /\ p \in Seq(Event) /\ NoRepeat(old.seen) /\ NoRepeat(p)
        /\ Range(p) \subseteq Range(old.seen)
    BY DEF Sane, Content, Loadable
  <1>2. /\ d \in Seq(Event) /\ NoRepeat(d) /\ Range(d) = Range(old.seen) \ Range(p)
    <2>1. Range(old.seen) \cap (Range(old.seen) \ Range(p)) = Range(old.seen) \ Range(p)
      OBVIOUS
    <2>2. QED
      BY <1>1, <2>1, OnlyProperties DEF Done
  <1>3. old.seen = d \o p /\ Len(d) <= MaxSeen
    BY DEF Built
  <1>4. Only(old.seen, Range(old.seen) \ Range(p)) = d
    BY DEF Done
  <1>5. Completed(old, e) = x
    BY DEF Completed, Without
  <1>6. Len(d) <= MaxSeen + 1 /\ Range(d) \cap Range(p) = {}
    BY <1>2, <1>3, LenProperties, ConstantsAssumption
  <1>7. x = [seen |-> x.seen, pending |-> x.pending]
    BY DEF Saved
  <1> DEFINE seen == old.seen
  <1>8. /\ p \in Seq(Event) /\ NoRepeat(p) /\ d \in Seq(Event) /\ NoRepeat(d)
        /\ Range(d) \cap Range(p) = {} /\ Only(seen, Range(seen) \ Range(p)) = d
        /\ Len(d) <= MaxSeen + 1 /\ Len(d) <= MaxSeen /\ x = Saved(seen, p)
    BY <1>1, <1>2, <1>3, <1>4, <1>6
  <1> HIDE DEF d, p, x, seen
  <1>9. x.pending = p /\ Built(x) /\ Done(x) = d
    BY <1>8, SavedIsBuilt
  <1>10. x.pending = p /\ x.seen = d \o p
    BY <1>9 DEF Built
  <1>11. QED
    BY <1>1, <1>3, <1>5, <1>7, <1>10

\* A missing file has neither answered nor waiting identities.
LEMMA EmptyIsBuilt == Built(Empty)
  <1>1. <<>> \in Seq(Event) /\ Range(<<>>) = {} /\ Len(<<>>) = 0 /\ NoRepeat(<<>>)
    BY EmptySeq DEF Range, NoRepeat
  <1>2. <<>> \o <<>> = <<>>
    BY <1>1, ConcatEmptySeq
  <1>3. Only(<<>> \o <<>>, Range(<<>> \o <<>>) \ Range(<<>>)) = <<>>
    BY <1>1, DoneInFront
  <1>4. Empty.seen = <<>> /\ Empty.pending = <<>>
    BY DEF Empty
  <1>5. Done(Empty) = <<>>
    BY <1>2, <1>3, <1>4 DEF Done
  <1>6. QED
    BY <1>1, <1>2, <1>4, <1>5, ConstantsAssumption DEF Built

\* What a call puts in place is built as _save builds it.
LEMMA PlannedIsBuilt ==
  ASSUME IInv, ContentInv, Places, PlanInv, NEW c \in Caller, call[c].at \in Saving
  PROVE  Built(call[c].new)
  <1>1. Sane(visible) /\ Built(visible)
    BY ConstantsAssumption DEF IInv, HoldsLock, LeftAlone, ContentInv, PlanInv, Saving, Inside
  <1>2. call[c].event \in Event /\ Planned(c)
    BY DEF ContentInv, PlanInv, Saving
  <1>3. CASE call[c].op = "ingest"
    BY <1>1, <1>2, <1>3, IngestedIsBuilt DEF Planned
  <1>4. CASE call[c].op = "complete"
    <2>1. call[c].new = Completed(visible, call[c].event)
      BY <1>2, <1>4 DEF Planned
    <2>2. QED
      BY <1>1, <2>1, CompletedIsBuilt, CompletedTwice
  <1>5. call[c].op \in {"ingest", "complete"}
    BY DEF Places, Saving
  <1>6. QED
    BY <1>3, <1>4, <1>5

\* Each step of a call preserves the plans.
LEMMA CallKeepsPlans ==
  ASSUME IInv, ContentInv, Places, PlanInv, NEW c \in Caller, Step(c) PROVE PlanInv'
  <1> USE ConstantsAssumption
      DEF IInv, Calls, HoldsLock, LeftAlone, PlanInv, Planned, Inside, Saving, file, rest
  <1>1. ASSUME NEW e \in Event, NEW op \in {"ingest", "complete"}, Start(c, op, e) PROVE PlanInv'
    BY <1>1 DEF Start
  <1>2. CASE Acquire(c)
    BY <1>2 DEF Acquire, OpenDir, GoToWith
  <1>3. CASE LoadRefuses(c) \/ LockDownFails(c) \/ IngestSeen(c) \/ IngestFull(c) \/ SaveFails(c)
    BY <1>3 DEF LoadRefuses, LockDownFails, IngestSeen, IngestFull, SaveFails, EndCall, Idle
  <1>4. CASE IngestNew(c)
    <2>1. /\ call' = [call EXCEPT ![c] = [op |-> call[c].op, event |-> call[c].event, at |-> "write",
                                          new |-> Ingested(visible, call[c].event)]]
          /\ call[c].at = "locked" /\ call[c].op = "ingest"
          /\ call[c].event \notin Range(visible.seen) /\ Len(visible.pending) < MaxPending
          /\ UNCHANGED <<file, lock, age, promised, rest>>
      BY <1>4 DEF IngestNew, GoToWith, Ingested
    <2>2. QED
      BY <2>1
  <1>5. CASE CompleteRemoves(c)
    <2>1. /\ call' = [call EXCEPT ![c] = [op |-> call[c].op, event |-> call[c].event, at |-> "write",
                                          new |-> Completed(visible, call[c].event)]]
          /\ call[c].at = "locked" /\ call[c].op = "complete"
          /\ UNCHANGED <<file, lock, age, promised, rest>>
      BY <1>5 DEF CompleteRemoves, GoToWith, Completed
    <2>2. QED
      BY <2>1
  <1>6. CASE Write(c)
    BY <1>6, SMTT(30) DEF Write, GoTo
  <1>7. CASE Sync(c)
    BY <1>7, SMTT(30) DEF Sync, GoTo
  <1>8. CASE Replace(c)
    <2>1. Built(call[c].new)
      BY <1>8, PlannedIsBuilt DEF Replace
    <2>2. QED
      BY <1>8, <2>1, SMTT(30) DEF Replace, PutInPlace, GoTo
  <1>9. CASE SyncDir(c)
    BY <1>9 DEF SyncDir, ReturnSaved, EndCall, Idle
  <1>10. CASE SyncDirFails(c)
    BY <1>10 DEF SyncDirFails, Mishap, EndCall, Idle
  <1>11. CASE FlushFails(c)
    BY <1>11, EmptyIsBuilt DEF FlushFails, Mishap, EndCall, Idle
  <1>12. CASE CheckFails(c)
    BY <1>12 DEF CheckFails, EndCall, Idle
  <1>13. CASE MakeDir(c)
    BY <1>13, SMTT(30) DEF MakeDir, GoTo
  <1>14. CASE LockDown(c)
    BY <1>14, EmptyIsContent DEF LockDown, GoToWith
  <1>15. QED
    BY <1>1, <1>2, <1>3, <1>4, <1>5, <1>6, <1>7, <1>8, <1>9, <1>10, <1>11, <1>12, <1>13, <1>14
    DEF Step

\* What a call puts in place is always computed from what is in place.
THEOREM PlanInvariant == Spec => [](Places /\ PlanInv)
  <1>1. Init => Places /\ PlanInv
    BY EmptyIsBuilt, ConstantsAssumption DEF Init, Places, Stage, Idle, PlanInv, Planned, Inside, Saving
  <1>2. IInv /\ ContentInv /\ Places /\ PlanInv /\ [Next]_vars => (Places /\ PlanInv)'
    <2> SUFFICES ASSUME IInv, ContentInv, Places, PlanInv, [Next]_vars PROVE PlanInv'
      BY StepKeepsPlaces
    <2> USE DEF IInv, LeftAlone, PlanInv, Planned, Inside, Saving, file, rest
    <2>1. ASSUME NEW c \in Caller, Step(c) PROVE PlanInv'
      BY <2>1, CallKeepsPlans
    <2>2. CASE Flush
      BY <2>2 DEF Flush
    <2>3. CASE ProcessCrash
      BY <2>3 DEF ProcessCrash, Mishap, Idle
    <2>4. CASE PowerLoss
      BY <2>4 DEF PowerLoss, Mishap, Idle
    <2>5. CASE Damage
      BY <2>5, ConstantsAssumption DEF Damage, Mishap, HoldsLock
    <2>6. CASE UNCHANGED vars
      BY <2>6 DEF vars
    <2>7. QED
      BY <2>1, <2>2, <2>3, <2>4, <2>5, <2>6 DEF Next
  <1>3. QED
    BY <1>1, <1>2, LockInvariant, ContentInvariant, PTL DEF Spec
-----------------------------------------------------------------------------

\* An event is answered or waits exactly when the file has seen it.
LEMMA SeenInAbstract ==
  ASSUME Sane(visible), Built(visible)
  PROVE  Queue!Seen = Range(visible.seen)
  <1>1. visible.seen \in Seq(Event) /\ Range(visible.pending) \subseteq Range(visible.seen)
    BY DEF Sane, Content, Loadable
  <1>2. Range(Done(visible)) = Range(visible.seen) \cap (Range(visible.seen) \ Range(visible.pending))
    BY <1>1, OnlyProperties DEF Done
  <1>3. Queue!Seen = Range(Done(visible)) \cup Range(visible.pending)
    BY DEF Queue!Seen, Queue!Remembered, Queue!Waiting, Queue!Range, Range, Done
  <1>4. QED
    BY <1>1, <1>2, <1>3

\* The replacement of the file by an ingest is the acceptance of the event.
LEMMA IngestIsAccept ==
  ASSUME IInv, ContentInv, PlanInv, NEW c \in Caller, Replace(c), call[c].op = "ingest"
  PROVE  Queue!Accept(call[c].event)
  <1> DEFINE e == call[c].event
  <1>1. call[c].at = "synced"
    BY DEF Replace
  <1>2. Sane(visible) /\ Built(visible) /\ e \in Event
    BY <1>1, ConstantsAssumption DEF IInv, HoldsLock, LeftAlone, ContentInv, PlanInv, Inside
  <1>3. e \notin Range(visible.seen) /\ Len(visible.pending) < MaxPending
        /\ call[c].new = Ingested(visible, e)
    BY <1>1 DEF PlanInv, Planned, Saving
  <1>4. visible' = Ingested(visible, e) /\ UNCHANGED age
    BY <1>3 DEF Replace, PutInPlace
  <1>5. Done(visible') = Done(visible) /\ visible'.pending = Append(visible.pending, e)
    BY <1>2, <1>3, <1>4, IngestedIsBuilt
  <1>6. e \notin Queue!Seen
    BY <1>2, <1>3, SeenInAbstract
  <1>7. QED
    BY <1>3, <1>4, <1>5, <1>6 DEF Queue!Accept, Done

\* The replacement of the file by a complete is the completion of the event, if it
\* waited, and changes nothing if it did not.
LEMMA CompleteIsComplete ==
  ASSUME IInv, ContentInv, PlanInv, NEW c \in Caller, Replace(c), call[c].op = "complete"
  PROVE  Queue!Complete(call[c].event) \/ UNCHANGED Queue!vars
  <1> DEFINE e == call[c].event
  <1>1. call[c].at = "synced"
    BY DEF Replace
  <1>2. Sane(visible) /\ Built(visible) /\ e \in Event
    BY <1>1, ConstantsAssumption DEF IInv, HoldsLock, LeftAlone, ContentInv, PlanInv, Inside
  <1>3. call[c].new = Completed(visible, e)
    BY <1>1 DEF PlanInv, Planned, Saving
  <1>4. visible' = Completed(visible, e)
    BY <1>3 DEF Replace, PutInPlace
  <1>5. CASE e \in Range(visible.pending)
    <2>1. age' = Older(e)
      BY <1>5 DEF Replace, PutInPlace
    <2>2. /\ Done(visible') = IF Len(Done(visible)) < MaxSeen THEN Append(Done(visible), e)
                                                              ELSE Append(Tail(Done(visible)), e)
          /\ \E i \in DOMAIN visible.pending :
               visible.pending[i] = e /\ visible'.pending = RemoveAt(visible.pending, i)
      <3> DEFINE old == visible
                 x == visible'
      <3>1. Sane(old) /\ Built(old) /\ e \in Range(old.pending) /\ x = Completed(old, e)
        BY <1>2, <1>4, <1>5
      <3> HIDE DEF old, x, e
      <3>2. /\ Done(x) = IF Len(Done(old)) < MaxSeen THEN Append(Done(old), e)
                                                     ELSE Append(Tail(Done(old)), e)
            /\ \E i \in DOMAIN old.pending :
                 old.pending[i] = e /\ x.pending = RemoveAt(old.pending, i)
        BY <3>1, CompletedIsBuilt
      <3>3. QED
        BY <3>2 DEF old, x
    <2>3. \A s, i : Queue!RemoveAt(s, i) = RemoveAt(s, i)
      BY DEF Queue!RemoveAt, RemoveAt
    <2>4. Done(visible') = Queue!RememberOneMore(e) /\ age' = Queue!Older(e)
      BY <2>1, <2>2 DEF Queue!RememberOneMore, Queue!Older, Older, Done
    <2>5. QED
      BY <2>2, <2>3, <2>4 DEF Queue!Complete, Done
  <1>6. CASE e \notin Range(visible.pending)
    <2>1. visible' = visible
      BY <1>2, <1>4, <1>6, CompletedTwice
    <2>2. UNCHANGED age
      BY <1>6 DEF Replace, PutInPlace
    <2>3. QED
      BY <2>1, <2>2 DEF Queue!vars
  <1>7. QED
    BY <1>5, <1>6

\* The steps of a call between its acquisition and its end, the replacement and a
\* failing flush apart, leave what can be read as it is.
LEMMA OtherStepsStutter ==
  ASSUME NEW c \in Caller, Step(c), ~Replace(c), ~FlushFails(c)
  PROVE  UNCHANGED Queue!vars
  <1>1. visible' = visible /\ age' = age
    BY DEF Step, Start, Acquire, LoadRefuses, MakeDir, LockDown, LockDownFails, IngestSeen, IngestFull,
       IngestNew, CompleteRemoves, Write, Sync, SaveFails, SyncDir, SyncDirFails, CheckFails, file
  <1>2. QED
    BY <1>1 DEF Queue!vars

\* What the threads do to the file, whichever call fails at whichever step and
\* whenever the process crashes, is what AssignmentQueue allows: the file refines
\* the queue, for any number of threads and events and any bounds.
THEOREM Implementation == Spec => ImplementsAssignmentQueue
  <1> DEFINE Permitted ==
        \/ "damage" \in mishaps'
        \/ [Queue!Next]_(Queue!vars)
        \/ "powerLoss" \in mishaps' \ mishaps
        \/ "cutShort" \in mishaps' \ mishaps /\ platform = "nt"
  <1>1. Init => Queue!Init
    <2>1. Range(<<>>) = {} /\ <<>> \in Seq(Event)
      BY EmptySeq DEF Range
    <2>2. Len(Only(<<>>, {})) <= Len(<<>>) /\ Len(Only(<<>>, {})) \in Nat /\ Only(<<>>, {}) \in Seq(Event)
      BY <2>1, OnlyProperties
    <2>3. Only(<<>>, {}) = <<>>
      BY <2>2, EmptySeq
    <2>4. Empty.seen = <<>> /\ Empty.pending = <<>> /\ Range(<<>>) \ Range(<<>>) = {}
      BY <2>1 DEF Empty
    <2>5. QED
      BY <2>3, <2>4 DEF Init, Queue!Init
  <1>2. ASSUME IInv, ContentInv, Places, PlanInv, [Next]_vars PROVE Permitted
    <2>1. ASSUME NEW c \in Caller, Step(c) PROVE Permitted
      <3>1. CASE Replace(c)
        <4>1. call[c].op \in {"ingest", "complete"} /\ call[c].event \in Event
          BY <1>2, <3>1 DEF Replace, Places, ContentInv
        <4>2. Queue!Accept(call[c].event) \/ Queue!Complete(call[c].event) \/ UNCHANGED Queue!vars
          BY <1>2, <3>1, <4>1, IngestIsAccept, CompleteIsComplete
        <4>3. QED
          BY <4>1, <4>2 DEF Queue!Next
      <3>2. CASE FlushFails(c)
        BY <3>2 DEF FlushFails, Mishap
      <3>3. CASE ~Replace(c) /\ ~FlushFails(c)
        BY <2>1, <3>3, OtherStepsStutter
      <3>4. QED
        BY <3>1, <3>2, <3>3
    <2>2. CASE Flush \/ ProcessCrash
      BY <2>2 DEF Flush, ProcessCrash, file, Queue!vars
    <2>3. CASE PowerLoss
      BY <2>3 DEF PowerLoss, Mishap
    <2>4. CASE Damage
      BY <2>4 DEF Damage, Mishap
    <2>5. CASE UNCHANGED vars
      BY <2>5 DEF vars, file, Queue!vars
    <2>6. QED
      BY <1>2, <2>1, <2>2, <2>3, <2>4, <2>5 DEF Next
  <1>3. IInv /\ ContentInv /\ Places /\ PlanInv /\ [Next]_vars => [Permitted]_vars
    BY <1>2
  <1>4. QED
    BY <1>1, <1>3, LockInvariant, ContentInvariant, PlanInvariant, PTL DEF Spec, ImplementsAssignmentQueue
=============================================================================

----------------------- MODULE AssignmentQueueProofs -----------------------
(***************************************************************************)
(* Theorems about AssignmentQueue for every set of events and every pair   *)
(* of bounds.  The invariants that TLC checks are not inductive: that an   *)
(* answered event is remembered exactly for MaxSeen further answers needs  *)
(* to know where in the list it stands, which is what Positions says.      *)
(***************************************************************************)
EXTENDS AssignmentQueue, SequenceLemmas, TLAPS

\* The remembered identities stand in the order of their age: the newest is
\* last with age 0.  Every other event is as old as the window is long.
Positions ==
  /\ \A i \in 1..Len(completed) : age[completed[i]] = Len(completed) - i
  /\ \A e \in Event : e \notin Remembered => age[e] = MaxSeen

IInv == TypeOK /\ EachEventOnce /\ Positions

-----------------------------------------------------------------------------

\* What completing e makes of the remembered identities: e is last, and the
\* others move up by d places, where d is 1 when the list was full.
LEMMA RememberOneMoreProperties ==
  ASSUME TypeOK, NEW e \in Event
  PROVE  LET c == RememberOneMore(e)
             d == IF Len(completed) < MaxSeen THEN 0 ELSE 1
         IN  /\ c \in Seq(Event)
             /\ Len(c) = Len(completed) + 1 - d
             /\ Len(c) <= MaxSeen
             /\ c[Len(c)] = e
             /\ \A i \in 1..(Len(c) - 1) : c[i] = completed[i + d]
<1>1. /\ completed \in Seq(Event)
      /\ Len(completed) \in Nat
      /\ Len(completed) <= MaxSeen
      /\ MaxSeen \in Nat \ {0}
  BY BoundsAssumption, LenProperties DEF TypeOK
<1>2. CASE Len(completed) < MaxSeen
  <2>1. RememberOneMore(e) = Append(completed, e)
    BY <1>2 DEF RememberOneMore
  <2>2. /\ Append(completed, e) \in Seq(Event)
        /\ Len(Append(completed, e)) = Len(completed) + 1
        /\ \A i \in 1..Len(completed) : Append(completed, e)[i] = completed[i]
        /\ Append(completed, e)[Len(completed) + 1] = e
    BY <1>1, AppendProperties
  <2> QED
    BY <1>1, <1>2, <2>1, <2>2
<1>3. CASE ~(Len(completed) < MaxSeen)
  <2>1. RememberOneMore(e) = Append(Tail(completed), e)
    BY <1>3 DEF RememberOneMore
  <2>2. completed # <<>>
    BY <1>1, <1>3, EmptySeq
  <2>3. /\ Tail(completed) \in Seq(Event)
        /\ Len(Tail(completed)) = Len(completed) - 1
        /\ \A i \in 1..(Len(completed) - 1) : Tail(completed)[i] = completed[i + 1]
    BY <1>1, <2>2, HeadTailProperties
  <2>4. /\ Append(Tail(completed), e) \in Seq(Event)
        /\ Len(Append(Tail(completed), e)) = Len(completed)
        /\ \A i \in 1..(Len(completed) - 1) :
             Append(Tail(completed), e)[i] = Tail(completed)[i]
        /\ Append(Tail(completed), e)[Len(completed)] = e
    BY <1>1, <2>3, AppendProperties
  <2> QED
    BY <1>1, <1>3, <2>1, <2>3, <2>4
<1> QED
  BY <1>2, <1>3

\* The lists as functions on their index intervals.
LEMMA ListFacts ==
  ASSUME TypeOK
  PROVE  /\ Len(pending) \in Nat
         /\ Len(completed) \in Nat
         /\ DOMAIN pending = 1..Len(pending)
         /\ DOMAIN completed = 1..Len(completed)
         /\ \A i \in 1..Len(pending) : pending[i] \in Event
         /\ \A i \in 1..Len(completed) : completed[i] \in Event
         /\ MaxSeen \in Nat \ {0}
         /\ MaxPending \in Nat \ {0}
BY BoundsAssumption, LenProperties, ElementOfSeq DEF TypeOK

\* The inductive invariant holds of the empty queue.
LEMMA InitEstablishesIInv == Init => IInv
<1> SUFFICES ASSUME Init PROVE IInv
  OBVIOUS
<1>1. /\ <<>> \in Seq(Event)
      /\ Len(<<>>) = 0
  BY EmptySeq
<1>2. TypeOK
  BY <1>1, BoundsAssumption DEF Init, TypeOK
<1>3. DOMAIN pending = {} /\ DOMAIN completed = {}
  BY <1>1, <1>2, ListFacts DEF Init
<1>4. Waiting = {} /\ Remembered = {}
  BY <1>3 DEF Waiting, Remembered, Range
<1>5. EachEventOnce
  BY <1>3, <1>4 DEF EachEventOnce
<1>6. Positions
  BY <1>1, <1>4 DEF Positions, Init
<1> QED
  BY <1>2, <1>5, <1>6 DEF IInv

\* ingest of a new event keeps the inductive invariant.
LEMMA AcceptPreservesIInv ==
  ASSUME IInv, NEW e \in Event, Accept(e)
  PROVE  IInv'
<1>1. /\ e \notin Waiting /\ e \notin Remembered
      /\ Len(pending) < MaxPending
      /\ pending' = Append(pending, e)
      /\ completed' = completed /\ age' = age
  BY DEF Accept, Seen
<1>2. TypeOK /\ EachEventOnce /\ Positions
  BY DEF IInv
<1>3. /\ Append(pending, e) \in Seq(Event)
      /\ Len(Append(pending, e)) = Len(pending) + 1
      /\ \A i \in 1..Len(pending) : Append(pending, e)[i] = pending[i]
      /\ Append(pending, e)[Len(pending) + 1] = e
  BY <1>2, AppendProperties DEF TypeOK
<1>4. TypeOK'
  BY <1>1, <1>2, <1>3, ListFacts DEF TypeOK
<1>5. /\ DOMAIN pending' = 1..(Len(pending) + 1)
      /\ DOMAIN pending = 1..Len(pending)
      /\ Len(pending) \in Nat
  BY <1>1, <1>2, <1>3, <1>4, ListFacts, LenProperties
<1>6. \A i \in 1..Len(pending) : pending'[i] = pending[i] /\ pending[i] # e
  BY <1>1, <1>3, <1>5 DEF Waiting, Range
<1>7. Waiting' \subseteq Waiting \cup {e} /\ Remembered' = Remembered
  BY <1>1, <1>3, <1>5, <1>6 DEF Waiting, Remembered, Range
<1>8. EachEventOnce'
  <2>1. ASSUME NEW i \in DOMAIN pending', NEW j \in DOMAIN pending',
               pending'[i] = pending'[j]
        PROVE  i = j
    <3>1. CASE i = Len(pending) + 1
      BY <2>1, <3>1, <1>1, <1>3, <1>5, <1>6
    <3>2. CASE j = Len(pending) + 1
      BY <2>1, <3>2, <1>1, <1>3, <1>5, <1>6
    <3>3. CASE i \in 1..Len(pending) /\ j \in 1..Len(pending)
      BY <2>1, <3>3, <1>2, <1>5, <1>6 DEF EachEventOnce
    <3> QED
      BY <3>1, <3>2, <3>3, <1>5
  <2>2. \A i, j \in DOMAIN completed' : completed'[i] = completed'[j] => i = j
    BY <1>1, <1>2 DEF EachEventOnce
  <2>3. Waiting' \cap Remembered' = {}
    BY <1>1, <1>2, <1>7 DEF EachEventOnce
  <2> QED
    BY <2>1, <2>2, <2>3 DEF EachEventOnce
<1>9. Positions'
  BY <1>1, <1>2, <1>7 DEF Positions
<1> QED
  BY <1>4, <1>8, <1>9 DEF IInv

\* complete keeps it, whether or not the list of answered events is full.
LEMMA CompletePreservesIInv ==
  ASSUME IInv, NEW e \in Event, Complete(e)
  PROVE  IInv'
<1>1. PICK k \in DOMAIN pending :
        /\ pending[k] = e
        /\ pending' = RemoveAt(pending, k)
        /\ completed' = RememberOneMore(e)
        /\ age' = Older(e)
  BY DEF Complete
<1>2. TypeOK /\ EachEventOnce /\ Positions
  BY DEF IInv
<1>3. /\ Len(pending) \in Nat /\ Len(completed) \in Nat
      /\ DOMAIN pending = 1..Len(pending)
      /\ DOMAIN completed = 1..Len(completed)
      /\ \A i \in 1..Len(completed) : completed[i] \in Event
      /\ MaxSeen \in Nat \ {0} /\ MaxPending \in Nat \ {0}
  BY <1>2, ListFacts
<1>4. /\ pending' \in Seq(Event)
      /\ Len(pending') = Len(pending) - 1
      /\ \A i \in 1..(Len(pending) - 1) :
           pending'[i] = IF i < k THEN pending[i] ELSE pending[i + 1]
  BY <1>1, <1>2, <1>3, RemoveAtProperties, ZenonT(30) DEF TypeOK
<1> DEFINE d == IF Len(completed) < MaxSeen THEN 0 ELSE 1
<1>5. /\ completed' \in Seq(Event)
      /\ Len(completed') = Len(completed) + 1 - d
      /\ Len(completed') <= MaxSeen
      /\ completed'[Len(completed')] = e
      /\ \A i \in 1..(Len(completed') - 1) : completed'[i] = completed[i + d]
  BY <1>1, <1>2, RememberOneMoreProperties
<1>6. /\ age \in [Event -> 0..MaxSeen]
      /\ age' = [f \in Event |-> IF f = e THEN 0
                   ELSE IF age[f] < MaxSeen THEN age[f] + 1 ELSE MaxSeen]
  BY <1>1, <1>2 DEF Older, TypeOK
<1>7. TypeOK'
  <2>1. age' \in [Event -> 0..MaxSeen]
    BY <1>3, <1>6
  <2>2. Len(pending) <= MaxPending
    BY <1>2 DEF TypeOK
  <2>3. Len(pending') <= MaxPending
    BY <2>2, <1>3, <1>4
  <2> HIDE DEF d
  <2> QED
    BY <1>4, <1>5, <2>1, <2>3 DEF TypeOK
<1>8. /\ DOMAIN pending' = 1..(Len(pending) - 1)
      /\ DOMAIN completed' = 1..Len(completed')
      /\ Len(completed') \in Nat
  BY <1>4, <1>5, LenProperties
<1>9. e \in Waiting /\ e \notin Remembered
  BY <1>1, <1>2 DEF EachEventOnce, Waiting, Range
<1>10. \A i \in 1..Len(completed) : completed[i] # e
  BY <1>3, <1>9 DEF Remembered, Range
<1>11. Remembered' \subseteq Remembered \cup {e}
  <2>1. ASSUME NEW i \in 1..Len(completed'), i # Len(completed')
        PROVE  completed'[i] \in Remembered
    <3>1. i + d \in 1..Len(completed)
      BY <2>1, <1>3, <1>5, <1>8
    <3>2. completed'[i] = completed[i + d]
      BY <2>1, <1>5, <1>8
    <3> QED
      BY <3>1, <3>2, <1>3 DEF Remembered, Range
  <2> HIDE DEF d
  <2> QED
    BY <2>1, <1>5, <1>8 DEF Remembered, Range
<1>12. Waiting' \subseteq Waiting \ {e}
  <2>1. ASSUME NEW i \in 1..(Len(pending) - 1)
        PROVE  pending'[i] \in Waiting /\ pending'[i] # e
    <3>1. CASE i < k
      BY <3>1, <1>1, <1>2, <1>3, <1>4 DEF EachEventOnce, Waiting, Range
    <3>2. CASE ~(i < k)
      BY <3>2, <1>1, <1>2, <1>3, <1>4 DEF EachEventOnce, Waiting, Range
    <3> QED
      BY <3>1, <3>2
  <2> QED
    BY <2>1, <1>8 DEF Waiting, Range
<1> HIDE DEF d
<1>13. EachEventOnce'
  <2>1. ASSUME NEW i \in DOMAIN pending', NEW j \in DOMAIN pending',
               pending'[i] = pending'[j]
        PROVE  i = j
    <3> DEFINE up(n) == IF n < k THEN n ELSE n + 1
    <3>1. up(i) \in DOMAIN pending /\ up(j) \in DOMAIN pending
      BY <1>1, <1>3, <1>8
    <3>2. pending[up(i)] = pending[up(j)]
      BY <2>1, <1>4, <1>8
    <3>3. up(i) = up(j)
      BY <3>1, <3>2, <1>2 DEF EachEventOnce
    <3> QED
      BY <3>3, <1>1, <1>3, <1>8
  <2>2. ASSUME NEW i \in DOMAIN completed', NEW j \in DOMAIN completed',
               completed'[i] = completed'[j]
        PROVE  i = j
    <3>1. d \in {0, 1}
      BY DEF d
    <3>2. \A n \in 1..(Len(completed') - 1) :
            /\ n + d \in 1..Len(completed)
            /\ completed'[n] = completed[n + d]
            /\ completed'[n] # e
      BY <3>1, <1>3, <1>5, <1>8, <1>10
    <3>3. CASE i = Len(completed') \/ j = Len(completed')
      BY <2>2, <3>2, <3>3, <1>5, <1>8
    <3>4. CASE i # Len(completed') /\ j # Len(completed')
      <4>1. i + d = j + d
        BY <2>2, <3>2, <3>4, <1>2, <1>3, <1>8 DEF EachEventOnce
      <4> QED
        BY <4>1, <3>1, <1>8
    <3> QED
      BY <3>3, <3>4
  <2>3. Waiting' \cap Remembered' = {}
    BY <1>2, <1>11, <1>12 DEF EachEventOnce
  <2> QED
    BY <2>1, <2>2, <2>3 DEF EachEventOnce
<1>14. \A i \in 1..Len(completed') : age'[completed'[i]] = Len(completed') - i
  <2> SUFFICES ASSUME NEW i \in 1..Len(completed')
               PROVE  age'[completed'[i]] = Len(completed') - i
    OBVIOUS
  <2>1. CASE i = Len(completed')
    BY <2>1, <1>5, <1>6, <1>8
  <2>2. CASE i # Len(completed')
    <3>1. d \in {0, 1}
      BY DEF d
    <3>2. i + d \in 1..Len(completed) /\ completed'[i] = completed[i + d]
      BY <2>2, <3>1, <1>3, <1>5, <1>8, SMTT(30)
    <3>3. age[completed[i + d]] = Len(completed) - (i + d)
      BY <3>2, <1>2 DEF Positions
    <3>4. completed[i + d] \in Event /\ completed[i + d] # e
      BY <3>2, <1>3, <1>10
    <3>5. Len(completed) - (i + d) < MaxSeen
      BY <3>1, <1>2, <1>3, <1>8 DEF TypeOK
    <3>6. age'[completed'[i]] = age[completed[i + d]] + 1
      BY <3>2, <3>3, <3>4, <3>5, <1>6
    <3> QED
      BY <3>1, <3>3, <3>6, <1>3, <1>5, <1>8
  <2> QED
    BY <2>1, <2>2
<1>15. \A f \in Event : f \notin Remembered' => age'[f] = MaxSeen
  <2> SUFFICES ASSUME NEW f \in Event, f \notin Remembered'
               PROVE  age'[f] = MaxSeen
    OBVIOUS
  <2>1. f # e
    <3>1. Len(completed') >= 1
      BY <1>3, <1>5, <1>8, <1>2 DEF d, TypeOK
    <3> QED
      BY <3>1, <1>5, <1>8 DEF Remembered, Range
  <2>2. CASE f \notin Remembered
    BY <2>1, <2>2, <1>2, <1>3, <1>6 DEF Positions
  <2>3. CASE f \in Remembered
    <3>1. PICK n \in 1..Len(completed) : completed[n] = f
      BY <2>3, <1>3 DEF Remembered, Range
    <3>2. \A i \in 1..(Len(completed') - 1) : completed[i + d] # f
      BY <1>5, <1>8 DEF Remembered, Range
    <3>3. d = 1 /\ n = 1
      <4>1. ~(n - d \in 1..(Len(completed') - 1))
        <5>1. d \in {0, 1}
          BY DEF d
        <5> QED
          BY <5>1, <3>1, <3>2, <1>3, <1>8
      <4>2. n - d <= Len(completed') - 1
        BY <1>3, <1>5, <1>8 DEF d
      <4> QED
        BY <4>1, <4>2, <1>3, <1>8 DEF d
    <3>4. age[f] = Len(completed) - 1
      BY <3>1, <3>3, <1>2 DEF Positions
    <3>5. Len(completed) = MaxSeen
      <4>1. Len(completed) <= MaxSeen
        BY <1>2 DEF TypeOK
      <4>2. ~(Len(completed) < MaxSeen)
        <5>1. CASE Len(completed) < MaxSeen
          <6>1. d = 0
            BY <5>1 DEF d
          <6> QED
            BY <6>1, <3>3
        <5> QED
          BY <5>1
      <4>3. Len(completed) \in Nat /\ MaxSeen \in Nat
        BY <1>3
      <4> QED
        BY <4>1, <4>2, <4>3
    <3> QED
      BY <2>1, <3>4, <3>5, <1>3, <1>6
  <2> QED
    BY <2>2, <2>3
<1>16. Positions'
  BY <1>14, <1>15 DEF Positions
<1> QED
  BY <1>7, <1>13, <1>16 DEF IInv

\* Hence every step keeps it.
LEMMA StepPreservesIInv == IInv /\ [Next]_vars => IInv'
<1> SUFFICES ASSUME IInv, [Next]_vars PROVE IInv'
  OBVIOUS
<1>1. ASSUME NEW e \in Event, Accept(e) PROVE IInv'
  BY <1>1, AcceptPreservesIInv
<1>2. ASSUME NEW e \in Event, Complete(e) PROVE IInv'
  BY <1>2, CompletePreservesIInv
<1>3. CASE UNCHANGED vars
  BY <1>3 DEF vars, IInv, TypeOK, EachEventOnce, Positions, Waiting, Remembered
<1> QED
  BY <1>1, <1>2, <1>3 DEF Next

\* The inductive invariant holds in every reachable state.
THEOREM QueueInvariant == Spec => []IInv
<1> QED
  BY InitEstablishesIInv, StepPreservesIInv, PTL DEF Spec

-----------------------------------------------------------------------------

\* The list and the ages agree, so that the list is exactly the window.
LEMMA IInvImpliesWindow == IInv => WindowIsExact
<1> SUFFICES ASSUME IInv, NEW e \in Event
             PROVE  e \in Remembered <=> age[e] < MaxSeen
  BY DEF WindowIsExact
<1>1. TypeOK /\ Positions
  BY DEF IInv
<1>2. CASE e \in Remembered
  <2>1. PICK i \in 1..Len(completed) : completed[i] = e
    BY <1>1, <1>2, ListFacts DEF Remembered, Range
  <2>2. age[e] = Len(completed) - i
    BY <1>1, <2>1 DEF Positions
  <2>3. Len(completed) <= MaxSeen
    BY <1>1 DEF TypeOK
  <2> QED
    BY <1>1, <1>2, <2>2, <2>3, ListFacts
<1>3. CASE e \notin Remembered
  BY <1>1, <1>3, ListFacts DEF Positions
<1> QED
  BY <1>2, <1>3

\* The queue's lists stay lists of events within their bounds.
THEOREM TypeCorrect == Spec => []TypeOK
<1>1. IInv => TypeOK
  BY DEF IInv
<1> QED
  BY <1>1, QueueInvariant, PTL

\* An event is in the queue's file once, whatever the order of arrivals and
\* answers: ingest consults both lists before it appends.
THEOREM NeverTwice == Spec => []EachEventOnce
<1>1. IInv => EachEventOnce
  BY DEF IInv
<1> QED
  BY <1>1, QueueInvariant, PTL

\* Deduplication reaches back exactly MaxSeen answers, for every MaxSeen.
THEOREM ExactWindow == Spec => []WindowIsExact
<1> QED
  BY IInvImpliesWindow, QueueInvariant, PTL

\* A replay of an event whose answer is one of the last MaxSeen answers is
\* never taken for a new assignment.
THEOREM NoReplayAccepted == Spec => NoEarlyReacceptance
<1>1. ASSUME IInv, IInv', Next, NEW e \in Event, e \in Waiting' \ Waiting
      PROVE  age[e] = MaxSeen
  <2>1. TypeOK /\ Positions /\ WindowIsExact
    BY <1>1, IInvImpliesWindow DEF IInv
  <2>2. ASSUME NEW f \in Event, Accept(f) PROVE age[e] = MaxSeen
    <3>1. Waiting' \subseteq Waiting \cup {f}
      <4>1. /\ pending' = Append(pending, f)
            /\ pending \in Seq(Event)
        BY <2>1, <2>2 DEF Accept, TypeOK
      <4>2. /\ Len(pending') = Len(pending) + 1
            /\ \A i \in 1..Len(pending) : pending'[i] = pending[i]
            /\ pending'[Len(pending) + 1] = f
            /\ pending' \in Seq(Event)
        BY <4>1, AppendProperties
      <4>3. /\ DOMAIN pending' = 1..(Len(pending) + 1)
            /\ DOMAIN pending = 1..Len(pending)
            /\ Len(pending) \in Nat
        BY <4>1, <4>2, LenProperties
      <4> QED
        BY <4>2, <4>3 DEF Waiting, Range
    <3>2. e = f
      BY <1>1, <3>1
    <3> QED
      BY <2>1, <2>2, <3>2 DEF Accept, Seen, Positions
  <2>3. ASSUME NEW f \in Event, Complete(f) PROVE age[e] = MaxSeen
    <3>1. PICK k \in DOMAIN pending : pending' = RemoveAt(pending, k)
      BY <2>3 DEF Complete
    <3>2. /\ pending \in Seq(Event)
          /\ Len(pending) \in Nat
          /\ DOMAIN pending = 1..Len(pending)
      BY <2>1, ListFacts DEF TypeOK
    <3>3. /\ pending' \in Seq(Event)
          /\ Len(pending') = Len(pending) - 1
          /\ \A j \in 1..(Len(pending) - 1) :
               pending'[j] = IF j < k THEN pending[j] ELSE pending[j + 1]
      BY <3>1, <3>2, RemoveAtProperties
    <3>4. DOMAIN pending' = 1..(Len(pending) - 1)
      BY <3>3, LenProperties
    <3>5. \A j \in 1..(Len(pending) - 1) : pending'[j] \in Waiting
      <4> SUFFICES ASSUME NEW j \in 1..(Len(pending) - 1)
                   PROVE  pending'[j] \in Waiting
        OBVIOUS
      <4>1. j \in DOMAIN pending /\ j + 1 \in DOMAIN pending
        BY <3>2
      <4> QED
        BY <4>1, <3>3 DEF Waiting, Range
    <3>6. Waiting' \subseteq Waiting
      BY <3>4, <3>5 DEF Waiting, Range
    <3> QED
      BY <1>1, <3>6
  <2> QED
    BY <1>1, <2>2, <2>3 DEF Next
<1>2. IInv /\ IInv' /\ [Next]_vars =>
        [\A e \in Event : e \in Waiting' \ Waiting => age[e] = MaxSeen]_vars
  BY <1>1
<1> QED
  BY <1>2, QueueInvariant, PTL DEF Spec, NoEarlyReacceptance

\* One step of the queue as NoneLostNoneOvertaken has it.
FirstInFirstOut ==
  /\ \A e \in Waiting \ Waiting' : completed' # <<>> /\ Last(completed') = e
  /\ \A i, j \in DOMAIN pending' :
       i < j /\ pending'[j] \in Waiting =>
         \E k, l \in DOMAIN pending :
           k < l /\ pending[k] = pending'[i] /\ pending[l] = pending'[j]

\* ingest adds behind all that wait.
LEMMA AcceptIsFair ==
  ASSUME IInv, NEW e \in Event, Accept(e) PROVE FirstInFirstOut
<1>1. /\ pending \in Seq(Event) /\ e \notin Waiting /\ pending' = Append(pending, e)
  BY DEF IInv, TypeOK, Accept, Seen
<1>2. /\ Len(pending) \in Nat /\ DOMAIN pending = 1..Len(pending)
      /\ DOMAIN pending' = 1..(Len(pending) + 1)
      /\ \A i \in 1..Len(pending) : pending'[i] = pending[i]
      /\ pending'[Len(pending) + 1] = e
  BY <1>1, AppendProperties, LenProperties
<1>3. Waiting \ Waiting' = {}
  BY <1>1, AppendKeeps DEF Waiting
<1>4. ASSUME NEW i \in DOMAIN pending', NEW j \in DOMAIN pending', i < j, pending'[j] \in Waiting
      PROVE  i \in DOMAIN pending /\ j \in DOMAIN pending
  <2>1. j # Len(pending) + 1
    BY <1>1, <1>2, <1>4
  <2> QED
    BY <1>2, <1>4, <2>1
<1>5. ASSUME NEW i \in DOMAIN pending', NEW j \in DOMAIN pending', i < j, pending'[j] \in Waiting
      PROVE  \E k, l \in DOMAIN pending :
               k < l /\ pending[k] = pending'[i] /\ pending[l] = pending'[j]
  BY <1>2, <1>4, <1>5
<1> QED
  BY <1>3, <1>5 DEF FirstInFirstOut

\* complete takes one out, the newest to be remembered, and the others keep their
\* order.
LEMMA CompleteIsFair ==
  ASSUME IInv, NEW e \in Event, Complete(e) PROVE FirstInFirstOut
<1>1. PICK k \in DOMAIN pending :
        pending[k] = e /\ pending' = RemoveAt(pending, k) /\ completed' = RememberOneMore(e)
  BY DEF Complete
<1>2. TypeOK /\ pending \in Seq(Event)
  BY DEF IInv, TypeOK
<1>3. Len(pending) \in Nat /\ DOMAIN pending = 1..Len(pending)
  BY <1>2, LenProperties
<1>4. /\ pending' \in Seq(Event) /\ Len(pending') = Len(pending) - 1
      /\ \A i \in 1..(Len(pending) - 1) :
           pending'[i] = IF i < k THEN pending[i] ELSE pending[i + 1]
  BY <1>1, <1>2, <1>3, RemoveAtProperties
<1>5. DOMAIN pending' = 1..(Len(pending) - 1)
  BY <1>4, LenProperties
<1>6. Waiting \ Waiting' \subseteq {e}
  BY <1>1, <1>2, <1>3, RemoveAtKeeps DEF Waiting
<1>7. completed' \in Seq(Event) /\ completed'[Len(completed')] = e /\ completed' # <<>>
  <2>1. /\ completed' \in Seq(Event) /\ completed'[Len(completed')] = e
        /\ Len(completed') = Len(completed) + 1 - (IF Len(completed) < MaxSeen THEN 0 ELSE 1)
    BY <1>1, <1>2, RememberOneMoreProperties
  <2>2. Len(completed') # 0
    BY <1>2, <2>1, ListFacts
  <2> QED
    BY <2>1, <2>2, EmptySeq
<1>8. ASSUME NEW i \in DOMAIN pending', NEW j \in DOMAIN pending', i < j
      PROVE  \E m, l \in DOMAIN pending :
               m < l /\ pending[m] = pending'[i] /\ pending[l] = pending'[j]
  <2> DEFINE up(n) == IF n < k THEN n ELSE n + 1
  <2>1. up(i) \in DOMAIN pending /\ up(j) \in DOMAIN pending /\ up(i) < up(j)
    BY <1>3, <1>5, <1>8
  <2>2. pending[up(i)] = pending'[i] /\ pending[up(j)] = pending'[j]
    BY <1>4, <1>5
  <2> HIDE DEF up
  <2> QED
    BY <2>1, <2>2
<1> QED
  BY <1>6, <1>7, <1>8 DEF FirstInFirstOut, Last

\* Capacity never costs an accepted assignment and none is overtaken, for any
\* bounds: one leaves the queue only by being completed, and the others stay in the
\* order of their arrival.
THEOREM FairQueue == Spec => NoneLostNoneOvertaken
<1>1. IInv /\ [Next]_vars => [FirstInFirstOut]_vars
  BY AcceptIsFair, CompleteIsFair DEF Next
<1>2. NoneLostNoneOvertaken <=> [][FirstInFirstOut]_vars
  BY DEF NoneLostNoneOvertaken, FirstInFirstOut
<1> QED
  BY <1>1, <1>2, QueueInvariant, PTL DEF Spec
=============================================================================

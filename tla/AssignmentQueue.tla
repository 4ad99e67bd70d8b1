-------------------------- MODULE AssignmentQueue --------------------------
(***************************************************************************)
(* What the plugin's durable queue (class DurableQueue, engine.py)         *)
(* promises to the adapter that uses it, with the file left out: every     *)
(* operation is one step on two sequences.                                 *)
(*                                                                         *)
(*   pending    accepted assignments that still wait for their answer, in  *)
(*              arrival order                                              *)
(*   completed  the identities of answered assignments the queue still     *)
(*              remembers, oldest first, at most MaxSeen of them           *)
(*                                                                         *)
(* The file's "seen" list is completed followed by pending (_save), so it  *)
(* is not a variable here; module DurableQueue keeps the file itself and   *)
(* is checked to implement this module.                                    *)
(*                                                                         *)
(* An operation that leaves the content of the file as it was is a         *)
(* stuttering step: ingest of an unauthorised or already seen event,       *)
(* ingest into a full queue (it raises), complete of an identity that is   *)
(* not pending (the file is rewritten with what it held), and every        *)
(* operation that fails before the file is replaced.                       *)
(***************************************************************************)
EXTENDS Naturals, Sequences, SequencesExt

CONSTANTS
  Event,       \* identities thread:<n>:entry:<m> that HEY can deliver
  MaxSeen,     \* completed identities remembered (max_seen, at least 100)
  MaxPending   \* accepted assignments that may wait (max_pending)

ASSUME BoundsAssumption == MaxSeen \in Nat \ {0} /\ MaxPending \in Nat \ {0}

VARIABLES
  pending,     \* Seq(Event)
  completed,   \* Seq(Event)
  age          \* history only: for each event the number of completions
               \* since its own last one, counted up to MaxSeen; MaxSeen
               \* for an event that was never completed

vars == <<pending, completed, age>>

\* The two lists are lists of events within the queue's two bounds (_load calls
\* a pending list longer than max_pending unreadable, and the plugin would stop).
TypeOK ==
  /\ pending \in Seq(Event) /\ Len(pending) <= MaxPending
  /\ completed \in Seq(Event) /\ Len(completed) <= MaxSeen
  /\ age \in [Event -> 0..MaxSeen]

Remembered == Range(completed)
Waiting    == Range(pending)
Seen       == Remembered \cup Waiting

Init ==
  /\ pending = <<>>
  /\ completed = <<>>
  /\ age = [e \in Event |-> MaxSeen]

-----------------------------------------------------------------------------

\* Fault variant: the capacity test of _trim is off by one.
ForgetOneTooMany(e) ==
  IF Len(completed) + 1 < MaxSeen THEN Append(completed, e)
  ELSE IF completed = <<>> THEN <<>> ELSE Append(Tail(completed), e)

\* _save keeps the newest MaxSeen completed identities: a newly completed one
\* goes to the end and the oldest gives way.
RememberOneMore(e) ==
  IF Len(completed) < MaxSeen THEN Append(completed, e)
                              ELSE Append(Tail(completed), e)

\* The history variable's account of a completion.
Older(e) ==
  [f \in Event |-> IF f = e THEN 0
                   ELSE IF age[f] < MaxSeen THEN age[f] + 1 ELSE MaxSeen]

\* Fault variant: only the pending list is consulted for duplicates.
AcceptIfNotWaiting(e) ==
  /\ e \notin Waiting
  /\ Len(pending) < MaxPending
  /\ pending' = Append(pending, e)
  /\ UNCHANGED <<completed, age>>

\* Fault variant: a new assignment overtakes the ones that wait.
AcceptInFront(e) ==
  /\ e \notin Seen
  /\ Len(pending) < MaxPending
  /\ pending' = <<e>> \o pending
  /\ UNCHANGED <<completed, age>>

\* Fault variant: the capacity test is left out.
AcceptWithoutRoom(e) ==
  /\ e \notin Seen
  /\ Len(pending) <= MaxPending
  /\ pending' = Append(pending, e)
  /\ UNCHANGED <<completed, age>>

\* ingest: an authorised event that is not seen and finds room is appended.
Accept(e) ==
  /\ e \notin Seen
  /\ Len(pending) < MaxPending
  /\ pending' = Append(pending, e)
  /\ UNCHANGED <<completed, age>>

\* complete: the assignment leaves the queue and its identity becomes the
\* newest remembered one.
Complete(e) ==
  \E i \in DOMAIN pending :
    /\ pending[i] = e
    /\ pending' = RemoveAt(pending, i)
    /\ completed' = RememberOneMore(e)
    /\ age' = Older(e)

Next == \E e \in Event : Accept(e) \/ Complete(e)

Spec == Init /\ [][Next]_vars

-----------------------------------------------------------------------------

\* An event is in the file once: it does not wait twice, is not remembered
\* twice, and does not wait while it is remembered as answered.  (_load
\* refuses a file that breaks this, and every later operation would fail.)
EachEventOnce ==
  /\ \A i, j \in DOMAIN pending : pending[i] = pending[j] => i = j
  /\ \A i, j \in DOMAIN completed : completed[i] = completed[j] => i = j
  /\ Waiting \cap Remembered = {}

\* The deduplication window: an answered event is remembered exactly until
\* MaxSeen other answers have followed its own, so that a replay of it by the
\* sidecar within that window is never accepted again.
WindowIsExact ==
  \A e \in Event : e \in Remembered <=> age[e] < MaxSeen

\* No event is accepted while one of the last MaxSeen answers was its own.
NoEarlyReacceptance ==
  [][\A e \in Event : e \in Waiting' \ Waiting => age[e] = MaxSeen]_vars

\* Capacity never costs an accepted assignment, and none is overtaken: one leaves
\* the queue only by being completed, and is the newest identity remembered then;
\* two that both stay keep the order in which they arrived, and a new one queues
\* up behind them.
NoneLostNoneOvertaken ==
  [][/\ \A e \in Waiting \ Waiting' : completed' # <<>> /\ Last(completed') = e
     /\ \A i, j \in DOMAIN pending' :
          i < j /\ pending'[j] \in Waiting =>
            \E k, l \in DOMAIN pending :
              k < l /\ pending[k] = pending'[i] /\ pending[l] = pending'[j]]_vars
=============================================================================

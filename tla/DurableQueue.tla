---------------------------- MODULE DurableQueue ----------------------------
(***************************************************************************)
(* The file behind the plugin's queue (class DurableQueue, engine.py): how *)
(* ingest and complete read it, check it and replace it, step by step,     *)
(* under thread interleavings, failing system calls, a crash of the        *)
(* gateway process and a loss of power, on POSIX and on Windows            *)
(* (windows_state.py).                                                     *)
(*                                                                         *)
(* The file has two contents: `visible`, what the next open() reads, and   *)
(* `durable`, what a loss of power leaves.  They differ between the        *)
(* replacement and the sync after it (of the directory on POSIX, of the    *)
(* renamed file on Windows), and the kernel may close the gap at any time  *)
(* on its own (Flush).                                                     *)
(*                                                                         *)
(* Left out: ownership, mode, ACL and symlink checks of the file (those    *)
(* before the replacement fail the operation as SaveFails does), the       *)
(* orphaned temporary of a crashed save (its random name is never read     *)
(* again), the JSON text, and pending(), which reads under the same lock   *)
(* and changes nothing.  An unauthorised event never gets as far as the    *)
(* lock (ingest's first test), so the events here are authorised ones.     *)
(***************************************************************************)
EXTENDS Naturals, Sublists, SequencesExt

CONSTANTS
  Event, MaxSeen, MaxPending,  \* as in AssignmentQueue
  Caller,          \* threads of the gateway process that use the queue
  NoOne,           \* not a Caller: the lock is free
  Platforms,       \* of {"posix", "nt"}: what the gateway may run on (os.name)
  Mishaps,         \* what may go wrong: see Mishap
  MaxMishaps       \* bound: how many of them do, each once

ASSUME ConstantsAssumption ==
  /\ MaxSeen \in Nat \ {0} /\ MaxPending \in Nat \ {0}
  /\ NoOne \notin Caller
  /\ Platforms \subseteq {"posix", "nt"}
  /\ Mishaps \subseteq {"crash", "cutShort", "powerLoss", "damage"}
  /\ MaxMishaps \in Nat

VARIABLES
  platform,  \* os.name, for good
  dir,       \* the queue's directory: absent, exposed (its access list lets
             \* others in, which every operation refuses) or private
  visible,   \* content of the state file as processes read it
  durable,   \* content that survives a loss of power
  unsynced,  \* TRUE if the visible file's own data was never fsynced
  lock,      \* the per-path lock shared by all queue objects of the process
  call,      \* for each caller the operation it is in and how far it is
  age,       \* history: as in AssignmentQueue
  promised,  \* history: assignments whose ingest has returned without an
             \* error and whose completion has not replaced the file yet
  mishaps    \* what has gone wrong: the process crashed; a call ended between
             \* its replacement of the file and its last sync; the power was
             \* lost; something else spoilt the file

file == <<visible, durable, unsynced>>
rest == <<platform, dir, mishaps>>

vars == <<file, lock, call, age, promised, rest>>

-----------------------------------------------------------------------------
(* The algorithms on the file's content.                                   *)

\* A file that is no queue state any more.
Torn == [unreadable |-> TRUE]

\* A missing file reads as an empty one (_load).
Empty == [seen |-> <<>>, pending |-> <<>>]

\* _load: everything else is refused, and refused for good, because no later
\* operation overwrites a file it could not read.
Loadable(content) ==
  /\ content # Torn
  /\ Len(content.pending) <= MaxPending
  /\ NoRepeat(content.seen)
  /\ NoRepeat(content.pending)
  /\ Range(content.pending) \subseteq Range(content.seen)

\* _trim: each value once, at the place of its last occurrence, and of those
\* the last cap.
Trim(values, cap) ==
  LET lasts == {i \in DOMAIN values : \A j \in DOMAIN values : j > i => values[j] # values[i]}
      kept  == Sublist(values, lasts)
  IN  IF Len(kept) > cap THEN SubSeq(kept, Len(kept) - cap + 1, Len(kept)) ELSE kept

\* Fault variant: the cap is applied to the whole list, so that many answered
\* identities can push out one that still waits.
SavedTrimmedTogether(seen, pending) ==
  [seen |-> Trim(seen, MaxSeen), pending |-> pending]

\* _save: answered identities are capped, waiting ones never.
Saved(seen, pending) ==
  LET completed == Only(seen, Range(seen) \ Range(pending))
  IN  [seen    |-> Trim(completed, MaxSeen) \o Trim(pending, Len(pending)),
       pending |-> pending]

-----------------------------------------------------------------------------

Stage == {"idle", "blocked", "entering", "locked", "write", "written", "synced", "replaced"}

Idle == [op |-> "none", event |-> NoOne, at |-> "idle", new |-> Empty]

\* The lock is held exactly from its acquisition to the end of the call, by one
\* caller at a time; a call in progress has an operation and an event.
TypeOK ==
  /\ lock \in Caller \cup {NoOne}
  /\ call \in [Caller -> [op : {"none", "ingest", "complete"}, event : Event \cup {NoOne},
                          at : Stage, new : [seen : Seq(Event), pending : Seq(Event)]]]
  /\ \A c \in Caller : lock = c <=> call[c].at \notin {"idle", "blocked"}
  /\ \A c \in Caller : call[c].op = "none" <=> call[c].at = "idle"
  /\ visible \in {Torn} \cup [seen : Seq(Event), pending : Seq(Event)]
  /\ durable \in {Torn} \cup [seen : Seq(Event), pending : Seq(Event)]
  /\ age \in [Event -> 0..MaxSeen]
  /\ promised \subseteq Event
  /\ unsynced \in BOOLEAN
  /\ platform \in Platforms /\ dir \in {"absent", "exposed", "private"}
  /\ mishaps \subseteq Mishaps /\ Cardinality(mishaps) <= MaxMishaps

Init ==
  /\ platform \in Platforms /\ dir = "absent"
  /\ visible = Empty /\ durable = Empty /\ unsynced = FALSE
  /\ lock = NoOne
  /\ call = [c \in Caller |-> Idle]
  /\ age = [e \in Event |-> MaxSeen]
  /\ promised = {}
  /\ mishaps = {}

-----------------------------------------------------------------------------
(* The steps of a call.                                                    *)

GoTo(c, stage) == call' = [call EXCEPT ![c].at = stage]

\* The same with a content the call has read or computed.
GoToWith(c, stage, content) ==
  call' = [call EXCEPT ![c] = [op |-> call[c].op, event |-> call[c].event,
                               at |-> stage, new |-> content]]

\* Leaving the `with self._lock` block, by return or by exception.
EndCall(c) ==
  /\ call' = [call EXCEPT ![c] = Idle]
  /\ lock' = NoOne

Start(c, op, e) ==
  /\ call[c].at = "idle"
  /\ call' = [call EXCEPT ![c] = [op |-> op, event |-> e, at |-> "blocked", new |-> Empty]]
  /\ UNCHANGED <<file, lock, age, promised, rest>>

\* What opening the directory does.  On POSIX one mkdir creates it private; on
\* Windows a missing one takes the way of MakeDir.
OpenDir ==
  /\ dir = "private" \/ (dir = "absent" /\ platform = "posix")
  /\ dir' = "private"
  /\ UNCHANGED <<platform, mishaps>>

\* Fault variant: the operations do not exclude each other.
AcquireAnyway(c) ==
  /\ call[c].at = "blocked"
  /\ Loadable(visible)
  /\ lock' = c
  /\ GoToWith(c, "locked", visible)
  /\ OpenDir
  /\ UNCHANGED <<file, age, promised>>

\* Fault variant: an unreadable file is taken for a missing one.
AcquireOrStartAfresh(c) ==
  /\ call[c].at = "blocked"
  /\ lock = NoOne
  /\ lock' = c
  /\ GoToWith(c, "locked", IF Loadable(visible) THEN visible ELSE Empty)
  /\ OpenDir
  /\ UNCHANGED <<file, age, promised>>

\* The lock is taken and the file is read and found in order.
Acquire(c) ==
  /\ call[c].at = "blocked"
  /\ lock = NoOne
  /\ Loadable(visible)
  /\ lock' = c
  /\ GoToWith(c, "locked", visible)
  /\ OpenDir
  /\ UNCHANGED <<file, age, promised>>

\* assert_private or _load raises: the call fails, the lock is free again and
\* the file as it was.
LoadRefuses(c) ==
  /\ call[c].at = "blocked"
  /\ lock = NoOne
  /\ dir = "exposed" \/ ~Loadable(visible)
  /\ EndCall(c)
  /\ UNCHANGED <<file, age, promised, rest>>

\* Windows, first call: __enter__ creates the directory, under the access list
\* that it inherits, ...
MakeDir(c) ==
  /\ call[c].at = "blocked"
  /\ lock = NoOne
  /\ platform = "nt" /\ dir = "absent"
  /\ lock' = c
  /\ dir' \in {"exposed", "private"}
  /\ GoTo(c, "entering")
  /\ UNCHANGED <<file, age, promised, platform, mishaps>>

\* ... and gives it one of its own; it holds no file yet.
LockDown(c) ==
  /\ call[c].at = "entering"
  /\ dir' = "private"
  /\ GoToWith(c, "locked", Empty)
  /\ UNCHANGED <<file, lock, age, promised, platform, mishaps>>

\* A call of the Windows API fails in between.  The directory stays as it is,
\* and as it exists now, nobody will lock it down later.
LockDownFails(c) ==
  /\ call[c].at = "entering"
  /\ EndCall(c)
  /\ UNCHANGED <<file, age, promised, rest>>

\* ingest of an identity that the file has seen returns False.  The adapter
\* acknowledges it like a new one.
IngestSeen(c) ==
  LET e == call[c].event IN
  /\ call[c].at = "locked" /\ call[c].op = "ingest"
  /\ e \in Range(call[c].new.seen)
  /\ promised' = IF e \in Range(call[c].new.pending) THEN promised \cup {e} ELSE promised
  /\ EndCall(c)
  /\ UNCHANGED <<file, age, rest>>

IngestFull(c) ==
  /\ call[c].at = "locked" /\ call[c].op = "ingest"
  /\ call[c].event \notin Range(call[c].new.seen)
  /\ Len(call[c].new.pending) >= MaxPending
  /\ EndCall(c)
  /\ UNCHANGED <<file, age, promised, rest>>

\* ingest computes the content with the new event at the end of both lists.
IngestNew(c) ==
  LET e == call[c].event
      old == call[c].new
  IN
  /\ call[c].at = "locked" /\ call[c].op = "ingest"
  /\ e \notin Range(old.seen)
  /\ Len(old.pending) < MaxPending
  /\ GoToWith(c, "write", Saved(Append(old.seen, e), Append(old.pending, e)))
  /\ UNCHANGED <<file, lock, age, promised, rest>>

\* The waiting events except one: their identities are distinct (Loadable).
Without(list, e) ==
  IF e \in Range(list) THEN RemoveAt(list, CHOOSE i \in DOMAIN list : list[i] = e) ELSE list

\* complete computes the content without the event among the waiting ones; it
\* saves even when the event was not waiting.
CompleteRemoves(c) ==
  LET e == call[c].event
      old == call[c].new
  IN
  /\ call[c].at = "locked" /\ call[c].op = "complete"
  /\ GoToWith(c, "write", Saved(old.seen, Without(old.pending, e)))
  /\ UNCHANGED <<file, lock, age, promised, rest>>
-----------------------------------------------------------------------------
(* The steps of _save_posix and of replace_state.                          *)

\* The temporary is created and written (it is the caller's `new`).
Write(c) ==
  /\ call[c].at = "write"
  /\ GoTo(c, "written")
  /\ UNCHANGED <<file, lock, age, promised, rest>>

\* fsync or FlushFileBuffers of the temporary.
Sync(c) ==
  /\ call[c].at = "written"
  /\ GoTo(c, "synced")
  /\ UNCHANGED <<file, lock, age, promised, rest>>

\* The content is too large, or a system call up to the replacement fails: the
\* temporary is removed and the call raises.
SaveFails(c) ==
  /\ call[c].at \in {"write", "written", "synced"}
  /\ EndCall(c)
  /\ UNCHANGED <<file, age, promised, rest>>

\* The history of a completion that reaches the file, as in AssignmentQueue.
Older(e) ==
  [f \in Event |-> IF f = e THEN 0
                   ELSE IF age[f] < MaxSeen THEN age[f] + 1 ELSE MaxSeen]

\* What os.replace and the rename of a handle do: the new content is what everyone reads from now on.
PutInPlace(c) ==
  LET e == call[c].event IN
  /\ visible' = call[c].new
  /\ GoTo(c, "replaced")
  /\ IF call[c].op = "complete" /\ e \in Range(visible.pending)
       THEN age' = Older(e) /\ promised' = promised \ {e}
       ELSE UNCHANGED <<age, promised>>
  /\ UNCHANGED <<durable, lock, rest>>

\* Fault variant: the temporary is put in place without its fsync.
ReplaceUnsynced(c) ==
  /\ call[c].at \in {"written", "synced"}
  /\ PutInPlace(c)
  /\ unsynced' = (call[c].at = "written")

\* The replacement, after the temporary's fsync.
Replace(c) ==
  /\ call[c].at = "synced"
  /\ PutInPlace(c)
  /\ unsynced' = FALSE

\* How a call that saved returns: ingest's True is what the adapter takes for
\* "persisted" before it acknowledges.
ReturnSaved(c) ==
  /\ call[c].at = "replaced"
  /\ promised' = IF call[c].op = "ingest" /\ call[c].event \in Range(visible.pending)
                   THEN promised \cup {call[c].event} ELSE promised
  /\ EndCall(c)

\* Fault variant: the call returns without the fsync of the directory.
ReturnUnsynced(c) ==
  /\ ReturnSaved(c)
  /\ UNCHANGED <<file, age, rest>>

\* The sync after the replacement (of the directory, or of the renamed file)
\* and the checks next to it succeed: the replacement will survive.
SyncDir(c) ==
  /\ ReturnSaved(c)
  /\ durable' = visible
  /\ UNCHANGED <<visible, unsynced, age, rest>>

\* Something of the kind goes wrong, for the first time.
Mishap(kind) ==
  /\ kind \in Mishaps \ mishaps
  /\ Cardinality(mishaps) < MaxMishaps
  /\ mishaps' = mishaps \cup {kind}
  /\ UNCHANGED <<platform, dir>>

\* POSIX: a check of the new file or the fsync of the directory fails, and the
\* call raises although the new content is in place.
SyncDirFails(c) ==
  /\ platform = "posix"
  /\ call[c].at = "replaced"
  /\ Mishap("cutShort")
  /\ EndCall(c)
  /\ UNCHANGED <<file, age, promised>>

\* Windows: the flush after the rename fails.  rename_by_handle raises before
\* replace_state notes the rename, so that the handle, which is by now the state
\* file, is deleted like a temporary (unless that fails as well).
FlushFails(c) ==
  /\ platform = "nt"
  /\ call[c].at = "replaced"
  /\ Mishap("cutShort")
  /\ visible' \in {visible, Empty}
  /\ EndCall(c)
  /\ UNCHANGED <<durable, unsynced, age, promised>>

\* Windows: a check after the flush fails; the call raises although the new
\* content is in place and synced.
CheckFails(c) ==
  /\ platform = "nt"
  /\ call[c].at = "replaced"
  /\ durable' = visible
  /\ EndCall(c)
  /\ UNCHANGED <<visible, unsynced, age, promised, rest>>

-----------------------------------------------------------------------------
(* The environment.                                                        *)

\* The kernel writes the directory back; data that was never fsynced may still
\* be missing then.
Flush ==
  /\ durable # visible
  /\ durable' \in IF unsynced THEN {visible, Torn} ELSE {visible}
  /\ UNCHANGED <<visible, unsynced, lock, call, age, promised, rest>>

\* The process dies and starts again; the file system goes on.
ProcessCrash ==
  /\ Mishap(IF \E c \in Caller : call[c].at = "replaced" THEN "cutShort" ELSE "crash")
  /\ call' = [c \in Caller |-> Idle]
  /\ lock' = NoOne
  /\ UNCHANGED <<file, age, promised>>

\* Only what is durable is left.  (age then describes answers the file may have
\* lost.)
PowerLoss ==
  /\ Mishap("powerLoss")
  /\ visible' = durable
  /\ unsynced' = FALSE
  /\ call' = [c \in Caller |-> Idle]
  /\ lock' = NoOne
  /\ UNCHANGED <<durable, age, promised>>

\* Something other than the plugin spoils the file between two calls.
Damage ==
  /\ lock = NoOne
  /\ dir = "private" /\ visible # Torn
  /\ Mishap("damage")
  /\ visible' = Torn /\ durable' = Torn
  /\ UNCHANGED <<unsynced, lock, call, age, promised>>

Step(c) ==
  \/ \E e \in Event : Start(c, "ingest", e)
  \/ \E e \in Event : Start(c, "complete", e)
  \/ Acquire(c) \/ LoadRefuses(c) \/ MakeDir(c) \/ LockDown(c) \/ LockDownFails(c)
  \/ IngestSeen(c) \/ IngestFull(c) \/ IngestNew(c) \/ CompleteRemoves(c)
  \/ Write(c) \/ Sync(c) \/ SaveFails(c) \/ Replace(c)
  \/ SyncDir(c) \/ SyncDirFails(c) \/ FlushFails(c) \/ CheckFails(c)

Next == (\E c \in Caller : Step(c)) \/ Flush \/ ProcessCrash \/ PowerLoss \/ Damage

Spec == Init /\ [][Next]_vars

-----------------------------------------------------------------------------

\* The completed identities are the part of the seen list that does not wait.
Queue == INSTANCE AssignmentQueue WITH
  pending   <- visible.pending,
  completed <- Only(visible.seen, Range(visible.seen) \ Range(visible.pending))

\* Whatever the threads interleave, whichever call fails at whichever step and
\* whenever the process crashes, what can be read from the file changes only as
\* AssignmentQueue allows: no update is lost and none is half done.  Two things
\* alone may change it otherwise: a loss of power, and a failing flush after the
\* rename on Windows, which deletes the file.  (A damaged file is no queue.)
ImplementsAssignmentQueue ==
  /\ Queue!Init
  /\ [][\/ "damage" \in mishaps'
        \/ [Queue!Next]_(Queue!vars)
        \/ "powerLoss" \in mishaps' \ mishaps
        \/ "cutShort" \in mishaps' \ mishaps /\ platform = "nt"]_vars

\* Neither the file nor what a loss of power would leave of it is ever one that
\* _load refuses, unless something else has spoilt it: a refused file stops the
\* queue for good.
NeverUnreadable == "damage" \notin mishaps => Loadable(visible) /\ Loadable(durable)

PromisesKept == \A e \in promised : durable # Torn /\ e \in Range(durable.pending)

\* An assignment for which ingest has returned without an error, so that its
\* acknowledgement goes out and the sidecar's cursor moves past it, survives a
\* loss of power until it is completed - unless some call has ended between its
\* replacement of the file and its last sync.
PromisedIsDurable == mishaps \cap {"damage", "cutShort"} = {} => PromisesKept

\* The same as the documents have it, without the exception: authorised events
\* are durable before they are acknowledged and dispatched.
PersistedBeforeAcknowledged == "damage" \notin mishaps => PromisesKept

\* A file that cannot be read is left for a person to look at: no operation,
\* however many threads try, replaces it.
DamageIsNeverOverwritten == [][visible = Torn => visible' = Torn]_vars
=============================================================================

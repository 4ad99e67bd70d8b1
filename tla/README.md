# A TLA+ verification of hermes-hey

hermes-hey connects the Hermes agent gateway to the mail service HEY. A Go
*sidecar* talks to HEY; a Python *platform adapter* inside the gateway stores
the assignments it gets, dispatches them to agent sessions, and sends one final
answer for each. This directory holds TLA+ models of the parts in which steps of
several actors meet, TLC configurations that check them on small instances, and
proofs that TLAPS checks for every instance.

## 1. The system

| Component | Code | State | Operations |
| --- | --- | --- | --- |
| Durable queue | `engine.py`, class `DurableQueue` | state file (`seen`, `pending`), a lock per path | `ingest`, `pending`, `complete` |
| Platform adapter | `adapter.py`, class `HeyAdapter` | claims per thread, the live adapter (both shared by all instances), background tasks | `connect`, `disconnect`, drains, hooks of a session |
| Answer delivery | `adapter.py` (`_send_with_retry`, `send`, `run_blocking`), `client.py` (runner), `reply.go`, `comment.go`, `app.go` | a coroutine, a worker thread, a process per attempt | attempts, retries, cancellation |
| Intake | `watch.go`, `main.go`, `cursor.go`, `HeySDKWatch` in `client.py`, `process_watch_line` | cursor file, increments of a poll, pipes | initialize, poll, emit, acknowledge |
| Supervision of the watch | `_watch_supervisor` and `disconnect` in `adapter.py`, `HeySDKWatch` in `client.py` | failure counter, process, reader tasks | start, count, pause, stop with two signals, fatal end |
| Credentials | `auth.go`, `auth_lock*.go` | credential file, lock file | `AccessToken`, `Refresh` |
| Formats and validation | `core.py`, first half of `engine.py`, `main.go` | none | parsing |
| Windows files | `windows_state.py`, `*_windows.go` | the directory's access list | transactions, ACL checks |
| Registration | `plugin.py` | none | configuration |

How they interact: the adapter starts a watch sidecar, which polls HEY and
writes one event frame at a time to its pipe. The adapter ingests the event
into the queue's file and then acknowledges it; only then does the sidecar
advance its cursor file. Each drain of the adapter claims pending events thread
by thread and hands them to Hermes. The session's final text goes through
`_send_with_retry`, which starts a reply or comment sidecar for each attempt;
after a confirmed success the event is completed in the queue. All sidecars
share one credential file.

What is hard about it: two adapter objects alive in one process during a
reconnect; claims and lists that are read before an await and used after it;
crashes between the steps *persist, acknowledge, advance*; sidecars that outlive
the process which started them, and requests that outlive their sidecar; a
deduplication window that forgets; a refresh token that can be used once; a
process that ignores every signal while three coroutines wait for its end.
`PROJECT.json` lists these hazards at their lines.

What makes the components correct: the queue loses nothing it has accepted and
accepts nothing twice within its window; a thread has one session at work; an
event leaves the queue only when it was answered; one call sends at most one
mail; the cursor never passes an event that is not persisted; everything
accepted is answered in the end, as long as one adapter stays up; a watch that
cannot work is reported, not restarted for ever; no sidecar is left to run on
unhindered; none spends a refresh token twice.

## 2. The modules

| Module | Models | Proved in |
| --- | --- | --- |
| `AssignmentQueue` | what the queue promises: two sequences, one step per operation | `AssignmentQueueProofs` |
| `DurableQueue` | the file behind it, step by step, on POSIX and on Windows; refines `AssignmentQueue` | `DurableQueueProofs` |
| `Delivery` | one answer on its way, down to HEY's POST | `DeliveryProofs` |
| `Adapter`, `MCAdapter` | instances of the adapter, drains, claims, sessions | `AdapterProofs` |
| `Watch`, `MCWatch` | polls, cursor file, frames, acknowledgements | `WatchProofs` |
| `Supervisor` | the watch's process and its supervision: starts, failures, pauses, stops, disconnect | `SupervisorProofs` |
| `CredentialRefresh` | token use and refresh by many processes | `CredentialRefreshProofs` |
| `Sublists` | lists without repetitions, and what a list comprehension leaves | - |
| `SequenceLemmas` | what `Append`, `RemoveAt`, `SubSeq` and comprehensions do to a list, for the proofs of the first two, `Adapter` and `Watch` | lemmas |

Each module carries *fault variants* next to the definitions they vary. They are
no part of the specification: they show which mistake in the code each property
would catch, and `PROJECT.json` pairs each property with one.

### AssignmentQueue

`pending` and `completed` are the two parts of the file's `seen` list
(`_save` writes completed identities followed by waiting ones). `Accept` is
`ingest`, `Complete` is `complete`, `RememberOneMore` is `_trim`. Operations that
leave the file as it was are stuttering steps. `age` is a history variable: it
counts the answers since an event's own one and makes the deduplication window
a statement about the past.

### DurableQueue

`visible` is what a reader of the file sees, `durable` what a loss of power
leaves. A call takes the lock and loads (`Acquire`, or `LoadRefuses`), decides
(`IngestSeen`, `IngestFull`, `IngestNew`, `CompleteRemoves`), and saves: `Write`,
`Sync`, `Replace`, `SyncDir`. These are the steps of `_save_posix`, and those of
`replace_state` on Windows, where the last sync is that of the renamed file. The
platforms differ in their error paths. `SaveFails` is the one both have.
`SyncDirFails` (POSIX) and `CheckFails` (Windows) leave the new content in place;
`FlushFails` (Windows) deletes the file. On Windows a directory that is missing is
created with an inherited access list and locked down in a second step
(`MakeDir`, `LockDown`, `LockDownFails`), hence `dir`. `Loadable`, `Trim` and
`Saved` are the functions on the content. The environment writes the directory
back on its own, and `Mishaps` says what else it may do: crash the process, cut a
call short between its replacement and its last sync, cut the power, spoil the
file.

Refinement: `ImplementsAssignmentQueue` maps `visible` to the two sequences; the
one step that changes them is `Replace`. It is stated as `Queue!Init` and a step
property with named exceptions: a loss of power, `FlushFails`, and a file spoilt
from outside. The run `file` checks it, and `DurableQueueProofs` proves it.

### Delivery

The variables are the coroutine (`answer`, `retries`, `cancels`), the sidecar of
the attempt (`side`, `exit`) and its POST (`post`). A POST whose sidecar is gone
stays on its way (`stray`) and may still be applied. Exit statuses are those of
`main`: 0 with output, 0 without (a terminated sidecar), 75, anything else.

### Adapter

A step is what a coroutine does between two awaits. `drain[a][w]` is the rest of
the list that a `_drain_pending` call read when it started: the walk (`Walk`)
claims the thread of the first event that is authorised and whose thread is free,
and waits for `handle_message` with it (`giving`); it does not look at the queue
again. `HandleMessage` gives the event to Hermes, `DispatchFails` releases the
claim (the `except` of `_drain_pending`), and the drain goes on with the rest.
`Connect`, `ConnectResumes`, `Connected`, `GatewayReady`, `ReadyFrame`, `DueDrain`
and `IdleDrain` are the places that start drains; `ConnectFails` is a first drain
that raises. `Send` looks up the claim, `Confirm` looks it up again after the wait,
`Finish` is `on_processing_complete`, and `FinishFails` is the same hook when it
cannot read the queue. A claim that the code leaves behind is recorded in the
history variable `kept`; there are two ways (section 3, known exceptions). Hermes is
modelled by what the adapter relies on: a session per thread and adapter, started
by `handle_message`, that calls `_send_with_retry`, then `on_processing_complete`,
then leaves `_active_sessions`.

### Watch

HEY gives each change a time. An entry changes its thread's posting in all boxes
the thread is in, and a cursor is a time per box. `Initialize` and
`SaveNewCursors` are `initialize`; `Poll`, `ReadChanges` (box by box), `Hydrate`
(posting by posting, with the entries as they are *by then*), `SaveQuiet`,
`Emit` and `Acked` are `poll`. `foundIn` is `item.boxes`, from which the counter
`pending` of each increment follows. The plugin's end is `ReadFrame`, `Ingest`,
`SendAck`. Every process can die anywhere, and after `GatewayCrash` its sidecar
goes on until it needs its pipes.

### Supervisor

`task` is where `_watch_supervisor` is, `disc` where `disconnect` is. Three pieces
of code wait for the sidecar's end, each with its own two signals and timeouts:
`lines()`, the `stop` in the finally clause (which is shielded and survives the
task), and the `stop` of `disconnect`; `stage` has a place for each, and `Kill` and
`GiveUp` are their timeouts. A counted failure is `Fail`, reached by `StartFails`,
`BadFrame`, `OutputEnds` and `EndingIsOver`. `CancelledAtWork`, `CancelledAtRest`
and `CancelledAtStart` are what a cancellation does at each await. The sidecar is
a process and others that hold its pipes; it may end or stay as it likes. `log`
is a history variable: how long the latest failed watches lasted, against which
`SupervisionFitsHistory` holds the counter.

### CredentialRefresh

Pairs of access and refresh token are numbered. `AccessToken` uses the stored
one, or goes for a refresh; `Refused` is the SDK's call of `Refresh`. Under the
lock, `FoundRefreshed` and `Ask` are the comparison with the token observed
before. `Ends` is every error and every kill: a request that is out drifts on
(`adrift`) and may be granted to nobody.

## 3. The runs

| Run | Question | Bounds |
| --- | --- | --- |
| `queue` | what the queue promises | 5 events, window 3, capacity 2: more events than window and capacity hold together, so eviction, refusal and re-acceptance all happen |
| `file` | do interleaved threads implement it, does the file survive, is a spoilt file left alone? | 3 events, window 1, capacity 2, 2 threads, both platforms, any 2 of the 4 mishaps |
| `file_dir_sync` | finding, see below | 2 events, 1 thread, 1 call cut short, 1 loss of power |
| `delivery` | at most one mail, real success, an end | the code's 3 retries, 2 cancellations |
| `adapter_handover` | who works on what, whose claim it is, who is answered, what leaves the queue, who is registered | 2 events of one thread, 2 adapters that may overlap, one of which authorises less, 1 retry, 1 failure or lost result |
| `adapter_live` | is every accepted event answered? | 2 events of one thread, an adapter and its successor, 1 failure or lost result, 1 crash |
| `adapter_lost` | finding | 1 lost result |
| `watch` | cursor, order, no history, arrival in the end | 2 entries of one thread, 2 boxes, first start, 1 move, 2 failures |
| `watch_orphan` | two sidecars on one cursor file | 2 entries, 2 boxes, 2 processes, 2 failures |
| `watch_move` | finding | 1 entry, 1 move |
| `supervisor` | is the verdict right, is a sidecar left behind, does everything end? | threshold 8, one disconnect |
| `credentials` | one refresh per expiry, no lock-out | 3 processes, 2 refreshes, 1 cut |

Why these are enough: each property relates at most two events, two adapters or
two boxes, and threads share nothing but the queue's capacity and the walk of a
drain. Each fault variant is found within the same bounds. A window of 1 makes
every second answer an eviction. Two failures of the intake allow one in the
middle of the recovery from another one. Three processes let a third one wait
while two have met the same expired token. A threshold of 8 lets the pause reach its cap
of 60 s. Two mishaps are what it takes to turn a call cut short into a loss. What they do not reach: a drain that
dispatches events of two threads, one after the other.

`NothingPassedBy` and `EventuallyQueued` speak of behaviours in which the thread
has not been moved; with a move they fail, which is what `watch_move` shows.
`NoHistory` holds with moves. `ThreadOrder` holds with one move and one sidecar
(`watch`), and without a move with any number of boxes and sidecars (proved, for
a cursor file that is set up once; section 4, `WatchProofs`). It does not survive more: a move hides the earlier entry, and what brings it back
after the later one is either a second move between three boxes or the older
cursors that an orphan writes. `watch_orphan` therefore has no move.

No run turns deadlock checking off, which also shows that no model gets stuck;
`Delivery` has an explicit step `Over` for the end of the call. Symmetry is
declared in `watch_orphan` only, where entries of one thread and processes are
interchangeable and only invariants are checked.

### Fairness

- `Delivery`: weak fairness of the plugin's own steps. Its timers fire and its
  worker thread runs; nothing is assumed of the sidecar or of HEY, which may hang
  for ever - the deadline ends the attempt.
- `Adapter`: weak fairness of each coroutine, of each session's steps (a handler
  comes to an end; a send does, by `CallEnds` of `Delivery`), of `handle_message`
  coming back to the drain that waits for it, and of the gateway
  letting a connected adapter through. Nothing is assumed of HEY, of the watch, of
  disconnects. `AnsweredWithRestarts` has two premises. The watch of an
  adapter that is up comes up again and again: the supervisor restarts it with a
  bounded delay. And the claim of the event's thread is not left behind for good:
  where it is, no restart of the watch helps, only one of the gateway (known
  exceptions, below). A failed event on an adapter that stays live has no other trigger
  (a hazard in the list), which is why `AnsweredUnlessTrouble` does without the
  premise only as long as nothing fails.
- `Supervisor`: weak fairness of the task, of the stops and of disconnect: the
  event loop runs what can run, and timers fire. Of the sidecar one thing is
  assumed: a process that asyncio has killed in the middle of its start ends. That
  it sends frames, ends or obeys a signal is not assumed. `HopelessIsReported` has
  two premises: the watch leaves its reading state again and again, and from some
  time on it does so before it has lasted 30 s. Without the first one, a sidecar
  that hangs before its ready frame is never noticed; without the second one, the
  counter starts anew each time. Both are hazards in the list.
- `Watch`: weak fairness of the plugin and of each sidecar; HEY answers requests
  or the process dies of it, and deaths are bounded by `MaxFailures`.

### Findings

- `file_dir_sync`: when the fsync of the state directory reports an error,
  `ingest` raises with the new file in place; the replayed event then counts as
  seen, is acknowledged without a sync, and a loss of power can take it back.
- `adapter_lost`: "never retried after an ambiguous outcome" holds for one
  `_send_with_retry` (run `delivery`), but the event stays pending and is answered
  again by the next drain. `AnsweredOnce` says exactly how often.
- `watch_move`: an unacknowledged event is not replayed if its thread is moved to
  a box whose cursor has moved on and the sidecar then restarts.

### Known exceptions

These are named in the properties instead of being runs of their own:

- Windows: when the flush after the rename fails, `replace_state` deletes the state
  file, because `rename_by_handle` has raised before the rename is noted
  (`windows_state.py:96`). All waiting events and the deduplication window are lost.
- Windows: a first start that ends between `mkdir` and `set_private` leaves a
  directory that every later operation refuses (`windows_state.py:44`).
- `disconnect` can be aborted by the `CancelledError` of a reader task that the
  task's own stop has cancelled; lock and registration then stay. `EndIsReported`
  says that this takes a process that outlives its SIGKILL by 5 s.
- A claim can stay for the life of the gateway process, and every later drain then
  skips its thread (`adapter.py:381`), restarts of the watch included. It happens
  when `on_processing_complete` cannot read the queue: `pending()` raises at line
  468, before the loop of lines 469-470 that releases (`FinishFails`). It also
  happens when a disconnect cancels a drain that waits for `handle_message`: line 385
  catches `Exception`, which `CancelledError` is not (`Disconnect`). ARCHITECTURE.md:70
  says that "failures and cancellations release exact work". `ClaimHasWork` names the
  two cases as `t \in kept`; without that disjunct `adapter_handover` has a
  counterexample. The first drain's cancellation, by a gateway that gives up a
  `connect`, would be a third one; the model has no such gateway.
- At a first start of the watch, an orphan of a gateway that died can still be in its
  `initialize` when its successor has finished its own. The orphan's older set-up then
  replaces the successor's, and the successor, which polls from its own, passes by an
  entry that lies between the two. `NothingPassedBy` and `ThreadOrder` are proved of
  behaviours without it (`SetUpOnce`), `NoHistory` of all.

## 4. The proofs

TLAPS checks these for every value of the constants that the modules' named
assumptions allow. Each follows the same path: an inductive invariant, the fact
that the initial states satisfy it and every step preserves it, and the
properties as its consequences.

**`AssignmentQueueProofs`** proves `TypeOK`, `EachEventOnce`, `WindowIsExact`,
`NoneLostNoneOvertaken` and `NoEarlyReacceptance` (what the window means for a
replay; no run checks this one). The window is not inductive as it stands: to
know who is forgotten next one has to know that an event's age *is* its distance
from the end of `completed`, and that the lists have no repetitions. The proof
works with positions in the sequences; lemmas (`SequenceLemmas`) state what
`RemoveAt`, `Append` and `Tail` do to them. Assumption: both bounds are positive.

**`DurableQueueProofs`** proves every safety property of the file, and that it
implements the queue, for any number of threads and events and any bounds. Its
invariants build on each other:

1. `IInv`: a call past `_load` holds the lock with a real content in its hands,
   and nobody is at work on a spoilt file. Calls exclude each other, and
   `DamageIsNeverOverwritten` follows.
2. `PromiseInv`: what a call has read is what is in the file, what it is about to
   put there still has every promised assignment except the one it completes,
   and the durable content is the visible one unless a call stands between its
   replacement and its last sync. Only the holder of the lock can be there, so
   that a call which finds its event in the file (and promises it without
   writing) finds it in the durable content too. `PromisedIsDurable` follows.
3. `ContentInv`: no content repeats an identity, exceeds a limit or leaves a
   waiting event out of `seen`, so that `_load` refuses none
   (`NeverUnreadable`).
4. `Places`, the type invariant and a little more: who is where, and what a place
   allows the lock, the directory and the new content to be.
5. `PlanInv`: every content is answered identities followed by the waiting ones,
   and what a call is about to put in place is `Ingested` or `Completed` of what
   is in place *now*. Without it, `Replace` could be any change. With it, each
   case of `Replace` is `Accept` or `Complete`, or leaves the sequences as they
   are, because what `_trim` leaves of a list without repetitions that is one too
   long is all but its first entry. This is the refinement
   (`ImplementsAssignmentQueue`).

**`AdapterProofs`** proves the safety properties of `Adapter`, five invariants and
`RegistrationLasts`, for any events, threads, instances, allow lists and bounds (the
set of threads is finite: a crash loses at most one result per thread).
`OneSessionPerThread` and `ClaimHasWork` need `WorkInv`. Its parts: a session at work
has the claim of its thread, a message waits only at a session that is about to
leave, and of all adapters one at most has either (`OneAtWork`); an event that a
drain is giving to Hermes has the claim, and no session and no other drain has its
thread (`GivenApart`); a claim left behind stays one, and nobody works on its thread
(`KeptApart`); and a task that is about to begin a drain has none under way
(`TasksFree`), so that no claim is forgotten by the drain that holds it. Without
these a drain could claim a thread that is being worked on, and a claim could lose
its holder. `CompletedWasAnswered` and `AnsweredOnce` need `AnswerInv`, proved
relative to `WorkInv`: claims and the rests of stale lists name events that the
queue knows, the session that is about to complete an event was answered, and
only a session that waits for a result may have one more answer than results
were lost. `WorkInv` is what makes the answers add up: two sessions with one
event would each see the other's. Assumptions: the types of the constants, and that
a thread is not confused with one of the three tasks of an instance.

**`WatchProofs`** proves `TypeOK`, `NoHistory`, `NothingPassedBy` and, without moves,
`ThreadOrder` for any entries, threads, boxes and sidecars. `BaseInv` ties pipe,
plugin and process: what is in the pipe or in the plugin's hands is the oldest entry
of the process that waits for it, and it is acknowledged only when it is persisted.

- `HistoryInv` holds of every behaviour, with moves and with orphans at a first
  start: no cursor, in the file or in a process, lies before the first set-up, and
  nothing found or queued does. A second set-up may be older than the first; the
  history variable `floor` keeps the earlier one. `NoHistory` follows without a
  condition.
- `StayInv`, about threads that stay in their boxes, says of each process, alive or
  orphaned, what its memory may have passed: an entry still owed lies after its
  cursor in every box, or is in its hands wherever its next cursor is later; the
  cursor file alone cannot say that. A second set-up breaks it (known exceptions), so
  that `NothingPassedBy` and `ThreadOrder` are proved of behaviours that satisfy
  `[]SetUpOnce`: once the file is set up, no process has a set-up of its own left to
  write. That is a condition on the behaviour and not on the constants: a first start
  with orphans satisfies it unless two processes are in `initialize` at once.
  `NoOrphanAtSetUp` proves that it holds whenever the file is there from the
  beginning, with any number of sidecars, or one sidecar is all there is.

Assumption: the set of entries is finite (the clock counts them).

**`DeliveryProofs`** proves the four safety properties for any number of retries.
The invariant accounts for every POST: an attempt that may be repeated has left
no request and no mail behind, so that each later attempt starts from zero; and
a positive status means exactly one application.

**`CredentialRefreshProofs`** proves all properties of `CredentialRefresh` for any
number of processes. The invariant says that the token presented is the stored
one (nobody else writes between lock and unlock), that the stored pair is the
newest or the newest one is held by the process inside, as long as nothing was
cut short, and that everyone who wants a refresh has a reason which stays valid.

**`SupervisorProofs`** proves `TypeOK`, `NoneLeftUnkilled`, `EndIsReported` and
`SupervisionFitsHistory` for every threshold. The first two follow from an
invariant about the three waits: which of them can be under way in which state of
the task, that a wait past its first timeout has sent SIGKILL, and that a reader
given up was given up after it. The third has an invariant of its own, that the
counter *is* the length of the streak in the history (`HistoryInv`). Its core is a lemma about
sequences: one more watch extends the streak or starts a new one, also when the
history drops its oldest entry; another one says that a history has one streak. `TypeOK` has a
hypothesis: powers of two are positive numbers, a fact of arithmetic for which
the provers have no rule; the pause is computed with one.

Only model-checked, and why:

- All liveness properties: the prover has no rules for fairness and `ENABLED`.
- `ThreadOrder` with a move: it is not true of every instance (section 3).

The induction theorems of the library cannot be used with these provers. The
proofs do without: loops over lists are modelled by the positions they keep
(`Sublists`), and where a lemma needs an induction it argues with the least
counterexample (`SequenceLemmas`).

## 5. What is not modelled

- Ownership, mode, symlink and ACL checks, schema checks, size limits: what they
  make fail is in the models as an operation that fails before it changes the file.
  What a failing operation leaves undone in its caller is modelled there: a drain or
  a connect that ends (`WalkFails`, `ConnectFails`), a hook that keeps its claim
  (`FinishFails`), an event that is not acknowledged.
- The parent of a state directory that has just been created: the code does not
  sync it (`engine.py:394`), and the model's directory is there or is not.
- A state file that is spoilt while a call holds the lock: `Damage` happens between
  calls.
- A gateway that cancels a `connect` in the middle, and the gateway's own
  cancellation of its background tasks: the base class is not in the repository.
- Lines of the watch that are read after the death of the process that wrote them,
  in `Supervisor` (`Watch` reads frames of dead processes).
- The sidecar's own Windows files and the Windows job object.
- A gateway whose handler of a fatal error disconnects from inside the watch task:
  the handler is not in the repository.
- Boxes that come into being while the watch runs, full syncs, entries that
  become visible late or share a timestamp.
- At the first start, an orphaned sidecar's `initialize` racing its successor's:
  the module has it, and the proof of `NoHistory` covers it; no run does.
- Registration, prompts, texts.

## 6. Plan

Done: the queue and its file on both platforms, delivery, adapter, intake,
supervision, credentials; proofs of the safety properties of the passing runs and of
the refinement of the queue by its file.

Next, in this order:

1. `Assignment`, an abstract specification of one assignment's life (arrived,
   accepted, at work, answered, done), and `EndToEnd`, which composes `Watch` and
   `Adapter` over one queue and implements it.
2. Pure algorithms against reference definitions: the merge of bursts in `poll`,
   the classification of exit statuses.

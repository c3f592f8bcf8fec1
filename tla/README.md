# Postio: verification project

Postio is a local-first mail client.  A command writes the local store at once,
queues the operation the server has to hear about, announces an event and is
done; an engine drains the queue and reads mailboxes back, beside each other,
against a server that other hands may have changed.  Everything hard about it is
in that gap: what was decided locally and not yet acknowledged, what the server
said and is no longer true, and what a crash or a lost answer leaves between.

These modules model that core.  Each definition is translated from the Rust
source; `PROJECT.json` ("map") names the lines.

## The system

| Part | State it keeps | Operations | Talks to |
|---|---|---|---|
| Commands (`postio-session/src/actions.rs`) | none of its own | flag, move, delete, send, cancel, retry, mark as sent, undo | store, queue, events |
| Store (`postio-storage`) | messages, drafts, mailboxes, sync state, sagas, operation queue | one transaction per call | everyone |
| Operation queue (`repository/operations.rs`) | rows: target, operation, inverse, snapshot of the remote id, state, attempts, next attempt | enqueue, pending, done, failed, defer | commands, drainer, sync passes |
| Coalescer (`postio-sync/src/coalesce.rs`) | none | folds a batch of rows to steps | drainer |
| Drainer (`drain.rs`, `retry.rs`) | one pass: the plan, the step, its address | list, fold, resolve, send, adopt, settle | queue, store, IMAP/SMTP |
| Send path (`send.rs`, `repository/drafts.rs`) | the draft's state and its reserved Message-ID | mark, submit, confirm, file and unfile the Sent copy | SMTP, drainer, composer |
| Composer (`postio-widgets/src/composer`, `postio-tui/src/app.rs`) | the fields, their composition's generation, the row's id once known | type, autosave, close, send, discard, resume | draft writer, drafts |
| Draft writer (`postio-host/src/compose.rs`) | the writes handed over, the composition saved last and its row | save, send, discard, in order | composer, drafts |
| Sync passes (`resync.rs`, `initial.rs`, `backfill.rs`) | what was known, what was fetched | fetch, store, reconcile | IMAP, store |
| Watcher, connection (`watch.rs`, `connect.rs`) | backoff, what IDLE last said | connect, idle, poll | engine |
| Engine wave (`postio-runtime/src/engine.rs`, `order.rs`) | mailboxes to sync, lanes, one drain | admit, interrupt, requeue | all of the above |
| Cross-account move (`cross_account.rs`) | the saga's phase | copy, confirm, remove | two accounts' queues |
| Draft copies (`drafts.rs`, `carry.rs`) | the server copy's id | append, replace, discard | IMAP, drafts |
| Connection pool (`imap/pool.rs`) | permits, waiters, parked sessions | acquire, give back, close | IMAP users |
| Bridge, undo (`postio-core`) | event subscriptions; the undo stack | emit, subscribe; record, undo | commands, frontends |
| Frontends, search, classification, AI, calendar, contacts | views and derived data | user interface, parsing | host and client crates |

How they meet: a command and the row it queues are one transaction.  One drain
pass runs at a time per account (the wave holds at most one drain), while several
sync passes run beside it, each storing what it fetched before.  The drainer
reads the store at the start of a step, talks to the server without a
transaction, and marks rows one by one afterwards; the user acts at any moment in
between.  Nothing a pass holds survives the process.

What makes each part correct:

* queue and drainer: every queued row is settled once; what the server ends up
  with is what the user last asked for; a step reaches only its own message;
* coalescer: a folded batch does to the server what its rows would have done;
* message repository: a sync never undoes, hides or doubles what is queued;
* composer and draft writer: one row for each message, with its own words only, every
  edit written to it, and none for a message closed empty;
* send path: one ask puts at most one copy in front of the recipient, a delivery
  is never forgotten, and a message does not sit in the Outbox for ever;
* sync: rows are deleted only when the server no longer has them, and no change
  is skipped by a pass cut short;
* pool: a slot taken is given back on every path;
* saga: the source is removed only after the copy is proven;
* undo: what comes back is what was done.

## Modules

| Module | Models | Used by |
|---|---|---|
| `SendPath` | composer, draft row, Send/SaveDraft queue rows, drain pass, SMTP transaction, Sent copy, confirmation, crash | `MCSendPath`, `SendPathProofs` |
| `SendPathProofs` | theorems about `SendPath` and their proofs | |
| `DraftWriter` | the composer of either frontend, the writer of its drafts, answers that come late, resuming | `DraftWriterProofs`, the runs |
| `Coalesce` | the fold of one target's rows, and what an operation means | `MessageQueue` |
| `MessageQueue` | flag changes and moves: local write, queue, drain pass, server, sync passes beside it, crash | `MCMessageQueue` |
| `ConnectionPool` | the bounded pool of IMAP sessions: slots, waiters, parked sessions, timeouts, dropped futures, close | the runs |
| `Slots` | what the pool promises: each lane is a counting semaphore | `ConnectionPool` (`INSTANCE`) |
| `ConnectionPoolProofs` | theorems about `ConnectionPool` and their proofs | |
| `CrossAccountMove` | the saga of a move to another account: commands, undo, two drainers, a sync, crash | the runs |
| `Resync` | a sync pass of one mailbox: select, enumerate, change feed, reconciliation, sweep, what is recorded, beside the server, the user and the drainer | the runs |
| `EngineWave` | the engine's loop, the wave with its lanes, the watcher, the link | the runs |
| `DraftWriterProofs`, `CrossAccountMoveProofs`, `ResyncProofs`, `EngineWaveProofs` | theorems about the module of the name and their proofs | |
| `MessageQueueProofs` | theorems about `Coalesce` and about `MessageQueue` | |
| `NumberLemmas` | lemmas: the least and the greatest of a set of numbers, induction up to a number, the ranks of a finite set | the other proof modules |
| `MC*` | the state constraint of the bounded instances | the runs |

### SendPath

One action is one store transaction or one network exchange.  A draft is its row
(`draft`, `msgid`), and the composer holds a *value* of it (`composer`) that it
saves whole: its state and the Message-ID it was given.  What is written in the
message is `DraftWriter`'s and is left out here.  The pass is `pc`, `batch`, `job` and `outcome`; `pc` walks
through `send::submit` and `Drainer::settle`.

| Code | Actions |
|---|---|
| composer: open, close, save, send | `Compose` `Open` `Close` `Save` `ComposerSend` |
| `retry_send`, `cancel_send`, `mark_sent`, `discard` | `RetrySend` `Cancel` `MarkSent` `Discard` |
| `Drainer::drain`: orphan sweep, listing, end | `HealOrphans` `ListDue` `EndPass` |
| `send::resolve` | `ResolveSettled` (nothing to send, uncertain, impossible) `ResolveReady` |
| `send::submit` and what it calls | `FileSentLocally` `OpenSession` `MarkSending` `BeginPayload` `MarkUnconfirmed` `Release` `MarkAccepted` `ConfirmSentCopy` `DropDraft` `UnfileSentCopy` |
| the server's answer to the payload | `Accepted` `Refused` `Garbled` (does not parse) `Lost` |
| `Drainer::settle`, `fail` | `SettleDone` `SettleMissing` `SettleDeferred` `SettleFailed` `FailDraft` |
| a sync of Sent, `confirm_unconfirmed` | `SyncSentCopy` `ConfirmUnconfirmed` |
| the clock, a `?` error ending the pass, process death | `BackoffElapses` `PassError` `Crash` |

`overwritten`, `restated` and `garbled` are history.  They name the drafts a composer
wrote over while they were past the commit point, those it gave a mark their row did
not have, and those whose payload was answered by a reply that does not parse; they
occur in properties only.

Abstractions.  A Message-ID is the number of the ask that reserved it.  Best-effort writes may fail (`Mark`, under `StoreFails`).
Adjacent SaveDraft rows run one by one although the code folds them.  `resolve`
and its Unconfirmed promotion are one step, as are the read and the write of
`retry_send` and `mark_sent`.  The upload of a draft is reduced to the queue row
it occupies, because `cancel_send` reads that queue.  Not modelled: building the
message, a blob missing for one attachment, `mark_in_flight` and
`requeue_in_flight` (which nothing outside tests calls).  The SMTP server and the
clock are external: the server answers as it likes, and accepts what it accepts.

### DraftWriter

The composer never waits for the store.  `composer` is what it holds: open or not, the
generation of the composition in the fields and of the one before the last fill, the
row's id if it has heard of it, the words, and whether the autosave timer is armed.
`queue` is what it handed over, `current` the one composition the writer remembers and
its row, `answers` what a save came to and the composer has not heard.  `last` is the
desktop's `last_id`, which outlives the fields.  The two frontends differ in what they
hand over and when, and `frontend` says which one runs.

| Code | Actions |
|---|---|
| `Composer::open`, `schedule_autosave`, the report that comes after the close | `Open` `Type` `Erase` `LateReport` |
| the quiet period; ctrl+s | `Autosave` `SaveNow` |
| `Composer::close` and `close_composer`, with words and without | `CloseKept` `CloseEmpty` |
| `Composer::discard` (desktop) | `Discard` |
| `hand_off` and the send handler; `App`'s send | `Send` |
| `draft_behind`, `cancel_queued_send`, `Composer::resume` and `App::compose` | `ResumeRead` `ResumeCancel` `ResumeOpen` |
| `DraftWriter::spawn`'s task | `WriterSave` `WriterSend` `WriterDiscard` |
| the answer to a save: `adopt_id`, `last_id`, `DraftSaved` | `Answered` |
| the drainer deletes the row it sent (in steps: `SendPath`) | `Drained` |

Abstractions.  Words are a stamp in the order they were typed, and carry the *document*
they belong to: the composition that began the message, however often it is resumed
under a new generation.  Recipients, subject, attachments and account are part of the
words.  A row is its document, words and state.  Replies and forwards begin like any
other composition.  A write that fails leaves the row as it was.  Nothing here is
about a crash: what is in the fields or handed over is then lost, by design.

The desktop's `fill` ends in a refresh, which arms the autosave: a draft that is opened
and not touched is written back as it was read.  `flush_autosave` inside `shut` finds a
new composition in the fields, empty and without a row, and hands nothing over.

`latest`, `landed`, `excused`, `emptied` and `sent` are history and occur in properties
only.

### MessageQueue and Coalesce

`server` has one copy of each message: mailbox, UID, flags.  `local` has numbered
rows of a message, because a sync that cannot place a copy inserts a row; a row is
its mailbox, remote id (mailbox generation and UID; none after a local move) and
flags.  `queue` is the table.  A pass is `plan`, `folded`, `step`, `address`,
`outcome`.  `wish` is what the user last asked for.

| Code | Actions |
|---|---|
| `set_flag_rows` + `actions::set_flag` | `ChangeFlag` |
| `relocate_rows` + `actions::relocate` | `Relocate`; undo is the inverse command, so it is this too |
| `drain`: listing and `coalesce`, marking cancelled rows, end | `StartPass` `SettleFolded` `EndPass` |
| `resolve` | `Resolve` |
| `wire_set`, `store_flags`, `move_messages` | `RefuseStale` `Store` `Move` `Unserved` `ReplyLost` |
| `move_and_adopt` | `Adopt` |
| `settle` | `SettleRow`, one row a step |
| a sync pass: fetch, `upsert_batch`, `reconcile_vanished` | `SyncFetch` `SyncStore` `SyncReconcile` |
| the clock, a `?` error, process death | `BackoffElapses` `PassError` `Crash` |

Abstractions.  No other client changes the server.  A sync pass reads its whole
mailbox; the change feed (MODSEQ, UIDNEXT, EXISTS) is `Resync`, and the
reconciliation's count here is the number of known ids missing from the fetch.
MOVE is atomic (the copy-store-expunge of a server without it is left out), and
adopting is one write; its failure is the branch without COPYUID.  Mailboxes keep
their UIDVALIDITY and have different ones.  Every message has a Message-ID.
Expunge, Purge and Append rows are left out.

`astray` and `doubled` collect the messages `SettledAgrees` says nothing about.  Each
way into `astray` is an event the code itself reports or a hazard listed in `PROJECT.json`:

* a step that failed, was refused as stale or found nothing;
* a delete followed by a move out of the trash elsewhere, which the fold gets wrong;
* a row that ran before an earlier one of its message, which was backed off: the
  queue keeps the order only among the rows that are due;
* a lost reply, after which the next command may cancel against an effect that
  has already happened;
* rows a pass had decided about when it died: set, clear, set again, with the
  first two cancelling and only one of them marked, loses the last;
* a fetch stored after the server moved on.

`doubled` has the messages a sync gave a row beside one in use, shown or still asked
something of (what the second of two moves made while the first is in flight leads to,
see below): the user may then have asked different things of the two rows, and the
server follows whichever was queued last.

Each was found by TLC as a counterexample to `SettledAgrees` without that excuse.  The
rows a dying pass had decided about take six queue rows, more than `Queue` has: the proof asked for it, and TLC
with larger bounds then showed it.

### ConnectionPool and Slots

`permits`, `parked` and `queue` are the two lanes; `pc` walks each caller through
`acquire_lane` and `run_on`.  A queued sender is its ticket (caller, lane, priority,
number), and stays queued after its receiver is gone: `Listening` says whether
sending on it succeeds.  A session is `clean`, or `midway` through an exchange.

| Code | Actions |
|---|---|
| `acquire_lane`: `next_ticket`, `take_permit` | `Ask` |
| `release_permit` | `Release`, part of every action that gives a slot up |
| the wait: timer, receiver dropped, `cancel`; closed underneath | `Elapse` `DropReceiver` `GiveUp` `WaitRefused` |
| with the slot: closed, `take_parked`, `open` | `UseSlot` `OpenFails` `OpenSucceeds` |
| `run_on` and what the operation came to | `Run` `Finish` (answered in full) `Fail` (transient) |
| `connect`, which acquires and returns | `Probe` |
| `PooledSession::drop`, `give_back` | `GiveBack`, part of `Probe`, `Finish`, `Fail`, `DropFuture` |
| a caller's future dropped at an await | `DropFuture`, where `DropPoints` allows |
| `drop_idle`, `close` | `DropIdle` `Close` |

`Slots` has free slots and their owners, and three steps: take, return, hand over.
`ConnectionPool` implements it with `Owners` and `FreeSlots`.  Once the pool is
closed nobody is admitted and the count of free slots is not read again, so
`FreeSlots` is then what the owners leave over: a wait whose timer runs out across
the close takes its missing ticket for a slot and leaves the count one too high,
which harms nothing.

Abstractions.  Clocks are nondeterministic: a wait may time out whenever no slot was
sent, and the newest parked session is fresh or not (if not, nor are those below it,
parked earlier).  `opened`, `capabilities` and the credential retry inside an open
are left out.  An acquired session is returned at once (`connect`) or runs one
operation (`execute`, `watch`); nothing else in `src/` holds one.

`TimeoutGap` is about threads.  A wait that times out drops its receiver and then
takes the lock to cancel its ticket.  With `TimeoutGap` FALSE nobody runs between
those two; a slot may still be sent between the timer's last look at the receiver
and its drop, which is the case the code's comment is about.  The engine polls an
account's work on one thread, where neither happens; the pool is written, and tested
(`tests/account_suite/imap_pool.rs:100`), for several.

### CrossAccountMove

One message, a mailbox in each account.  `copies` is every copy the servers ever
had, `rows` the local rows, `sagas` the table of moves, `queue` the rows of both
accounts' queues, `pass` what each account's drainer is doing, `stack` the undo
stack and `undo` an undo between its reading of the sagas and its transaction.

| Code | Actions |
|---|---|
| `cross_account_relocate`; any other undoable command | `Move` `OtherCommand` |
| undo: `for_sources`, then one transaction (`cancel_one`, `invert_one`) | `StartUndo` `RefuseUndo` `BeginUndo` `UndoOne` (`CancelOne` `InvertOne` `AbandonOne` `SkipOne`) `CommitUndo` |
| `copy`: read, search, append, prove, confirm | `CopyBegin` `CopySearch` `CopyAppend` `CopyProve` `Confirm` `RecordUid` |
| `remove`: wait or name the copy, mark, expunge, finish | `RemoveBegin` `RemoveMark` `RemoveExpunge` `RemoveFinish` |
| the pass: listing, settling | `ListDue` `SettleRow` `SettleMissing` |
| a sync of either mailbox; the mailbox goes; process death | `SyncVanished` `SyncAdopts` `FolderRemoved` `Crash` |

Abstractions.  A transition's read and write are one step.  A row's UID and its
remote id are one.  Rows a sync would insert for copies no row awaits are not
modelled.  A mailbox that holds a copy, and the one the message started in, are not
removed.  Backoff is `ListDue` choosing which of the rows tried before are due.  An
undo's transaction excludes every other step, as the store's one writer does.
`Patient` is the user who lets a move settle before the next one.

### Resync

`srv` is the mailbox at the server (generation, next UID, highest MODSEQ, messages),
`told` the generation the process last heard, `past` the mailbox a selection made before
a renumbering still shows, `state` the sync-state row, `rows` the local rows with a UID, `leaving` the queued moves out, and `pass` the pass: its plan,
what its SELECT said, what it knew, what it has fetched.

| Code | Actions |
|---|---|
| `resync_mailbox`: select and `SyncState::plan`; refused; rebuild | `Select` `SelectRefused` `Distrust` `Rebuild` `Wipe` `ObserveFirst` |
| `initial::enumerate` | `EnumSelect` `EnumList` `EnumFetch` `Store` `EnumEnd` `ObserveLast` |
| `incremental`: change feed, `unaccounted_arrivals`, the count | `FetchChanges` `FetchArrivals` `Store` `Count` |
| `reconcile_vanished`: the presence check, by listing or by fetch | `Relist` `ReconcileListed` `ReconcileFetched` (`DeleteAllBut`) |
| `flag_sweep` | `SweepSkipped` `SweepRead` `SweepWrite` |
| `observe`, `record_flag_pass`, `still_short_of_exists` | `Record` `Excess` `Short` |
| the user's move, the drainer | `MoveAway` `DrainMove` `DrainSettle` |
| other clients and the server's owner; a pass cut short | `Arrive` `Reflag` `Expunge` `Renumber` `Restore` `Cut` |

Abstractions.  A batch is one UID.  A sweep's units are one write, and the wipe and a
reconciliation's deletion one step with their reading.  A listing is complete or
absent.  Flags are one Boolean.  The commands of a pass go through `ensure_selected`
(`selection.rs:225`), which asks the server again only when the selection is no longer
fresh: a command of a mailbox that was renumbered is either refused (`Refused`, the
selection is made anew and contradicts `told`) or answered from `past` (`Seen`), and which
of the two is open.  Only `Select`, `Rebuild` and `EnumSelect` always select.  Queue operations other than moves out, the
merge of pending flags (`MessageQueue`), refused drafts, filing, threading and
contacts are left out.  One pass of a mailbox at a time, which `EngineWave` shows the
engine to keep for every mailbox but INBOX.  `Restore` happens only when a MODSEQ
ahead of it is on record: of any other restore a client sees nothing.

`quiet` says that the mailbox has not changed since the pass selected it, and occurs
only in `OnlyGoneDeleted`.  `ahead` says that counters were recorded over rows the pass did
not read, or was cut before reading, and occurs only in `Converges`.

### EngineWave

`mail` and `have` are versions of each mailbox: what the server has and what a pass
last read.  `pc` walks the loop: waiting, noticing the link, waves, filling lanes,
running, attending, watching.  `wave` holds the locals of `sync_wave`, `look` the step
the watcher handed out.

| Code | Actions |
|---|---|
| the loop's `select!`: a job, the link's retry, the tick | `TakeJob` `Reconnect` `Tick` `TickFindsLinkDead` |
| `handle_link_transition` and the drain before the waves | `CameUp` `LinkAsItWas` |
| waves, the job one handed back, bodies, the turn to watching | `BeginWave` `ServeHandedBack` `AfterWaves` |
| `sync_wave`: `next_to_sync`, the lanes | `FillWithInbox` `Fill` `Filled` |
| a pass: reads, ends | `PassReads` `PassFinishes` `PassInterrupted` `PassFails` |
| `attend`, bodies, the drain beside the lanes | `AttendAfterPass` `Attend` `ClaimBodies` `BodiesSettle` `DrainSettles` |
| the inbox's watch in a wave; the wave's end | `Look` `LookReturns` `LookFails` `EndWave` |
| `keep_watch` | `Watch` `WatchReturns` `WatchNothing` |
| mail, jobs, operations, the retry clock | `Arrive` `SendJob` `QueueOperation` `RetryFallsDue` |

Abstractions.  What a pass does is `Resync`; here it reads a version and settles.  A
job is a mailbox's sync or a body; served outside a wave it is one step.  Clocks are
nondeterministic: whether a mailbox is due, or verified an interval ago, is decided
when the step is handed out.  Body requests and a batch of bodies are one Boolean, the
pump outside a wave is one step, and a paused or metered backfill is a claim that need
not happen.  The store's own connections and `start_watching` do not fail.  Suspend,
resume, a manual wake, a blocked link, a renumbering found while fetching a body, and
the process restarting are left out.

`wave.twice`, `owed`, `overlooked` and `unanswered` are history: they occur in
properties only.

## Runs

| Run | Properties | Instance | Size |
|---|---|---|---|
| `SendSafety` | `TypeOK` `AtMostOnce` `DeliveredIsRemembered` `OnWireIsSending` | 1 draft, 2 rows, 2 attempts, 1 fault, store writes fail | 6.5 M states |
| `SendLiveness` | `QueuedSettles` `UnfileKeepsSent` | 1 draft, 2 rows, a Drafts mailbox, 2 attempts, 1 fault | 1.3 M |
| `DraftWriter` | `TypeOK` `OneRowEach` `WordsStayApart` `WordsAreWritten` `EmptiedIsGone` `SentStays` `DiscardsItsOwn` | both frontends, 3 compositions, 2 changes typed, 3 writes handed over, 1 fault | 4.1 M |
| `Queue` | `TypeOK` `SettledAgrees` `PendingFlagsShow` `RowsSettle` `TouchesItsMessage` | 2 messages, one of which rests, 3 mailboxes, 2 rows, 2 local copies, 1 sync lane, 2 attempts, 1 fault | 665 k |
| `PoolSlots` | `TypeOK` `NoIdleSlot` `ConnectionsBounded` `ParkedIsClean` `ClosedParksNothing` `ServedInOrder` `IsSemaphore` `WaitEnds` | 3 callers, 1 general and 1 watch slot, 4 acquisitions | 247 k |
| `CrossMove` | `TypeOK` `NeverLost` `OneCopyEach` `IdentityIsOwn` `DoneIsRemoved` `ComesToRest` | 2 accounts, 1 move and its undo, UIDPLUS on both or neither, 2 attempts, 1 crash | 472 k |
| `Resync` | `TypeOK` `OnlyGoneDeleted` `Converges` `CatchesUp` | 1 message at first, 2 changes by others, 1 move, 2 generations, 1 pass cut short, 1 lost line, four kinds of server | 936 k |
| `EngineWave` | `TypeOK` `InboxAlone` `ReadInTheEnd` `ServedInTheEnd` | 2 mailboxes, 2 lanes, with and without IDLE, 2 events of mail, jobs, operations and faults, 1 of them mail at most | 613 k |

One run each of `SendPath`, `CrossAccountMove`, `Resync` and `DraftWriter` shows a
sentence of the documentation that the code does not keep; see "Disagreements".

Why the bounds are enough.  A second row is what a retry, a second ask or a cancel
that races an ask needs; two attempts distinguish a deferred step from an exhausted
one; one crash can fall between any two steps, a second one only repeats it.
`DraftWriter` has a composition whose writes are on their way, the one that took the
fields from it and a third that a fill in between or a resume needs; two changes are
words and newer words; three writes are a save, a send and the discard behind it.  Two
queue rows fold into one or to nothing, overtake each other and race a third party, and
three mailboxes are the fewest in which a chain of moves has an end that is neither its
start nor its middle; what takes more rows is left to the theorems, which are for any
number of them.  Two local copies let a sync insert a duplicate.  The second message of
`Queue` lies in the archive, where its UID is the one the first message has in INBOX.
`SendPath` runs with one draft: two drafts share nothing but the order of the queue.
`SettledAgrees` and `PendingFlagsShow` were also run once with one message, three rows and
two lanes (4.3 M states, same result), and `Converges` once with three events and nothing
moved or lost (300 k).
`PoolSlots` has a holder, a waiter
and a third that is dropped, times out or overtakes, and a fourth acquisition for
whoever asks again behind a sender that is gone.
One move and its undo are two sagas and four queue rows, with the second saga's
copy racing what is left of the first; a second command before the first has
settled is `BugNeverLost`.  In `Resync` two changes are the fewest that cancel in a
count (an arrival and an expunge between the select and the reading of the rows),
the moved message is a third, and `SweepEvery` 2 has passes that sweep and passes
that do not.  `EngineWave` needs a second mailbox to be kept waiting and a second
lane to start it on; two events are a change and a fault, or a job and an
operation, in either order and at any step.
Deadlock is not checked: with every ask made and every row settled the system rests.

Constraints.  `SendSafety` does not search past a composer that wrote over a
committed row (`overwritten`): the properties excuse those states.  `Queue` lets nothing
happen to the message that rests.

Fairness.  `WF(DrainerStep)`: the engine's loop keeps draining while it lives
(`engine.rs`, `run_drain` from the tick, the wave and `attend`), and a step has one
successor or a server's choice.  `WF(BackoffElapses)` per row: time passes.  The
user, the server's choice of answer, the sync passes and faults have none; faults
are bounded.  Under this every queued message leaves the Outbox and every row is
settled, because an attempt counts, an exhausted row fails, and the orphan sweep at
the start of a pass catches a Queued draft with no row left.

In `CrossMove` the fairness is `WF(DrainerStep(a))` per account and
`WF(UndoOne \/ CommitUndo)`: a transaction that has begun ends.  In `Resync` it is
`WF(PassStep)` and `WF(DrainStep)`: the engine passes over a mailbox again and again,
which `EngineWave` is about, and drains its queue.  In `EngineWave` it is weak on the
loop, on each mailbox's passes and on what runs beside them, since a polled future
ends and every exchange has a timeout; `SF(TakeJob \/ Reconnect)`, because `select!`
takes a ready arm at random; and `SF(Watch(f, "status"))` per mailbox, because a poll
interval is minutes and a look one round trip, so that a mailbox that may be looked
at again and again does fall due while no other look holds the loop.  The last is
conditional as it stands in the code: with IDLE the inbox always has a step, and
then it asks nothing of the other mailboxes (see "Disagreements").

In `PoolSlots` the fairness is `WF(CallerStep)` per caller: an operation ends,
because every command has a timeout on silence and IDLE a window, and a future that
was woken is polled.  Asking, timing out, being dropped, `drop_idle` and `close`
have none.  `WaitEnds` is claimed for interactive work only: background work waits
as long as interactive work keeps coming, and has its timeout (`pool.rs:11`).

## What the runs show

* *At most once.*  Crashes anywhere, lost sessions, refused transactions, failed
  marks, cancels and retries never put two copies of one ask in front of the
  recipient, provided the server's replies parse and no composer overwrites a
  committed row.  Both provisos are needed: see below.
* *A delivery is remembered.*  Neither the retry limit nor the orphan sweep calls
  a delivered message failed or queues it again.
* *The Sent copy of an earlier attempt survives* the clean-up of a later one.
* *A composition is one draft.*  However saves, sends and discards are handed over
  before the first of them is answered, each message has one row, which never holds
  another's words, and every edit comes to be written there; nothing is left of a message
  closed empty; and the close behind a send deletes nothing.  That a row *keeps* the newest
  words is not so: see `BugKeptWordsLost`.
* *Convergence.*  With nothing queued for a message, the server has it where the
  user last put it and with the flags last given, whatever was folded, acted on in
  flight, adopted, deferred or synced, except in the cases `astray` and `doubled` list.
  Proved for any number of rows, passes and faults.
* *Pending flags show.*  A stale fetch never paints over a queued flag change.
* *No step touches another message*, although ids of two mailboxes may coincide:
  the generation check in `wire_set` is what carries it.
* *The pool loses no slot*, hands them out in order and never to nobody, parks only
  sessions that finished what they were doing, nothing once closed, and never has
  more sockets than it may: provided no future is dropped while a connection is
  being opened or between being woken and resuming.  See below.
* *A move between accounts loses nothing and doubles nothing findable*, comes to
  rest, and calls itself done only after the removal: for one move and its undo at
  any moment.  For a move back before the first has settled it does not hold.
* *No pass deletes a row of a message the server holds*, whatever changes between
  the counts it subtracts, unless a response line is lost at the same time; and the
  passes end in step with the server.  They may not where every counter it reports says
  that they are, and one of three things has happened: counters were recorded over rows
  left unread (`BugStateAhead`, and a shortfall's own select), a line was lost that nobody
  counts, or a message moved away came back as a row on an incomplete change feed.
* *INBOX has the lanes to itself*, except from a look that doubles its pass; every
  mailbox is read in the end, except for a change a stopping wave or a failed pass
  has seen; and every job and operation is served.

### Disagreements

Each is a run that TLC must find violated; `PROJECT.json` ("findings") quotes the
sentence.

| Run | What happens |
|---|---|
| `BugNeverResubmitted` | a composer opened before the mark and saved after it puts a submitted draft back; it is submitted again |
| `BugNeverLost` | moved to another account and straight back: each removal takes the copy that was the other's proof |
| `BugStateAhead` | a full pass after MODSEQ went backwards is cut once its own SELECT was recorded (`initial.rs:325`); the next pass is up to date over flags nobody read |
| `BugKeptWordsLost` | a draft is saved and closed, a blank message opened and closed: the blank one's discard carries the kept draft's id.  With `MaxGen` 2 the same property fails otherwise: a resume holds words read before the last save, its fill arms the autosave, and that writes them back |

Met and not kept as runs, on the way to a module's final properties:

* with an upload queued too, a cancel deletes the upload's row and the send goes
  out (`drafts.rs:504`);
* the Sent row the drainer filed itself confirms an unconfirmed send;
* Delete then Move out of the trash to a third mailbox folds to a move of a message
  the trash does not hold;
* flag change, move, undo: the cancelled pair is marked first and the flag change is
  dropped as never uploaded;
* a future dropped while its connection is being opened takes the slot with it
  (`pool.rs:530`);
* with IDLE, the inbox's push always has a step to hand out (`watch.rs:403`, `:454` leave
  it due at once), so no other mailbox is ever polled after the first sync, until the link
  comes up again or somebody asks; `watch.rs:1` says "`IDLE` on one mailbox, interval
  polling on the rest", and `engine.rs:1710` "if it has nothing due the shared connection
  can do a round" (`Wanted` asks of such a mailbox only what was there when the link last
  came up; that a change to it is read in the end, TLC refutes at once);
* a change seen by a look that a stopping wave drops, or by a pass that then fails, is
  remembered as seen (`watch.rs:431`) and not read until something else happens there
  (`overlooked`);
* a copy confirmed and the process dead before the row learns its UID
  (`cross_account.rs:277`): an undo's removal has no id to remove and the saga is Done with
  the copy still there (`IdentityIsOwn` and `DoneIsRemoved` leave `NoUid` out);
* a message the user archived settles while a pass is under way: the pass is short of
  the EXISTS it selected with, the shortfall's own select records a higher MODSEQ
  (`initial.rs:325`) and reads only what is missing, and a flag change made in
  between is never fetched (`postio-model/src/sync.rs:29`);
* a reply to the payload that does not parse counts as a refusal that proves
  nothing was submitted (`postio-smtp/src/error.rs:189`, `:223`), although the
  server may have taken the message: `garbled` names those drafts, and `AtMostOnce`,
  `DeliveredIsRemembered` and `UnfileKeepsSent` except them;
* a composer opened on an Unconfirmed draft, kept open while a retry marks, is refused
  and takes the mark off, and saved then, gives the row a mark that nothing on the wire
  stands for: the next attempt's clean-up takes the Sent row of the first (five rows;
  `restated` excepts it from `UnfileKeepsSent`);
* an unconfirmed draft, opened and edited, keeps its Message-ID and goes out under
  the first text's (ADR 0021:239);
* with `TimeoutGap` TRUE and one connection, `ConnectionsBounded` fails: another
  thread releases a slot after the receiver is dropped, skips the dead sender and
  puts the slot back; `cancel` then finds no ticket and `release_permit` adds a
  second one (`pool.rs:3` "the bound is respected under concurrent load").  The
  engine has one thread, where this cannot happen.

And, about the send path: a cancel accepted while a step resolves lands on a row
whose transaction then opens; Unconfirmed, sent again and refused is Failed under
an id the server accepted; a send given up after its retries leaves Sent copies;
discarding a draft linked to its Sent copy removes that copy; a draft marked
Sending whose row was cancelled is never promoted, because only a Send row is
resolved; a second move made while the first is in flight has no snapshot, is
dropped, and the next sync inserts a second row (`doubled`).

About the composer: the desktop's `last_id` outlives a composition that was kept
(`BugKeptWordsLost`), which is why `DiscardsItsOwn` is stated of the terminal;
`Composer::discard` fills twice, so the discard names a generation in between, and the row
that a save not yet answered makes stays (`compose.rs:182` says a discard takes every save
before it along; `EmptiedIsGone` is about a close);
a resume reads the row beside the writer, so that a save still queued shows its
old words, which are then written over the newer ones, in the terminal by the next save and
on the desktop by the autosave its fill arms; in the terminal a draft
that opens over another replaces it unsaved, and the words are lost; the terminal
compares with nothing when it closes, so that an untouched reply is kept; ctrl+d there
closes and keeps, where `docs/keybindings.md:103` says discard; and a send that fails,
of words no autosave had written, loses them (`compose.rs`: "Losing the send is
recoverable, losing the message is not").

About the saga: without UIDPLUS, or after an expunge that failed, an undo's search
finds the original still marked `\Deleted`, takes it as proof and marks the other copy
too, so that only marked copies remain; `remove` "waits however many times" it is asked
(`cross_account.rs`), but its attempts run out and leave a hidden duplicate; once the
saga is done and a sync has deleted the hidden source row, undo finds no saga, replays
an empty inverse and reports success; a finished saga stays Done after its undo, so an
older entry inverts it again; an undo that acts on a phase that has moved on deletes
the only visible row and shows one with no copy behind it; a cancel while the upload is
in flight leaves a copy no row stands for; and `transition` reads and then writes
without a condition, so that it can write over an abandoned saga.

About a pass: `existing_uids` (`initial.rs:589`) swallows a refusal after the new
generation was adopted, and rows of the new generation are then stored under the old
select (`selection.rs:40` "A contradiction is reported, never absorbed"), and rows of the
generation before stay beside them (`ahead`); the select of `enumerate` records the MODSEQ
that `resync.rs:388` says is to be recorded last (`BugStateAhead`); a rebuild records before it re-reads; a server without MODSEQ never has its vanished rows
deleted; `known.len() - exists` (`resync.rs:571`) wraps when rows left in between; a
queue row that failed for good keeps a shortfall from being repaired.

About the wave: a look puts INBOX back in front while its pass runs, and the first
branch of `next_to_sync` does not ask whether it does, so two passes run, the end of
the first takes INBOX off the active list, and others start beside the second; a
mailbox interrupted after being admitted twice is queued twice; a look that comes back
changed while the wave is stopping is dropped with its signature recorded, and so is
the change a failed pass was for, until something else happens there; a look admits
INBOX beyond the lanes; and a link that drops during a wave and is up again before the
loop looks was never noticed, so nothing is discovered or queued for it.

## What is proved

`SendPathProofs`, for every set of drafts, every bound and every setting of the
flags, from the assumptions on the constants (positive `MaxAttempts`, natural bounds,
Boolean flags):

| Theorem | Statement |
|---|---|
| `TypeCorrect` | `Spec => []TypeOK` |
| `MarkAheadOfWire` | `Spec => []OnWireIsSending` |
| `DeliveryRemembered` | `Spec => []DeliveredIsRemembered` |
| `AtMostOnceSubmission` | `Spec => []AtMostOnce` |
| `UnfileLeavesSent` | where the store keeps what it is given (`~StoreFails`), `Spec => UnfileKeepsSent` |

The argument.  `TypeOK` is not inductive: a Message-ID is the number of the ask
that reserved it, and only the queue bounds the asks, so `TypeInv` adds
`MintedWithRows`.  The safety theorems share one inductive invariant, `SendInv`:
`TypeInv`, the mark on the row while the payload may be out (`OnWireIsSending`),
and, for drafts whose replies parsed, two facts about the step in progress.  Until
the payload is accepted, the draft the pass carries has no delivery
(`AttemptUndelivered`: resolve saw an uncommitted row, and only `Accepted` and
`Lost` deliver); and a step that came to Failed has none either
(`GivenUpUndelivered`), which is what lets `FailDraft` write Failed.  Delivery and
the mark then move together, and a second delivery needs an uncommitted row, which
`DeliveredIsRemembered` rules out.  `SendInv` was checked by TLC on the instance of
`SendSafety` first.  The proof has one lemma per group of actions (user, start of a
pass, start of a step, submission, settling, world) under `SendStep`.

`UnfileLeavesSent` is about two attempts, and `FilingInv` adds to `SendInv` what the
later one may take back.  `StepMark`: before the step has marked its row, or after it
took the mark off, the draft is not past the commit point.  `HeldRow`: until the step
gives its Sent row up, that row is there.  `TakenRow`: a message the server took has a
Sent row, and one *more* while a step holds one under the same Message-ID, so that
taking one back leaves one; except of a draft that is already Sent, which no step
carries.  `LinkedIsSent`: only such a draft is linked to its copy, so that no save turns
the row of any other into a draft's.  All of it is of drafts that are `Live`: neither discarded nor
written to by a composer that did not know their state.

`DraftWriterProofs`, for both frontends and any number of compositions, changes, writes
on their way and faults:

| Theorem | Statement |
|---|---|
| `TypeCorrect` | `Spec => []TypeOK` |
| `OneRowOfEach` | `Spec => []OneRowEach` |
| `RowsHoldTheirOwn` | `Spec => []WordsStayApart` |
| `EveryWordIsWritten` | `Spec => []WordsAreWritten` |
| `EmptyLeavesNothing` | `Spec => []EmptiedIsGone` |
| `SendIsNotUndone` | `Spec => SentStays` |
| `DiscardIsItsOwn` | `Spec => DiscardsItsOwn` |

The argument.  All seven share one inductive invariant, `Inv`.  Its parts: generations
never decrease along the queue and never run ahead of the fields (`Bounds`, `InOrder`);
a discard ends its composition and so does a send, but for the discard behind it
(`Ended`); a composition is of one document (`SameDoc`); every id that is held anywhere,
in a write, the fields, an answer, a resume or `current`, is of a row of the document it
will be used for (`OwnRows`); what goes without an id is of a document its own
composition began, whose row the writer remembers for as long as a write of it may come
(`Unsaved`, with `Known`): this is what makes one remembered composition enough.
`AfterSend` says that the discard behind a send carries no id and finds its composition
forgotten; `HandedOver` that the last words wait under the timer, are on their way, or
have been in the row; `Emptying` that a discard is aimed at every row of a message
closed empty, and stands behind every save that would make one.  The proof does not go
action by action.  The eleven steps of the user and the frontend are all of one kind
(`Handed`: at most two writes of what is in the fields are handed over, and the fields
stay with their composition, are refilled, or take a row that opens), and so are the
writer's three (`Moved`: the first write is taken, at most one row is made, `current` is
learnt or forgotten) and the four steps beside the queue (`Beside`); each part of `Inv`
is shown to survive each kind once.

`ConnectionPoolProofs`, for every finite set of callers, every `max_connections` and
every bound:

| Theorem | Statement |
|---|---|
| `TypeCorrect` | `Spec => []TypeOK` |
| `WaitersServedInOrder` | `Spec => ServedInOrder` |
| `NoLostWakeUp` | `Spec => []NoIdleSlot` |
| `OnlyCleanParked` | `Spec => []ParkedIsClean` |
| `ClosedHoldsNothing` | `Spec => []ClosedParksNothing` |
| `PoolIsSemaphore` | `Careful` implies `Spec => IsSemaphore` |
| `BoundRespected` | `Careful` implies `Spec => []ConnectionsBounded` |

The first five hold with futures dropped at every await and with the timeout race;
the last two assume `Careful`: `TimeoutGap` FALSE and nothing dropped while opening
or just granted, which is what the notes on the dropped future and on `TimeoutGap`
above are about.

The argument.  `NoIdleSlot` is inductive with the types: a slot is put back only when
no sender of the lane is listening, and nobody starts to listen while one is free.
`WaitersServedInOrder` follows from it step by step: a newcomer that finds a free slot
finds nobody listening, and a slot passed on goes to the first of those who listen in
the queue's order, whoever has left it meanwhile.
The parking properties need to know that a session `midway` is condemned
(`MidwayIsCondemned`).  The refinement rests on `SlotInv`: the types; `QueueInv`
(queued tickets are numbered up to `tickets`, so a new one is new; who owns a slot is
not queued; while the pool is open who waits is); and `SlotsCounted`, free slots plus
owners make the lane's size.  Every step leaves the owners alone, adds one, removes
one or replaces one (`SlotStep`), `CountKept` shows that this keeps the count, and
`StepMaps` that it is a step of `Slots` or a stutter.  `BoundRespected` adds
`BoundInv`: a lane parks no more than its users leave over, which an open needs
`SlotsCounted` for, since it comes on top of nothing parked but of every other owner.

`MessageQueueProofs`, of `Coalesce`, for every batch of flag changes and moves, of any length, over any
messages, mailboxes and flags:

| Theorem | Statement |
|---|---|
| `FoldSettlesEachOnce` | each row stands behind exactly one step or is obsolete, never both |
| `FoldIsExact` | replaying the fold's steps leaves the message as replaying the rows would |

The argument.  A fold is a function of how much of the batch is folded, so each fact
about it is carried from one row to the next (`InductionUpTo`: the numbers it holds
of have no least counterexample).  `PushSettles` says what one row does: it is appended,
merges with the last step, or cancels it, and in each case the rows are shared out
again.  `FoldIsExact` has two hypotheses.  `IssuedFrom`: each row changed what it
found when it was issued, which is what the commands enqueue, and is a change of one
flag or a move.  `NoDetour`: a deleted message comes back, if at all, to where it was
deleted, and no earlier move of the batch had brought it there.  The second leaves out
the disagreement noted above: a deletion that its reversal does not cancel merges with
it to a move out of the trash of a message that is not in it (with an earlier move the
deletion has become one from the first mailbox, and the way back is a detour too).
Every other pair `merge` accepts is shown exact (`MergeIsExact`, `CancelIsExact`).

`MessageQueueProofs`, of `MessageQueue`, for every set of messages, mailboxes and flags, every number of
rows, attempts, sync lanes and faults:

| Theorem | Statement |
|---|---|
| `TypeCorrect` | `Spec => []TypeOK` |
| `OnlyItsMessage` | `Spec => TouchesItsMessage` |
| `WaitingChangesShow` | `Spec => []PendingFlagsShow` |
| `QueueConverges` | `Spec => []SettledAgrees` |

The argument.  `TypeInv` is the types with what they need of each other: a step has
rows of its own message left to settle while it runs (`StepFits`, from
`FoldSettlesEachOnce`), and UIDs of one mailbox are distinct and below its next, since
MOVE adds to UIDNEXT the number of messages its id names.  `IdInv` follows remote ids
wherever they are kept, in local rows, a queue row's snapshot, a fetch in progress,
the step's address and COPYUID's answer, and says that each belongs to the message it
is kept for: it names that message, or its UID was given and is nobody's now.  The
server keeps that true for every id (`IdsStay`: a UID is never given twice), and an id
that belongs to a message can only ever name it (`NamedIsOwn`).  `wire_set`'s
generation check enters where an id of one mailbox is used in another.

`WaitingChangesShow` needs to know that the last unsettled change of a flag stays the
last *effect* of it while rows go from the middle of the queue.  `ShowInv` says how
(TLC checked it first, up to five rows of two flags).  The changes of one flag that are
to be run alternate between setting and clearing, and the ones that cancelled out but
are still to be marked come, between any two of those that stand, to the first of the
two (`Balanced`: a run of cancelled rows does nothing, at every point of the marking).
Rows that have been deferred are the first of their message and of one class, settings,
clearings or moves (`DeferredFirst`), which is what makes a retry harmless to those
queued after it; the step being run is of that class and only deferred rows come before
its own (`RunsFirst`, unless it overtakes one, which excuses the message); and a planned
step has unsettled rows of one class with none but deferred ones between them
(`PlanFits`).  The fold keeps these things row by row: pushing a row on the steps either
extends the run, starts another, or cancels the last one (`PushRuns`, `PushBalances`,
`FoldBalances`).  Every action either leaves the queue (`StillKeeps`), marks a row
(`MarkIs`) or grows the queue (`GrowsKeeps`).  A sync's store is the one step that writes
flags it was told: `MergedShows` replays the queue's flag changes over them and finds the
last one on top.  `MailboxesAssumption` enters there: a row that has been deleted is in
no mailbox, so no mailbox has the name the model gives that.

`QueueConverges` compares the server with what was asked for, and `ConvInv` says how far
the two may be apart at any moment: what is queued is the difference.  Of a message that
is not excused one row is in use (`OnlyRow`), and its unsettled rows, less those the
server has carried out and that are only to be marked still (`Served`), take the server's
copy to what the user wants (`Agrees`).  For the mailbox (`BoxAgrees`) the order is of no
matter: the moves are arrows between mailboxes, and a set of them carries a message from
one to another when it comes into every mailbox as often as it leaves it, the two aside
(`Carries`, a sum that a row served, marked, cancelled or added changes by its own arrow).
For a flag (`FlagAgrees`) what the server has is put before the changes as row 0; the row
so extended is balanced in the sense of `ShowInv`, and its last is what the user wants.  A
step a pass has planned does what its rows ask for, neither more nor less (`StepDoes`,
carried through the fold by `FoldsDo`: a merged move leads from the first mailbox to the
last, and what cancels out leads nowhere), and a move is run on the mailbox the server
has the message in: the step's first arrow leaves from there.  Carrying out a step then
moves the server by what leaves the set (`ServedBoxAgrees`, `ServedFlagAgrees`), a change
by the user moves the wish by what enters it (`AddedBoxAgrees`, `AddedFlagAgrees`), and a
sync that stores what the server has stores what the user wants (`MergedIsWished`), or
makes a new row in the place of one that is gone (`PlaceTaken`).  With nothing queued the
difference is nothing (`ServerIsWished`).  TLC checked `ConvInv` on small instances before
it was proved.

`CrossAccountMoveProofs`, for every set of accounts, every kind of server, a patient
user or not, and every bound:

| Theorem | Statement |
|---|---|
| `TypeCorrect` | `Spec => []TypeOK` |
| `RowIdentityIsOwn` | `Spec => []IdentityIsOwn` |
| `DoneHasRemoved` | `Spec => []DoneIsRemoved` |
| `NoSecondCopy` | `Spec => []OneCopyEach` |
| `ConfirmedWithCopy` | in every step that confirms a saga a copy is at the target's server |
| `OneCommandLosesNothing` | `Spec => [](acts <= 1 => NeverLost)` |

The argument.  All rest on one inductive invariant, `MoveInv`, in three parts.
`Shapes` is each variable's type by itself.  `Refs` is what they say of each other:
rows, sagas, queue rows, the stack, an undo's reading and the passes only name what is
there, a queued removal is of its saga's own source, and a pass that confirms has found
a copy of the *target's* server while one that removes holds a UID of its *own* (the
one the row was queued for, if that was known).  `Removal` is what Done needs: a saga
has one removal, so it is not finished by another; a mailbox that has gone held
nothing; and at `finish` the copy is gone where the server can expunge.  Every step
lets things grow in the same few ways (`Grows`: a row keeps its account and never
changes identity but to a copy of its own server, a saga keeps its two rows, a queue
row its operation), so that `StepKeeps` carries most of the invariant once for all
actions, and each action's lemma shows only how its own pass moves.

`NoSecondCopy` adds `OneInv`, for messages with a Message-ID: a pass about to append
has just searched a server where nothing is (`AppendClear`), nobody but the drainer of
that account appends there, and so no server holds two (`Alone`).  `ConfirmedWithCopy`
adds `ConfirmThere`: the copy a pass has found is still there when it confirms, since
what takes a copy off that server is the same account's drainer.  `Effects` states once
what steps may do to copies and phases, and both use it.

`OneCommandLosesNothing` is about a single command and an undo of it at any moment.
Its invariant `LossInv` says that there is then at most one saga and the one that takes
it back, the second only once the first has been given up or is Done (`OneCommand`,
`Back`); that a saga still Confirmed has its copy (`Kept`); and that it keeps it while
the original is being taken, the other saga not having come to its own removal
(`Taking`).  With more commands the statement is false for a user who does not wait
(`BugNeverLost`).  For one who does, it needs an account of every saga ever left
behind: a stale Confirmed one whose removal was withdrawn, an unconfirmed one that a
crash kept beside the inverses of later ones.  That case stays with TLC.

`ResyncProofs`, for every size of the mailbox, kind of server, sweep interval and bound:

| Theorem | Statement |
|---|---|
| `TypeCorrect` | `Spec => []TypeOK` |
| `NothingHeldIsDeleted` | `Spec => []OnlyGoneDeleted` |

The argument.  `TypeInv` adds to the types the shapes of the records, the finiteness of
the sets that are counted, and that a pass not due to sweep is below the interval;
`RanksOnto` shows that a renumbering gives every message a UID.  `SafeInv` adds three
facts.  `GensBehind`: a wipe is only ever of an earlier generation, and a pass that selected
the generation the server has was told of it, so that what it reads is the mailbox.
`HeldIsNotLeaving`: a row's message is not on its way out.  `CountsExact`: while nothing
has changed since the select (`quiet`), EXISTS counts the mailbox, every arrival is in
it, and the rows counted as gone are no more than have really gone.  An answer with a
line lost then makes *more* rows seem missing than EXISTS demands (`PartialSeemsMore`,
`MissingBound`), so it is not believed: only a mailbox that changed and an answer that
was partial at once can delete a row too many.

`EngineWaveProofs`, for every number of mailboxes, lanes and events:

| Theorem | Statement |
|---|---|
| `InboxRunsAlone` | `Spec => InboxAlone` |
| `TypeCorrect` | `Spec => []TypeOK` |

The argument.  `WaveInv` is the shape of the wave and of what it hands out, and
`Listed`: until INBOX has run twice at once it runs at most once, and then is on the
active list.  A pass of another mailbox starts only in `Fill`, which asks that list.
`TypeOK` says that there are never more passes than the lanes and one, that nothing is
held a mailbox has not reached, and that a drain has rows; `EngineInv`, which TLC
checked first, is what makes it inductive.  `LanesKept`: the one pass beyond the lanes
is there only while INBOX is listed, which is what a look asks before it starts one.
`ReadIsThere`: nor has a pass read more than there is.  `OnlyMailboxes`: what was
admitted, and what a look is of, are mailboxes too, since they come back on the queue.
`DrainHasRows`: there is no drain beside the lanes when there are none, so the drains
outside a wave take nothing from under it.

Only model-checked:

* `CrossAccountMove`'s `NeverLost` beyond one command (see above).
* The liveness properties (`QueuedSettles`, `RowsSettle`, `WaitEnds`, `ComesToRest`,
  `Converges`, `CatchesUp`, `ReadInTheEnd`, `ServedInTheEnd`): fairness and ENABLED are
  outside the prover's reach.

## Plan

1. `SendPath` with its proofs: done.
2. `Coalesce` and `MessageQueue`, with proofs of both: done, every safety property
   among them.
3. `ConnectionPool` refining `Slots`, with its proofs: done, every safety property
   among them.
4. `Resync`, with its proofs: done.
5. `CrossAccountMove`, with its proofs: done.  `NeverLost` for a patient user with more
   than one command is left to prove.
6. `Drafts`: upload, replacement and discard of server copies, and the coalescer's
   two draft arms.  Not begun.
7. `EngineWave`, with its proofs: done.
8. `Undo` (the stack: coalescing, expiry) and the event bridge.  Not begun.
9. `DraftWriter`, with proofs of all its properties: done.
10. An abstract at-most-once specification refined by `SendPath`.

Not planned: building and parsing of mail, rendering, search, classification, AI,
contacts, calendar and the frontends, which are data or user interface; the Gmail
and JMAP adapters, OAuth, TLS and blob files, which are I/O.

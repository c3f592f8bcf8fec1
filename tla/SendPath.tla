------------------------------ MODULE SendPath ------------------------------
(***************************************************************************)
(* The path of an outgoing message: the composer and its draft row, the    *)
(* operation queue's Send row, the drainer, the SMTP transaction and the   *)
(* local Sent copy (postio-sync/src/send.rs, postio-sync/src/drain.rs and  *)
(* the draft repository of postio-storage; ADR 0021).                      *)
(*                                                                         *)
(* One action is one store transaction or one network exchange, so the     *)
(* composer, the drainer and a crash interleave wherever the code lets     *)
(* them.  The words and the addresses of a message are left out, since     *)
(* nothing here reads them (DraftWriter follows the words), and the upload *)
(* of a draft to the server's Drafts folder is reduced to the queue row it *)
(* occupies.                                                               *)
(***************************************************************************)
EXTENDS Naturals, Sequences, FiniteSets

CONSTANTS
    Drafts,         \* the drafts of one account
    MaxAttempts,    \* RetryPolicy::max_attempts
    MaxRows,        \* bound: queue rows ever enqueued
    MaxFaults,      \* bound: process deaths, cut passes and unreadable replies
    DraftsMailbox,  \* the account has a Drafts mailbox, so a save queues an upload
    StoreFails      \* a call to the local store may fail

ASSUME MaxAttemptsAssumption == MaxAttempts \in Nat \ {0}
ASSUME BoundsAssumption ==
    /\ MaxRows \in Nat
    /\ MaxFaults \in Nat
ASSUME FlagsAssumption ==
    /\ DraftsMailbox \in BOOLEAN
    /\ StoreFails \in BOOLEAN

VARIABLES
    draft,      \* the drafts row's state, or "New" / "Gone" when there is no row
    msgid,      \* its reserved Message-ID, NoId when it has none
    minted,     \* how many Message-IDs were reserved for the draft so far
    composer,   \* the draft value a composer window holds, or Closed
    queue,      \* the operation_queue rows, in id order
    pc,         \* where the drainer is
    batch,      \* the row ids this pass still has to run
    job,        \* the step being run
    outcome,    \* what the step came to
    sentRows,   \* local rows in Sent, by the Message-ID they carry
    delivered,  \* copies that reached the recipient since the user last asked
    taken,      \* every message the submission server accepted
    garbled,    \* drafts whose payload was answered by a reply that does not parse
    overwritten,\* drafts a composer wrote over while they were past the commit point
    restated,   \* drafts a composer gave a mark the row did not have
    linked,     \* the Sent row the draft's message_id points at, NoId for its own row
    faults      \* process deaths, cut passes and unreadable replies so far

composing == <<composer, overwritten, restated>>
filing    == <<sentRows, linked>>
row_vars  == <<draft, msgid, minted>>
pass_vars == <<pc, batch, job, outcome>>
world     == <<delivered, taken, garbled>>
vars == <<row_vars, composing, queue, pass_vars, filing, world, faults>>

-----------------------------------------------------------------------------
NoId == 0
Ids  == 0 .. MaxRows     \* each ask queues a row, so ids are bounded with them

\* Past the commit point of ADR 0021: resolve refuses to submit these.
PastCommit == {"Sending", "Sent", "Unconfirmed"}
Stored     == {"Editing", "Queued", "Failed"} \cup PastCommit
DraftStates == {"New", "Gone"} \cup Stored

Closed == [state |-> "Closed"]
Held   == [state : Stored, id : Ids]

Row == [draft : Drafts, op : {"Send", "SaveDraft"},
        state : {"pending", "done", "failed", "deleted"},
        attempts : Nat, due : BOOLEAN]

NoJob == [row |-> 0]
Job   == [row : Nat \ {0}, draft : Drafts, id : Ids, filed : BOOLEAN]
Outcomes == {"None", "Applied", "Obsolete", "Retry", "Failed", "Uncertain"}

Exists(d)  == draft[d] \in Stored
Pending(r) == queue[r].state = "pending"
SendRows(d) == {r \in DOMAIN queue :
                   queue[r].draft = d /\ queue[r].op = "Send" /\ Pending(r)}
RowsOf(d) == {r \in DOMAIN queue : queue[r].draft = d /\ Pending(r)}
Least(S)  == CHOOSE r \in S : \A q \in S : r <= q

NewRow(d, op, due) ==
    [draft |-> d, op |-> op, state |-> "pending", attempts |-> 0, due |-> due]
HasRoom == Len(queue) < MaxRows
Enqueue(d, op, due) == queue' = Append(queue, NewRow(d, op, due))

\* DraftRepository::set_state: no row is an error the caller sees or ignores,
\* and a draft that becomes editable gives its Message-ID back.
SetState(d, s) ==
    /\ draft' = IF Exists(d) THEN [draft EXCEPT ![d] = s] ELSE draft
    /\ msgid' = IF Exists(d) /\ s = "Editing" THEN [msgid EXCEPT ![d] = NoId] ELSE msgid
    /\ UNCHANGED minted

\* The same write where it is best-effort: it may also not happen.
Mark(d, s) == SetState(d, s) \/ (StoreFails /\ UNCHANGED row_vars)

\* A save also rewrites the messages row behind message_id as the draft's own
\* row in Drafts; delete removes that row.  Where the row was the Sent copy
\* confirm_unconfirmed linked, Sent loses it.
TakeLinkedRow(d) ==
    /\ sentRows' = IF linked[d] = NoId THEN sentRows
                   ELSE [sentRows EXCEPT ![d][linked[d]] = IF @ > 0 THEN @ - 1 ELSE 0]
    /\ linked' = [linked EXCEPT ![d] = NoId]
ListRow(d) == IF DraftsMailbox THEN TakeLinkedRow(d) ELSE UNCHANGED filing

\* History: the composer wrote over a mark the drainer had committed.
Overwrite(d, marks) ==
    overwritten' = IF draft[d] \in marks THEN overwritten \cup {d} ELSE overwritten

\* History: the composer wrote a mark it holds from earlier over a row without it.
Restate(d, s) ==
    restated' = IF s \in PastCommit /\ draft[d] # s THEN restated \cup {d} ELSE restated

-----------------------------------------------------------------------------
(* The composer and the commands on a draft's row.                         *)

Compose(d) ==
    /\ draft[d] = "New"
    /\ composer[d] = Closed
    /\ composer' = [composer EXCEPT ![d] = [state |-> "Editing", id |-> NoId]]
    /\ UNCHANGED <<row_vars, overwritten, restated, queue, pass_vars, filing, world, faults>>

\* Opening a draft's row: the composer takes the value as it is stored, in
\* whatever state.  A queued one is taken back first, which is Cancel.
Open(d) ==
    /\ composer[d] = Closed
    /\ Exists(d) /\ draft[d] # "Queued"
    /\ composer' = [composer EXCEPT ![d] =
                       [state |-> draft[d], id |-> msgid[d]]]
    /\ UNCHANGED <<row_vars, overwritten, restated, queue, pass_vars, filing, world, faults>>

Close(d) ==
    /\ composer[d] # Closed
    /\ composer' = [composer EXCEPT ![d] = Closed]
    /\ UNCHANGED <<row_vars, overwritten, restated, queue, pass_vars, filing, world, faults>>

\* Autosave: the held value replaces the row, state included, and the upload
\* to the Drafts mailbox is queued.  A row that has gone is not brought back.
Save(d) ==
    /\ composer[d] # Closed
    /\ draft[d] # "Gone"
    /\ draft' = [draft EXCEPT ![d] = composer[d].state]
    /\ msgid' = [msgid EXCEPT ![d] =
                    IF composer[d].state = "Editing" THEN NoId ELSE composer[d].id]
    /\ Overwrite(d, PastCommit \ {composer[d].state})
    /\ Restate(d, composer[d].state)
    /\ ListRow(d)
    /\ \/ DraftsMailbox /\ HasRoom /\ Enqueue(d, "SaveDraft", TRUE)
       \/ ~DraftsMailbox /\ UNCHANGED queue
    /\ UNCHANGED <<minted, composer, pass_vars, world, faults>>

\* What queue_send and queue_send_at write: the row Queued under a reserved
\* id (kept when there is one), and the Send operation, in one transaction.
\* due is FALSE for a send scheduled for later.
QueueSend(d, id) ==
    /\ HasRoom
    /\ draft'  = [draft EXCEPT ![d] = "Queued"]
    /\ minted' = [minted EXCEPT ![d] = IF id = NoId THEN @ + 1 ELSE @]
    /\ msgid'  = [msgid EXCEPT ![d] = IF id = NoId THEN minted[d] + 1 ELSE id]
    /\ \E due \in BOOLEAN : Enqueue(d, "Send", due)
    /\ delivered' = [delivered EXCEPT ![d] = 0]
    /\ ListRow(d)
    /\ UNCHANGED <<pass_vars, taken, garbled, faults>>

ComposerSend(d) ==
    /\ composer[d] # Closed
    /\ draft[d] # "Gone"
    /\ QueueSend(d, composer[d].id)
    /\ Overwrite(d, {"Sending", "Sent"})
    /\ UNCHANGED restated
    /\ composer' = [composer EXCEPT ![d] = Closed]

RetrySend(d) ==
    /\ draft[d] \in {"Failed", "Unconfirmed"}
    /\ QueueSend(d, msgid[d])
    /\ UNCHANGED composing

\* Mutant: a cancel that only asks whether the send has finished.
CancelUntilSent(d) ==
    /\ draft[d] \in {"Queued", "Sending"}
    /\ RowsOf(d) # {}
    /\ queue' = [queue EXCEPT ![Least(RowsOf(d))].state = "deleted"]
    /\ SetState(d, "Editing")
    /\ ListRow(d)
    /\ UNCHANGED <<composing, pass_vars, world, faults>>

\* cancel_send deletes the earliest unsettled row of the draft, whatever
\* operation it holds.
Cancel(d) ==
    /\ draft[d] = "Queued"
    /\ RowsOf(d) # {}
    /\ queue' = [queue EXCEPT ![Least(RowsOf(d))].state = "deleted"]
    /\ SetState(d, "Editing")
    /\ ListRow(d)
    /\ UNCHANGED <<composing, pass_vars, world, faults>>

MarkSent(d) ==
    /\ draft[d] = "Unconfirmed"
    /\ SetState(d, "Sent")
    /\ UNCHANGED <<composing, queue, pass_vars, filing, world, faults>>

\* Discard from the composer.  It asks nothing about the draft's state.
Discard(d) ==
    /\ composer[d] # Closed
    /\ Exists(d)
    /\ draft' = [draft EXCEPT ![d] = "Gone"]
    /\ composer' = [composer EXCEPT ![d] = Closed]
    /\ TakeLinkedRow(d)
    /\ UNCHANGED <<msgid, minted, overwritten, restated, queue, pass_vars,
                   world, faults>>

\* Mutant: the step is forgotten and the phase is not.
StopPassInPlace == pc' = pc /\ batch' = {} /\ job' = NoJob /\ outcome' = "None"

\* What a pass holds is in memory: it goes when the pass does.
StopPass ==
    /\ pc' = "idle"
    /\ batch' = {}
    /\ job' = NoJob
    /\ outcome' = "None"

-----------------------------------------------------------------------------
(* One drain pass: heal, list what is due, run the rows in id order.       *)

\* Mutant: a pass that does not look for orphans.
HealNothing == pc = "idle" /\ pc' = "list" /\ UNCHANGED <<row_vars, composing, queue,
                   batch, job, outcome, filing, world, faults>>

\* fail_orphaned_sends: a Queued draft with no Send row left has not gone.
HealOrphans ==
    /\ pc = "idle"
    /\ \/ draft' = [d \in Drafts |->
                       IF draft[d] = "Queued" /\ SendRows(d) = {} THEN "Failed" ELSE draft[d]]
       \/ StoreFails /\ UNCHANGED draft
    /\ pc' = "list"
    /\ UNCHANGED <<msgid, minted, composing, queue, batch, job, outcome, filing,
                   world, faults>>

\* pending: the rows that are due.  A row still backing off is left out.
ListDue ==
    /\ pc = "list"
    /\ batch' = {r \in DOMAIN queue : Pending(r) /\ queue[r].due}
    /\ pc' = "step"
    /\ UNCHANGED <<row_vars, composing, queue, job, outcome, filing, world, faults>>

EndPass ==
    /\ pc = "step"
    /\ batch = {}
    /\ pc' = "idle"
    /\ UNCHANGED <<row_vars, composing, queue, batch, job, outcome, filing,
                   world, faults>>

\* The row a pass runs next; the drainer does not look at it again before it
\* settles, so a row cancelled meanwhile still runs.
IsNext(r) == pc = "step" /\ batch # {} /\ r = Least(batch)

JobFor(r, filed) ==
    LET d == queue[r].draft
    IN  [row |-> r, draft |-> d, id |-> msgid[d], filed |-> filed]

Decide(r, o) ==
    /\ job' = JobFor(r, FALSE)
    /\ outcome' = o
    /\ pc' = "settle"

\* A SaveDraft step: the upload itself belongs to the Drafts folder.
Upload(r) ==
    /\ IsNext(r)
    /\ queue[r].op = "SaveDraft"
    /\ \E o \in {"Applied", "Obsolete", "Retry", "Failed"} : Decide(r, o)
    /\ UNCHANGED <<row_vars, composing, queue, batch, filing, world, faults>>

\* carry and resolve, where they end the step without a submission.
ResolveSettled(r) ==
    LET d == queue[r].draft IN
    /\ IsNext(r)
    /\ queue[r].op = "Send"
    /\ \/ /\ draft[d] \in {"Gone", "Sent"}
          /\ Decide(r, "Obsolete")
          /\ UNCHANGED row_vars
       \/ /\ draft[d] \in {"Sending", "Unconfirmed"}
          /\ Decide(r, "Uncertain")
          /\ SetState(d, "Unconfirmed")
       \/ \* an attachment still to fetch; no recipient, identity or Sent mailbox
          /\ Exists(d) /\ draft[d] \notin PastCommit
          /\ \E o \in {"Retry", "Failed"} : Decide(r, o)
          /\ UNCHANGED row_vars
    /\ UNCHANGED <<composing, queue, batch, filing, world, faults>>

\* resolve reads the draft once and builds the bytes from what it read.
ResolveReady(r) ==
    LET d == queue[r].draft IN
    /\ IsNext(r)
    /\ queue[r].op = "Send"
    /\ Exists(d)
    /\ draft[d] \notin PastCommit
    /\ job' = JobFor(r, FALSE)
    /\ pc' = "ready"
    /\ UNCHANGED <<row_vars, composing, queue, batch, outcome, filing, world, faults>>

\* file_sent_locally: the row is in Sent before the socket opens.
FileSentLocally ==
    /\ pc = "ready"
    /\ pc' = "filed"
    /\ \/ /\ sentRows' = [sentRows EXCEPT ![job.draft][job.id] = @ + 1]
          /\ job' = [job EXCEPT !.filed = TRUE]
       \/ StoreFails /\ UNCHANGED <<sentRows, job>>
    /\ UNCHANGED <<row_vars, composing, queue, batch, outcome, linked, world, faults>>

\* submit returns: a Failed outcome takes the Sent row back, others leave it.
Return(o) ==
    /\ outcome' = o
    /\ pc' = IF o = "Failed" /\ job.filed THEN "unfile" ELSE "settle"

\* Connect and authenticate.  A failure leaves the draft as it is.
OpenSession ==
    /\ pc = "filed"
    /\ \/ pc' = "opened" /\ UNCHANGED outcome
       \/ \E o \in {"Retry", "Failed"} : Return(o)
    /\ UNCHANGED <<row_vars, composing, queue, batch, job, filing, world, faults>>

\* Mutant: the submission before ADR 0021, which left no mark behind it.
SubmitUnmarked ==
    /\ pc = "opened"
    /\ pc' = "marked"
    /\ UNCHANGED <<row_vars, composing, queue, batch, job, outcome, filing, world, faults>>

\* The first mark of ADR 0021.  Without it nothing is submitted.
MarkSending ==
    /\ pc = "opened"
    /\ \/ /\ Exists(job.draft)
          /\ SetState(job.draft, "Sending")
          /\ pc' = "marked"
          /\ UNCHANGED outcome
       \/ /\ StoreFails \/ ~Exists(job.draft)
          /\ Return("Retry")
          /\ UNCHANGED row_vars
    /\ UNCHANGED <<composing, queue, batch, job, filing, world, faults>>

\* MAIL, RCPT and DATA up to the 354; then the payload is on the wire.
BeginPayload ==
    /\ pc = "marked"
    /\ pc' = "wire"
    /\ UNCHANGED <<row_vars, composing, queue, batch, job, outcome, filing,
                   world, faults>>

\* A failure that is not indeterminate: raised before the payload, or answered
\* by the server.  The mark has to come back off.
Refused ==
    /\ pc \in {"marked", "wire"}
    /\ \E o \in {"Retry", "Failed"} : outcome' = o
    /\ pc' = "refused"
    /\ UNCHANGED <<row_vars, composing, queue, batch, job, filing, world, faults>>

ServerTakes ==
    /\ delivered' = [delivered EXCEPT ![job.draft] = @ + 1]
    /\ taken' = taken \cup {[draft |-> job.draft, id |-> job.id]}

\* A reply to the payload that does not parse is a Protocol error: the code
\* counts it as an answer, so as a refusal, whatever the server did.
Garbled ==
    /\ pc = "wire"
    /\ faults < MaxFaults
    /\ faults' = faults + 1
    /\ ServerTakes \/ UNCHANGED <<delivered, taken>>
    /\ garbled' = garbled \cup {job.draft}
    /\ outcome' = "Failed"
    /\ pc' = "refused"
    /\ UNCHANGED <<row_vars, composing, queue, batch, job, filing>>

Accepted ==
    /\ pc = "wire"
    /\ ServerTakes
    /\ UNCHANGED garbled
    /\ pc' = "accepted"
    /\ UNCHANGED <<row_vars, composing, queue, batch, job, outcome, filing, faults>>

\* The session dies with the payload out: the server took it, or did not.
Lost ==
    /\ pc = "wire"
    /\ ServerTakes \/ UNCHANGED <<delivered, taken>>
    /\ UNCHANGED garbled
    /\ pc' = "lost"
    /\ UNCHANGED <<row_vars, composing, queue, batch, job, outcome, filing, faults>>

\* Mutant: a lost session is an ordinary transient error.
RetryLost ==
    /\ pc = "lost"
    /\ Mark(job.draft, "Queued")
    /\ Return("Retry")
    /\ UNCHANGED <<composing, queue, batch, job, filing, world, faults>>

\* An indeterminate submission: the draft says so and the step never retries.
MarkUnconfirmed ==
    /\ pc = "lost"
    /\ Mark(job.draft, "Unconfirmed")
    /\ Return("Uncertain")
    /\ UNCHANGED <<composing, queue, batch, job, filing, world, faults>>

Release ==
    /\ pc = "refused"
    /\ Mark(job.draft, "Queued")
    /\ Return(outcome)
    /\ UNCHANGED <<composing, queue, batch, job, filing, world, faults>>

\* The second mark: nothing past it may fail or retry the step.
MarkAccepted ==
    /\ pc = "accepted"
    /\ Mark(job.draft, "Sent")
    /\ pc' = "confirm"
    /\ UNCHANGED <<composing, queue, batch, job, outcome, filing, world, faults>>

\* confirm_sent_copy after the APPEND: the row is written now if it was not,
\* and a failure to write it ends the bookkeeping there.
ConfirmSentCopy ==
    /\ pc = "confirm"
    /\ \/ job.filed /\ pc' = "drop" /\ UNCHANGED <<sentRows, outcome>>
       \/ /\ ~job.filed
          /\ sentRows' = [sentRows EXCEPT ![job.draft][job.id] = @ + 1]
          /\ pc' = "drop"
          /\ UNCHANGED outcome
       \/ ~job.filed /\ StoreFails /\ Return("Applied") /\ UNCHANGED sentRows
    /\ UNCHANGED <<row_vars, composing, queue, batch, job, linked, world, faults>>

\* ... and the draft row goes, with the messages row it points at.
DropDraft ==
    /\ pc = "drop"
    /\ \/ /\ Exists(job.draft)
          /\ draft' = [draft EXCEPT ![job.draft] = "Gone"]
          /\ TakeLinkedRow(job.draft)
       \/ /\ StoreFails \/ ~Exists(job.draft)
          /\ UNCHANGED <<draft, filing>>
    /\ Return("Applied")
    /\ UNCHANGED <<msgid, minted, composing, queue, batch, job, world, faults>>

\* Mutant: the copies are found by Message-ID, not by the row that was filed.
UnfileByMessageId ==
    /\ pc = "unfile"
    /\ sentRows' = [sentRows EXCEPT ![job.draft][job.id] = 0]
    /\ pc' = "settle"
    /\ UNCHANGED <<row_vars, composing, queue, batch, job, outcome, linked, world, faults>>

UnfileSentCopy ==
    /\ pc = "unfile"
    /\ \/ sentRows' = [sentRows EXCEPT ![job.draft][job.id] = IF @ > 0 THEN @ - 1 ELSE 0]
       \/ StoreFails /\ UNCHANGED sentRows
    /\ pc' = "settle"
    /\ UNCHANGED <<row_vars, composing, queue, batch, job, outcome, linked, world, faults>>

-----------------------------------------------------------------------------
(* settle: the outcome goes onto the row.                                  *)

StepDone ==
    /\ batch' = batch \ {job.row}
    /\ job' = NoJob
    /\ outcome' = "None"
    /\ pc' = "step"

\* A row cancelled under the step: the write finds nothing and the error ends
\* the whole pass.
SettleMissing ==
    /\ pc = "settle"
    /\ queue[job.row].state = "deleted"
    /\ StopPass
    /\ UNCHANGED <<row_vars, composing, queue, filing, world, faults>>

SettleDone ==
    /\ pc = "settle"
    /\ Pending(job.row)
    /\ outcome \in {"Applied", "Obsolete", "Uncertain"}
    /\ queue' = [queue EXCEPT ![job.row].state = "done"]
    /\ StepDone
    /\ UNCHANGED <<row_vars, composing, filing, world, faults>>

Exhausted(r) == queue[r].attempts + 1 >= MaxAttempts

SettleDeferred ==
    /\ pc = "settle"
    /\ Pending(job.row)
    /\ outcome = "Retry"
    /\ ~Exhausted(job.row)
    /\ queue' = [queue EXCEPT ![job.row].attempts = @ + 1, ![job.row].due = FALSE]
    /\ StepDone
    /\ UNCHANGED <<row_vars, composing, filing, world, faults>>

SettleFailed ==
    /\ pc = "settle"
    /\ Pending(job.row)
    /\ outcome = "Failed" \/ (outcome = "Retry" /\ Exhausted(job.row))
    /\ queue' = [queue EXCEPT ![job.row].state = "failed", ![job.row].attempts = @ + 1]
    /\ IF queue[job.row].op = "Send"
       THEN pc' = "failed" /\ UNCHANGED <<batch, job, outcome>>
       ELSE StepDone
    /\ UNCHANGED <<row_vars, composing, filing, world, faults>>

\* ... and a send that gave up says so on its draft, in a write of its own.
FailDraft ==
    /\ pc = "failed"
    /\ Mark(job.draft, "Failed")
    /\ StepDone
    /\ UNCHANGED <<composing, queue, filing, world, faults>>

-----------------------------------------------------------------------------
(* The clock, a mailbox sync and process death.                            *)

BackoffElapses(r) ==
    /\ Pending(r)
    /\ ~queue[r].due
    /\ queue' = [queue EXCEPT ![r].due = TRUE]
    /\ UNCHANGED <<row_vars, composing, pass_vars, filing, world, faults>>

\* A sync of Sent brings down the copy the provider filed; a local row with
\* the same Message-ID adopts it.
SyncSentCopy(m) ==
    /\ sentRows[m.draft][m.id] = 0
    /\ sentRows' = [sentRows EXCEPT ![m.draft][m.id] = 1]
    /\ UNCHANGED <<row_vars, composing, queue, pass_vars, linked, world, faults>>

\* confirm_unconfirmed, after a sync that changed something: any local row
\* carrying the reserved id settles the question, and the draft is linked to it.
\* The link is a second write: it is lost to a failure or a crash in between, and
\* nothing else reads it there but a delete, behind which it finds no row.
ConfirmUnconfirmed(d) ==
    /\ draft[d] = "Unconfirmed"
    /\ msgid[d] # NoId
    /\ sentRows[d][msgid[d]] > 0
    /\ SetState(d, "Sent")
    /\ linked' \in {linked, [linked EXCEPT ![d] = msgid[d]]}
    /\ UNCHANGED <<composing, queue, pass_vars, sentRows, world, faults>>

\* A store or capabilities call the pass makes with `?` fails: the pass ends
\* where it is, the rows it had not settled stay pending.
PassError ==
    /\ pc \in {"list", "step", "settle"}
    /\ faults < MaxFaults
    /\ faults' = faults + 1
    /\ StopPass
    /\ UNCHANGED <<row_vars, composing, queue, filing, world>>

\* Everything in memory goes; a payload already on the wire may still land.
Crash ==
    /\ faults < MaxFaults
    /\ faults' = faults + 1
    /\ StopPass
    /\ composer' = [d \in Drafts |-> Closed]
    /\ (pc = "wire" /\ ServerTakes) \/ UNCHANGED <<delivered, taken>>
    /\ UNCHANGED <<row_vars, overwritten, restated, queue, filing, garbled>>

-----------------------------------------------------------------------------
Init ==
    /\ draft = [d \in Drafts |-> "New"]
    /\ msgid = [d \in Drafts |-> NoId]
    /\ minted = [d \in Drafts |-> 0]
    /\ composer = [d \in Drafts |-> Closed]
    /\ queue = <<>>
    /\ pc = "idle"
    /\ batch = {}
    /\ job = NoJob
    /\ outcome = "None"
    /\ sentRows = [d \in Drafts |-> [i \in Ids |-> 0]]
    /\ linked = [d \in Drafts |-> NoId]
    /\ delivered = [d \in Drafts |-> 0]
    /\ taken = {}
    /\ garbled = {}
    /\ overwritten = {}
    /\ restated = {}
    /\ faults = 0

UserStep(d) ==
    \/ Compose(d) \/ Open(d) \/ Close(d) \/ Save(d)
    \/ ComposerSend(d) \/ RetrySend(d) \/ Cancel(d) \/ MarkSent(d) \/ Discard(d)

StartStep(r) == Upload(r) \/ ResolveSettled(r) \/ ResolveReady(r)

SubmitStep ==
    \/ FileSentLocally \/ OpenSession \/ MarkSending \/ BeginPayload
    \/ Refused \/ Garbled \/ Accepted \/ Lost \/ MarkUnconfirmed \/ Release
    \/ MarkAccepted \/ ConfirmSentCopy \/ DropDraft \/ UnfileSentCopy

SettleStep ==
    SettleMissing \/ SettleDone \/ SettleDeferred \/ SettleFailed \/ FailDraft

DrainerStep ==
    \/ HealOrphans \/ ListDue \/ EndPass
    \/ \E r \in DOMAIN queue : StartStep(r)
    \/ SubmitStep \/ SettleStep

Next ==
    \/ \E d \in Drafts : UserStep(d)
    \/ DrainerStep
    \/ \E r \in DOMAIN queue : BackoffElapses(r)
    \/ \E m \in taken : SyncSentCopy(m)
    \/ \E d \in Drafts : ConfirmUnconfirmed(d)
    \/ PassError \/ Crash

Spec == Init /\ [][Next]_vars

\* The engine's loop keeps draining while it is alive, and time passes; the
\* user, the server's answers and faults owe nothing.
Fairness ==
    /\ WF_vars(DrainerStep)
    /\ \A r \in 1 .. MaxRows : WF_vars(r \in DOMAIN queue /\ BackoffElapses(r))
FairSpec == Spec /\ Fairness

-----------------------------------------------------------------------------
(* Properties.                                                             *)

Carrying == {"ready", "filed", "opened", "marked", "wire", "refused", "lost",
             "accepted", "confirm", "drop", "unfile", "settle", "failed"}
Phases   == {"idle", "list", "step"} \cup Carrying

\* Every variable has the shape its comment says, and a step in progress has a
\* row of the queue and the draft of that row.
TypeOK ==
    /\ draft \in [Drafts -> DraftStates]
    /\ msgid \in [Drafts -> Ids]
    /\ minted \in [Drafts -> Ids]
    /\ composer \in [Drafts -> Held \cup {Closed}]
    /\ queue \in Seq(Row)
    /\ Len(queue) <= MaxRows
    /\ pc \in Phases
    /\ batch \subseteq DOMAIN queue
    /\ job \in Job \cup {NoJob}
    /\ pc \in Carrying => job \in Job /\ job.row \in DOMAIN queue
    /\ outcome \in Outcomes
    /\ sentRows \in [Drafts -> [Ids -> Nat]]
    /\ linked \in [Drafts -> Ids]
    /\ delivered \in [Drafts -> Nat]
    /\ taken \subseteq [draft : Drafts, id : Ids]
    /\ overwritten \subseteq Drafts
    /\ restated \subseteq Drafts
    /\ garbled \subseteq Drafts
    /\ faults \in 0 .. MaxFaults

\* At-most-once submission (ADR 0021): however faults, lost sessions, refused
\* transactions, cancels and failed writes interleave, one ask of the user puts
\* at most one copy in front of the recipient.  Two things can break it: the
\* composer writing its held state over a committed row, and a server whose
\* answer to the payload cannot be parsed.
AtMostOnce == \A d \in Drafts : delivered[d] > 1 => d \in overwritten \cup garbled

\* A delivery is never forgotten: since the user last asked, a draft whose
\* message reached the recipient shows it (or is gone), so neither the retry
\* limit nor the orphan sweep can call it failed or queue it again.
DeliveredIsRemembered ==
    \A d \in Drafts : delivered[d] > 0 /\ d \notin overwritten \cup garbled =>
        draft[d] \in PastCommit \cup {"Gone"}

\* The Sending mark is on the row for as long as the payload may be out, so
\* whatever kills the process, the next pass finds it.
OnWireIsSending ==
    pc \in {"marked", "wire", "lost"} =>
        draft[job.draft] \in {"Sending", "Gone"} \/ job.draft \in overwritten

\* Taking back the Sent copy of a failed attempt never removes the last Sent
\* row of a message the server took in an earlier one: unless the user discarded
\* that draft, the answer was not understood, or a composer wrote a state of its
\* own over the row, over a mark or with one.
UnfileKeepsSent ==
    [][UnfileSentCopy =>
         \A m \in taken :
            /\ m.draft \notin overwritten \cup restated \cup garbled
            /\ draft[m.draft] # "Gone"
            /\ sentRows[m.draft][m.id] > 0
            => sentRows'[m.draft][m.id] > 0]_vars

\* A message in the Outbox does not stay there: it is submitted, given up,
\* cancelled, or found to have nothing left to carry it.
QueuedSettles == \A d \in Drafts : draft[d] = "Queued" ~> draft[d] # "Queued"

-----------------------------------------------------------------------------
(* What the documentation says of the send path and the code does not keep. *)

\* "no path here submits a message that may already have been submitted"
\* (send.rs, module documentation); the drafts whose answer did not parse are
\* left out, to show what the composer does by itself.
NeverResubmitted == \A d \in Drafts \ garbled : delivered[d] <= 1
=============================================================================

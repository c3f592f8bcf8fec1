-------------------------- MODULE CrossAccountMove --------------------------
(***************************************************************************)
(* Moving a message to another account, and taking that back               *)
(* (postio-sync/src/cross_account.rs, the saga repository of               *)
(* postio-storage, and the move and undo commands of postio-session;       *)
(* ADR 0005 Q9, ADR 0026).                                                 *)
(*                                                                         *)
(* There is no server-side move between two servers, so a saga stands in   *)
(* for it: the target account's drainer uploads the message and proves it  *)
(* arrived, and only then may the source account's drainer remove the      *)
(* original.  The two drainers share nothing but the saga's phase.         *)
(*                                                                         *)
(* One message is followed.  An action is one store transaction or one     *)
(* network exchange, so both drainers, the user, a sync pass and a crash   *)
(* interleave wherever the code lets them.                                 *)
(***************************************************************************)
EXTENDS Naturals, Sequences, FiniteSets

CONSTANTS
    Accounts,     \* each has one mailbox, its own server and its own drainer
    Home,         \* the account the message starts in
    UidPlusSets,  \* which accounts' servers may have UIDPLUS
    Patient,      \* the user lets one move settle before starting another
    MaxActs,      \* bound: undoable commands on the message
    MaxAttempts,  \* RetryPolicy::max_attempts
    MaxFaults     \* bound: process deaths

ASSUME HomeAssumption == Home \in Accounts
ASSUME UidPlusAssumption == UidPlusSets \subseteq SUBSET Accounts
ASSUME PatientAssumption == Patient \in BOOLEAN
ASSUME BoundsAssumption ==
    /\ MaxActs \in Nat
    /\ MaxAttempts \in Nat \ {0}
    /\ MaxFaults \in Nat

VARIABLES
    hasMessageId, \* the message carries a Message-ID
    uidPlus,      \* the accounts whose server has UIDPLUS
    copies,    \* every copy the servers ever had; its UID is its place here
    folders,   \* the accounts whose mailbox still exists
    rows,      \* the local rows of the message
    sagas,     \* cross_account_moves, in id order
    queue,     \* the operation_queue rows of all accounts, in id order
    pass,      \* what the drain pass of each account is doing
    stack,     \* the undo stack: the row each undoable command was about
    undo,      \* an undo under way: the sagas it read, and whether it writes yet
    acts,      \* undoable commands so far
    faults     \* process deaths so far

fixed_vars == <<hasMessageId, uidPlus>>
world_vars == <<fixed_vars, copies, folders>>
user_vars  == <<stack, undo, acts>>
vars == <<world_vars, rows, sagas, queue, pass, user_vars, faults>>

-----------------------------------------------------------------------------
NoUid  == 0
NoRow  == 0
Phases == {"Copying", "Unconfirmed", "Confirmed", "Done", "Aborted"}

\* MovePhase::allows: forward only, and Done only from Confirmed.
Allows(p, q) ==
    \/ p = "Copying"     /\ q \in {"Unconfirmed", "Confirmed", "Aborted"}
    \/ p = "Unconfirmed" /\ q \in {"Confirmed", "Aborted"}
    \/ p = "Confirmed"   /\ q \in {"Done", "Aborted"}

OnServer(a) == {u \in DOMAIN copies : copies[u].at = a /\ ~copies[u].gone}
Live(r)     == ~rows[r].gone
Pending(i)  == queue[i].state = "pending"
RowsOf(a)   == {i \in DOMAIN queue : Pending(i) /\ rows[queue[i].row].at = a}
Least(S)    == CHOOSE i \in S : \A j \in S : i <= j
Greatest(S) == CHOOSE i \in S : \A j \in S : j <= i

SameIdentity(a) == [at |-> a, uid |-> 1, hidden |-> FALSE, gone |-> FALSE]

\* A row no server has seen carries no server identity.
NewRow(a) == [at |-> a, uid |-> NoUid, hidden |-> FALSE, gone |-> FALSE]

\* enqueue snapshots the remote id the row has before the caller hides it; only
\* a removal reads it.
SnapOf(op, r) == IF op = "remove" /\ r \in DOMAIN rows THEN rows[r].uid ELSE NoUid
QueueRow(op, s, r) == [op |-> op, saga |-> s, row |-> r, snap |-> SnapOf(op, r),
                       state |-> "pending", attempts |-> 0]
SagaRows(s, src, dst) == <<QueueRow("copy", s, dst), QueueRow("remove", s, src)>>

NoPass == [pc |-> "idle", batch |-> {}, row |-> 0, seen |-> "Copying",
           uid |-> NoUid, outcome |-> "None"]
NoUndo == [sagas |-> {}, read |-> <<>>, writing |-> FALSE]

\* Nothing of the message is queued and no drainer is at work on it.
AtRest == /\ \A i \in DOMAIN queue : ~Pending(i)
          /\ \A a \in Accounts : pass[a] = NoPass

-----------------------------------------------------------------------------
(* The user.                                                               *)

\* cross_account_relocate: a provisional row in the target at once, the source
\* row hidden at once, the saga and both halves queued, in one transaction.
Move(r, t) ==
    LET s == Len(sagas) + 1
        copy == Len(rows) + 1
    IN
    /\ Live(r) /\ ~rows[r].hidden
    /\ t \in folders \ {rows[r].at}
    /\ acts < MaxActs
    /\ Patient => AtRest /\ undo = NoUndo
    /\ rows' = Append([rows EXCEPT ![r].hidden = TRUE], NewRow(t))
    /\ sagas' = Append(sagas, [src |-> r, dst |-> copy, phase |-> "Copying"])
    /\ queue' = queue \o SagaRows(s, r, copy)
    /\ stack' = Append(stack, r)
    /\ acts' = acts + 1
    /\ UNCHANGED <<world_vars, pass, undo, faults>>

\* Any other undoable command on a row the user sees.
OtherCommand(r) ==
    /\ Live(r) /\ ~rows[r].hidden
    /\ acts < MaxActs
    /\ stack' = Append(stack, r)
    /\ acts' = acts + 1
    /\ UNCHANGED <<world_vars, rows, sagas, queue, pass, undo, faults>>

\* for_sources: every saga the row is the source of that was not abandoned,
\* finished ones included, whatever command is being undone.
SagasOf(r) == {s \in DOMAIN sagas : sagas[s].src = r /\ Live(r)
                                      /\ sagas[s].phase # "Aborted"}

\* A saga as it is read; the reference to a deleted row reads as NULL.
ReadSaga(s) == [sagas[s] EXCEPT !.dst = IF Live(@) THEN @ ELSE NoRow]

\* cancel_cross_account_moves reads the sagas before its transaction begins.
StartUndo ==
    LET r == stack[Len(stack)] IN
    /\ undo = NoUndo
    /\ stack # <<>>
    /\ Patient => \A i \in DOMAIN queue :
                     Pending(i) => queue[i].saga \in SagasOf(r) \/ SagasOf(r) = {}
    /\ stack' = SubSeq(stack, 1, Len(stack) - 1)
    /\ undo' = [sagas |-> SagasOf(r), writing |-> FALSE,
                read |-> [s \in SagasOf(r) |-> ReadSaga(s)]]
    /\ UNCHANGED <<world_vars, rows, sagas, queue, pass, acts, faults>>

\* What one saga's part of the transaction does, by the phase it was read in.
\* A saga that has lost its copy's row is not inverted.
Cancels(s) == undo.read[s].phase = "Copying"
Aborts(s)  == undo.read[s].phase \in {"Copying", "Confirmed"}
Inverts(s) == undo.read[s].phase \in {"Confirmed", "Done"} /\ undo.read[s].dst # NoRow

\* The transition is refused if the saga has moved on, and the inverse saga if
\* a row it names has gone since.
Writable(s) == /\ Aborts(s) => Allows(sagas[s].phase, "Aborted")
               /\ Inverts(s) => Live(undo.read[s].dst) /\ Live(undo.read[s].src)

\* One refused write and the whole undo is rolled back; the entry is spent.
RefuseUndo ==
    /\ undo # NoUndo /\ ~undo.writing
    /\ \E s \in undo.sagas : ~Writable(s)
    /\ undo' = NoUndo
    /\ UNCHANGED <<world_vars, rows, sagas, queue, pass, stack, acts, faults>>

BeginUndo ==
    /\ undo # NoUndo /\ ~undo.writing
    /\ \A s \in undo.sagas : Writable(s)
    /\ undo' = [undo EXCEPT !.writing = TRUE]
    /\ UNCHANGED <<world_vars, rows, sagas, queue, pass, stack, acts, faults>>

\* withdraw_pending deletes whatever is queued against a row.
Withdrawn(targets) ==
    [i \in DOMAIN queue |->
        IF Pending(i) /\ queue[i].row \in targets
        THEN [queue[i] EXCEPT !.state = "deleted", !.attempts = 0] ELSE queue[i]]

Aborted(s) == [sagas EXCEPT ![s].phase = "Aborted"]

\* cancel_one: nothing is believed to have left the machine.
CancelOne(s) ==
    LET src == undo.read[s].src
        dst == undo.read[s].dst
    IN
    /\ Cancels(s)
    /\ queue' = Withdrawn({src, dst})
    /\ rows' = [r \in DOMAIN rows |->
                   [rows[r] EXCEPT !.gone = @ \/ r = dst, !.hidden = @ /\ r # src]]
    /\ sagas' = Aborted(s)

\* The copy is proven: the pending removal is withdrawn and the saga abandoned
\* first, then invert_one runs the same machine the other way.
InvertOne(s) ==
    LET src == undo.read[s].src
        dst == undo.read[s].dst
    IN
    /\ Inverts(s)
    /\ queue' = (IF Aborts(s) THEN Withdrawn({src}) ELSE queue)
                 \o SagaRows(Len(sagas) + 1, dst, src)
    /\ sagas' = Append(IF Aborts(s) THEN Aborted(s) ELSE sagas,
                       [src |-> dst, dst |-> src, phase |-> "Copying"])
    /\ rows' = [rows EXCEPT ![src].hidden = FALSE, ![dst].hidden = TRUE]

\* The copy's row has gone: the saga is abandoned and nothing put back.
AbandonOne(s) ==
    /\ undo.read[s].phase = "Confirmed" /\ ~Inverts(s)
    /\ queue' = Withdrawn({undo.read[s].src})
    /\ sagas' = Aborted(s)
    /\ UNCHANGED rows

\* An unproven copy is left exactly as it is, and so is a finished move whose
\* copy's row has gone.
SkipOne(s) ==
    /\ ~Aborts(s) /\ ~Inverts(s)
    /\ UNCHANGED <<rows, sagas, queue>>

\* The sagas of one undo, in id order and in one transaction: nothing else
\* happens between these steps.
UndoOne ==
    LET s == Least(undo.sagas) IN
    /\ undo.writing
    /\ undo.sagas # {}
    /\ CancelOne(s) \/ InvertOne(s) \/ AbandonOne(s) \/ SkipOne(s)
    /\ undo' = [undo EXCEPT !.sagas = @ \ {s}]
    /\ UNCHANGED <<world_vars, pass, stack, acts, faults>>

CommitUndo ==
    /\ undo.writing
    /\ undo.sagas = {}
    /\ undo' = NoUndo
    /\ UNCHANGED <<world_vars, rows, sagas, queue, pass, stack, acts, faults>>

-----------------------------------------------------------------------------
(* A drain pass of account a: list what is due, run the rows in id order.  *)

At(a, p) == pass[a].pc = p
SagaOf(a) == queue[pass[a].row].saga
Target(a) == rows[sagas[SagaOf(a)].dst].at

Go(a, p)  == pass' = [pass EXCEPT ![a].pc = p]
End(a, o) == pass' = [pass EXCEPT ![a] = [NoPass EXCEPT !.pc = "settle",
                          !.batch = pass[a].batch, !.row = pass[a].row, !.outcome = o]]

\* A pass over batch, or none once nothing of it is left.
PassOver(batch) == IF batch = {} THEN NoPass
                   ELSE [NoPass EXCEPT !.pc = "step", !.batch = batch]

\* pending_for: the rows that are due.  A row tried before is due or not yet.
ListDue(a) ==
    /\ At(a, "idle")
    /\ RowsOf(a) # {}
    /\ \E waiting \in SUBSET {i \in RowsOf(a) : queue[i].attempts > 0} :
          /\ waiting # RowsOf(a)
          /\ pass' = [pass EXCEPT ![a] = PassOver(RowsOf(a) \ waiting)]
    /\ UNCHANGED <<world_vars, rows, sagas, queue, user_vars, faults>>

\* The row a pass runs next; one withdrawn meanwhile still runs.
IsNext(a, i) == At(a, "step") /\ pass[a].batch # {} /\ i = Least(pass[a].batch)

Settled(a, i, o) ==
    pass' = [pass EXCEPT ![a] = [@ EXCEPT !.row = i, !.pc = "settle", !.outcome = o]]

\* copy, up to the first exchange: the saga and its destination are read.
CopyBegin(a, i) ==
    LET s == queue[i].saga
        phase == sagas[s].phase
    IN
    /\ IsNext(a, i)
    /\ queue[i].op = "copy"
    /\ \/ phase \in {"Confirmed", "Done"} /\ Settled(a, i, "Applied") /\ UNCHANGED sagas
       \/ phase = "Aborted" /\ Settled(a, i, "Obsolete") /\ UNCHANGED sagas
       \/ /\ phase \in {"Copying", "Unconfirmed"}
          /\ rows[sagas[s].dst].at \notin folders
          /\ sagas' = [sagas EXCEPT ![s].phase = "Aborted"]
          /\ Settled(a, i, "Failed")
       \/ /\ phase \in {"Copying", "Unconfirmed"}
          /\ rows[sagas[s].dst].at \in folders
          /\ pass' = [pass EXCEPT ![a] = [@ EXCEPT !.row = i, !.pc = "search", !.seen = phase]]
          /\ UNCHANGED sagas
    /\ UNCHANGED <<world_vars, rows, queue, user_vars, faults>>

FoundAt(a, u) == pass' = [pass EXCEPT ![a].pc = "confirm", ![a].uid = u]

FindableNone(a) == {}

\* find_by_message_id: the copies a search of the target's server can answer
\* with, those only marked \Deleted among them.
Findable(a) == IF hasMessageId THEN OnServer(Target(a)) ELSE {}

\* Confirm before append: a replay finds the earlier copy by its Message-ID.
\* An upload that could not be proven is never made twice.
CopySearch(a) ==
    /\ At(a, "search")
    /\ \/ Findable(a) # {} /\ FoundAt(a, Greatest(Findable(a)))
       \/ Findable(a) = {} /\ pass[a].seen = "Unconfirmed" /\ End(a, "Failed")
       \/ Findable(a) = {} /\ pass[a].seen = "Copying" /\ Go(a, "append")
       \/ hasMessageId /\ End(a, "Retry")
    /\ UNCHANGED <<world_vars, rows, sagas, queue, user_vars, faults>>

\* The upload.  It fails, or the server takes it and says where (APPENDUID) or
\* does not, or its answer is lost.
CopyAppend(a) ==
    LET u == Len(copies) + 1 IN
    /\ At(a, "append")
    /\ \/ End(a, "Retry") /\ UNCHANGED copies
       \/ /\ Target(a) \in folders
          /\ copies' = Append(copies, [at |-> Target(a), deleted |-> FALSE, gone |-> FALSE])
          /\ \/ a \in uidPlus /\ FoundAt(a, u)
             \/ Go(a, "prove")
             \/ End(a, "Retry")
    /\ UNCHANGED <<fixed_vars, folders, rows, sagas, queue, user_vars, faults>>

\* transition refuses what the phase the saga has now does not allow.
Advance(s, p) == sagas' = IF Allows(sagas[s].phase, p)
                          THEN [sagas EXCEPT ![s].phase = p] ELSE sagas

\* Without APPENDUID the search is the proof; without either the saga stops.
CopyProve(a) ==
    /\ At(a, "prove")
    /\ \/ Findable(a) # {} /\ FoundAt(a, Greatest(Findable(a))) /\ UNCHANGED sagas
       \/ Advance(SagaOf(a), "Unconfirmed") /\ End(a, "Failed")
    /\ UNCHANGED <<world_vars, rows, queue, user_vars, faults>>

\* confirm: the phase first ...
Confirm(a) ==
    /\ At(a, "confirm")
    /\ Advance(SagaOf(a), "Confirmed")
    /\ IF Allows(sagas[SagaOf(a)].phase, "Confirmed") THEN Go(a, "record")
                                                      ELSE End(a, "Failed")
    /\ UNCHANGED <<world_vars, rows, queue, user_vars, faults>>

RecordRow(a) ==
    /\ At(a, "record")
    /\ rows' = [rows EXCEPT ![sagas[SagaOf(a)].dst].uid = pass[a].row]
    /\ End(a, "Applied")
    /\ UNCHANGED <<world_vars, sagas, queue, user_vars, faults>>

\* ... and then where it landed, onto the saga and the row the user sees.
RecordUid(a) ==
    /\ At(a, "record")
    /\ rows' = [rows EXCEPT ![sagas[SagaOf(a)].dst].uid = pass[a].uid]
    /\ End(a, "Applied")
    /\ UNCHANGED <<world_vars, sagas, queue, user_vars, faults>>

WaitsForAsk(phase) == phase = "Unconfirmed"
Waits(phase) == phase \in {"Copying", "Unconfirmed"}

\* remove, up to the first exchange.  Until the copy is proven it waits.
RemoveBegin(a, i) ==
    LET s == queue[i].saga
        phase == sagas[s].phase
        src == sagas[s].src
        uid == IF queue[i].snap # NoUid THEN queue[i].snap
               ELSE IF Live(src) THEN rows[src].uid ELSE NoUid
    IN
    /\ IsNext(a, i)
    /\ queue[i].op = "remove"
    /\ \/ phase = "Done" /\ Settled(a, i, "Applied") /\ UNCHANGED sagas
       \/ phase = "Aborted" /\ Settled(a, i, "Obsolete") /\ UNCHANGED sagas
       \/ Waits(phase) /\ Settled(a, i, "Retry") /\ UNCHANGED sagas
       \/ \* nothing names a server copy: settled, since retrying cannot help
          /\ phase \in Phases \ {"Done", "Aborted"} /\ ~Waits(phase)
          /\ uid = NoUid \/ a \notin folders
          /\ sagas' = [sagas EXCEPT ![s].phase = "Done"]
          /\ Settled(a, i, "Applied")
       \/ /\ phase \in Phases \ {"Done", "Aborted"} /\ ~Waits(phase)
          /\ uid # NoUid /\ a \in folders
          /\ pass' = [pass EXCEPT ![a] = [@ EXCEPT !.row = i, !.pc = "mark", !.uid = uid]]
          /\ UNCHANGED sagas
    /\ UNCHANGED <<world_vars, rows, queue, user_vars, faults>>

MarkDeleted(u) == copies' = [copies EXCEPT ![u].deleted = TRUE]

\* UID STORE of a UID the mailbox does not have is answered OK.
RemoveMark(a) ==
    /\ At(a, "mark")
    /\ \/ MarkDeleted(pass[a].uid) /\ (Go(a, "expunge") \/ End(a, "Retry"))
       \/ End(a, "Retry") /\ UNCHANGED copies
    /\ UNCHANGED <<fixed_vars, folders, rows, sagas, queue, user_vars, faults>>

RemoveAnyway(a) ==
    /\ At(a, "expunge")
    /\ \/ copies' = IF a \in uidPlus THEN [copies EXCEPT ![pass[a].uid].gone = TRUE] ELSE copies
       \/ UNCHANGED copies
    /\ Go(a, "finish")
    /\ UNCHANGED <<fixed_vars, folders, rows, sagas, queue, user_vars, faults>>

\* Without UIDPLUS a targeted expunge sends nothing and succeeds.
RemoveExpunge(a) ==
    /\ At(a, "expunge")
    /\ \/ /\ copies' = IF a \in uidPlus THEN [copies EXCEPT ![pass[a].uid].gone = TRUE] ELSE copies
          /\ Go(a, "finish") \/ End(a, "Retry")
       \/ End(a, "Retry") /\ UNCHANGED copies
    /\ UNCHANGED <<fixed_vars, folders, rows, sagas, queue, user_vars, faults>>

RemoveFinish(a) ==
    /\ At(a, "finish")
    /\ Advance(SagaOf(a), "Done")
    /\ End(a, IF Allows(sagas[SagaOf(a)].phase, "Done") THEN "Applied" ELSE "Failed")
    /\ UNCHANGED <<world_vars, rows, queue, user_vars, faults>>

\* settle: the outcome goes onto the row.  A withdrawn row is not found, and
\* the error ends the pass.
SettleMissing(a) ==
    /\ At(a, "settle")
    /\ queue[pass[a].row].state = "deleted"
    /\ pass' = [pass EXCEPT ![a] = NoPass]
    /\ UNCHANGED <<world_vars, rows, sagas, queue, user_vars, faults>>

Uncounted(row) == row
Tried(row) == [row EXCEPT !.attempts = @ + 1]

\* The attempts of a settled row are not read again.
Settle(row, state) == [row EXCEPT !.state = state, !.attempts = 0]

SettleRow(a) ==
    LET i == pass[a].row
        o == pass[a].outcome
        again == o = "Retry" /\ queue[i].attempts + 1 < MaxAttempts
    IN
    /\ At(a, "settle")
    /\ Pending(i)
    /\ queue' = [queue EXCEPT ![i] =
                    IF o \in {"Applied", "Obsolete"} THEN Settle(@, "done")
                    ELSE IF again THEN Tried(@)
                    ELSE Settle(@, "failed")]
    /\ pass' = [pass EXCEPT ![a] = PassOver(pass[a].batch \ {i})]
    /\ UNCHANGED <<world_vars, rows, sagas, user_vars, faults>>

-----------------------------------------------------------------------------
(* The clock, a sync pass of a mailbox, its removal, and process death.    *)

\* A sync of the mailbox deletes the rows whose UID has gone from the server.
SyncVanished(a) ==
    LET vanished == {r \in DOMAIN rows : Live(r) /\ rows[r].at = a
                        /\ rows[r].uid \notin OnServer(a) \cup {NoUid}} IN
    /\ vanished # {}
    /\ rows' = [r \in DOMAIN rows |->
                   IF r \in vanished THEN [rows[r] EXCEPT !.gone = TRUE] ELSE rows[r]]
    /\ UNCHANGED <<world_vars, sagas, queue, pass, user_vars, faults>>

\* The row a copy on the server belongs to: the one with its UID, else a visible
\* one that has no UID yet and carries its Message-ID (find_awaiting_identity).
Placed(a, u)   == \E r \in DOMAIN rows : Live(r) /\ rows[r].at = a /\ rows[r].uid = u
Awaiting(a, r) == hasMessageId /\ Live(r) /\ ~rows[r].hidden
                     /\ rows[r].at = a /\ rows[r].uid = NoUid

SyncAdopts(a, r, u) ==
    /\ u \in OnServer(a) /\ ~Placed(a, u)
    /\ Awaiting(a, r)
    /\ rows' = [rows EXCEPT ![r].uid = u]
    /\ UNCHANGED <<world_vars, sagas, queue, pass, user_vars, faults>>

\* A mailbox that holds no copy goes, and the rows in it with it.
FolderRemoved(a) ==
    /\ a \in folders \ {Home}
    /\ OnServer(a) = {}
    /\ folders' = folders \ {a}
    /\ rows' = [r \in DOMAIN rows |->
                   IF rows[r].at = a THEN [rows[r] EXCEPT !.gone = TRUE] ELSE rows[r]]
    /\ UNCHANGED <<fixed_vars, copies, sagas, queue, pass, user_vars, faults>>

\* A transaction that has not committed is rolled back: to die in one is to die
\* before it.
Crash ==
    /\ faults < MaxFaults
    /\ ~undo.writing
    /\ faults' = faults + 1
    /\ pass' = [a \in Accounts |-> NoPass]
    /\ stack' = <<>>
    /\ undo' = NoUndo
    /\ UNCHANGED <<world_vars, rows, sagas, queue, acts>>

-----------------------------------------------------------------------------
Init ==
    /\ hasMessageId \in BOOLEAN
    /\ uidPlus \in UidPlusSets
    /\ copies = <<[at |-> Home, deleted |-> FALSE, gone |-> FALSE]>>
    /\ folders = Accounts
    /\ rows = <<[NewRow(Home) EXCEPT !.uid = 1]>>
    /\ sagas = <<>>
    /\ queue = <<>>
    /\ pass = [a \in Accounts |-> NoPass]
    /\ stack = <<>>
    /\ undo = NoUndo
    /\ acts = 0
    /\ faults = 0

UserStep ==
    /\ ~undo.writing
    /\ \/ \E r \in DOMAIN rows : OtherCommand(r) \/ \E t \in Accounts : Move(r, t)
       \/ StartUndo \/ RefuseUndo \/ BeginUndo

CopyStep(a) == CopySearch(a) \/ CopyAppend(a) \/ CopyProve(a) \/ Confirm(a) \/ RecordUid(a)
RemoveStep(a) == RemoveMark(a) \/ RemoveExpunge(a) \/ RemoveFinish(a)

DrainerStep(a) ==
    /\ ~undo.writing
    /\ \/ ListDue(a)
       \/ \E i \in DOMAIN queue : CopyBegin(a, i) \/ RemoveBegin(a, i)
       \/ CopyStep(a) \/ RemoveStep(a)
       \/ SettleMissing(a) \/ SettleRow(a)

SyncStep(a) ==
    /\ ~undo.writing
    /\ \/ SyncVanished(a) \/ FolderRemoved(a)
       \/ \E r \in DOMAIN rows, u \in DOMAIN copies : SyncAdopts(a, r, u)

\* The undo's transaction holds the store's one writer until it commits.
Next ==
    \/ UserStep
    \/ UndoOne \/ CommitUndo
    \/ \E a \in Accounts : DrainerStep(a) \/ SyncStep(a)
    \/ Crash

Spec == Init /\ [][Next]_vars

\* Each account's drain pass is run again while it has due work, and a
\* transaction that has begun ends; nobody owes the user, a sync or a crash.
Fairness == /\ \A a \in Accounts : WF_vars(DrainerStep(a))
            /\ WF_vars(UndoOne \/ CommitUndo)
FairSpec == Spec /\ Fairness

-----------------------------------------------------------------------------
(* Properties.                                                             *)

Rows == [at : Accounts, uid : 0 .. Len(copies), hidden : BOOLEAN, gone : BOOLEAN]
QueueRows ==
    [op : {"copy", "remove"}, saga : DOMAIN sagas, row : DOMAIN rows,
     snap : 0 .. Len(copies), state : {"pending", "done", "failed", "deleted"},
     attempts : 0 .. MaxAttempts]
Passes ==
    [pc : {"idle", "step", "search", "append", "prove", "confirm", "record",
           "mark", "expunge", "finish", "settle"},
     batch : SUBSET DOMAIN queue, row : 0 .. Len(queue), seen : Phases,
     uid : 0 .. Len(copies),
     outcome : {"None", "Applied", "Obsolete", "Retry", "Failed"}]

\* Every variable holds what the source's types allow, and every reference
\* between rows, sagas, queue rows and copies resolves.
TypeOK ==
    /\ hasMessageId \in BOOLEAN
    /\ uidPlus \in UidPlusSets
    /\ copies \in Seq([at : Accounts, deleted : BOOLEAN, gone : BOOLEAN])
    /\ folders \subseteq Accounts
    /\ rows \in Seq(Rows)
    /\ sagas \in Seq([src : DOMAIN rows, dst : DOMAIN rows, phase : Phases])
    /\ queue \in Seq(QueueRows)
    /\ pass \in [Accounts -> Passes]
    /\ stack \in Seq(DOMAIN rows)
    /\ undo.sagas \subseteq DOMAIN sagas
    /\ undo.writing \in BOOLEAN
    /\ acts \in 0 .. MaxActs
    /\ faults \in 0 .. MaxFaults

\* Wherever the two drainers, the user, a sync and a crash stand, one server at
\* least has the message: "the only reachable failure is a duplicate, never a
\* loss" (cross_account.rs:8).
NeverLost == \E a \in Accounts : OnServer(a) # {}

\* A message with a Message-ID is never uploaded to a server that has it, by
\* however many moves, retries, lost answers and restarts (phase 1 is
\* idempotent by Message-ID, cross_account.rs:80).
OneCopyEach == hasMessageId => \A a \in Accounts : Cardinality(OnServer(a)) <= 1

\* A row, and a removal's snapshot of one, names a copy of its own account's
\* server: a copy of a row does not take the identity another server minted.
IdentityIsOwn ==
    /\ \A r \in DOMAIN rows : rows[r].uid # NoUid => copies[rows[r].uid].at = rows[r].at
    /\ \A i \in DOMAIN queue : queue[i].snap # NoUid =>
          copies[queue[i].snap].at = rows[queue[i].row].at

\* A move that is Done and knew what to remove has removed it, where the server
\* can expunge one message: Done is not recorded before the exchange it is for.
DoneIsRemoved ==
    \A i \in DOMAIN queue :
        LET u == queue[i].snap IN
        /\ queue[i].op = "remove" /\ sagas[queue[i].saga].phase = "Done"
        /\ u # NoUid /\ copies[u].at \in uidPlus
        => copies[u].gone

\* However the removal waits for the copy and both for their retries, the queue
\* is always drained again: a saga waits for ever on nothing.
ComesToRest == []<>AtRest
=============================================================================

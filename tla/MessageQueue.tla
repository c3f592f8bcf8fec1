---------------------------- MODULE MessageQueue ----------------------------
(***************************************************************************)
(* Flag changes and moves of messages: the local write and its queue row,  *)
(* the drain pass that folds the rows and tells the server, and the sync   *)
(* passes that read mailboxes back beside it (postio-storage/src/actions,  *)
(* the operation queue and message repositories, postio-sync/src/drain.rs  *)
(* and resync.rs).                                                         *)
(*                                                                         *)
(* One action is one store transaction or one command to the server.  A    *)
(* message has one copy on the server and, locally, numbered rows: a sync  *)
(* that cannot place a copy inserts one.  No other client is at work, and  *)
(* a sync pass reads the whole mailbox.                                    *)
(***************************************************************************)
EXTENDS Coalesce, FiniteSets

CONSTANTS
    Messages,
    Mailboxes,   \* of one account, each with a UIDVALIDITY of its own
    Inbox, Trash,
    Flags,
    Copies,      \* bound: local rows a message can have
    MaxAttempts, \* RetryPolicy::max_attempts
    MaxRows,     \* bound: queue rows ever enqueued
    Lanes,       \* sync passes that may run at once
    MaxFaults    \* bound: process deaths and passes cut short by an error

ASSUME MailboxesAssumption ==
    /\ Inbox \in Mailboxes /\ Trash \in Mailboxes
    /\ {"none", "gone"} \cap Mailboxes = {}  \* what a row without one has instead
ASSUME NumbersAssumption ==
    /\ Copies \in Nat \ {0}
    /\ MaxAttempts \in Nat \ {0}
    /\ MaxRows \in Nat
    /\ Lanes \in Nat
    /\ MaxFaults \in Nat

VARIABLES
    server,  \* where the server has each message: mailbox, UID, flags
    uidNext, \* each mailbox's UIDNEXT
    local,   \* the rows of messages
    queue,   \* the operation_queue rows, in id order
    pc,      \* where the drainer is
    plan,    \* the steps it still has to run
    folded,  \* the rows that cancelled out and are still to be marked
    step,    \* the step being run
    address, \* the mailbox and remote id resolved for it
    outcome, \* what the step came to
    passes,  \* each mailbox's sync pass: what it knew and what it was told
    faults,
    wish,    \* history: what the user last asked of each message
    astray,  \* history: messages some request of which was lost on the way
    doubled  \* history: messages a sync gave a row beside one in use

pass_vars  == <<pc, plan, folded, step, address, outcome>>
server_vars == <<server, uidNext>>
history    == <<wish, astray, doubled>>
vars == <<server_vars, local, queue, pass_vars, passes, faults, history>>

-----------------------------------------------------------------------------
Rows == Messages \X (1 .. Copies)
MessageOf(r) == r[1]

\* A remote id is the mailbox's UIDVALIDITY, here the mailbox, and a UID.
NoRid  == [box |-> "none", uid |-> 0]
Absent == [box |-> "none", rid |-> NoRid, flags |-> {}]
Deleted == [box |-> "gone", rid |-> NoRid, flags |-> {}]
Rids   == [box : Mailboxes, uid : Nat \ {0}]

Present(r) == local[r].box \in Mailboxes
ServerRid(m) == [box |-> server[m].box, uid |-> server[m].uid]

Ops == {FlagOp(k, F) : k \in FlagKinds, F \in SUBSET Flags}
       \cup {MoveOp(k, b, c) : k \in MoveKinds, b \in Mailboxes, c \in Mailboxes}
QueueRow == [target : Rows, op : Ops, snapshot : Rids \cup {NoRid},
             state : {"pending", "done", "failed"}, attempts : Nat, due : BOOLEAN]

Pending(i) == queue[i].state = "pending"
Queued(r)  == {i \in DOMAIN queue : Pending(i) /\ queue[i].target = r}
InUse(r)   == Present(r) \/ Queued(r) # {}
Least(S)   == CHOOSE i \in S : \A j \in S : i <= j

\* enqueue and enqueue_many: the row remembers the remote id as it is now.
Enqueue(r, op) ==
    /\ Len(queue) < MaxRows
    /\ queue' = Append(queue, [target |-> r, op |-> op, snapshot |-> local[r].rid,
                               state |-> "pending", attempts |-> 0, due |-> TRUE])

NoStep == [rows |-> {}]
NoAddress == [box |-> "none", rid |-> NoRid]
NoPass == [known |-> {}, listing |-> {}, stage |-> "none"]

Lost(S) == astray' = astray \cup S

-----------------------------------------------------------------------------
(* The user's actions: local at once, queued for the server.               *)

\* set_flag, on a row whose flag differs.
ChangeFlag(r, f) ==
    /\ Present(r)
    /\ \/ /\ f \notin local[r].flags
          /\ Enqueue(r, FlagOp("SetFlags", {f}))
          /\ local' = [local EXCEPT ![r].flags = @ \cup {f}]
          /\ wish' = [wish EXCEPT ![MessageOf(r)].flags = @ \cup {f}]
       \/ /\ f \in local[r].flags
          /\ Enqueue(r, FlagOp("ClearFlags", {f}))
          /\ local' = [local EXCEPT ![r].flags = @ \ {f}]
          /\ wish' = [wish EXCEPT ![MessageOf(r)].flags = @ \ {f}]
    /\ UNCHANGED <<server_vars, pass_vars, passes, faults, astray, doubled>>

\* relocate, which undo also goes through: the queue row first, then the row's
\* coordinates are cleared.  To the trash it is a Delete, or a Move of the user's.
Relocate(r, to) ==
    /\ Present(r)
    /\ local[r].box # to
    /\ \E kind \in IF to = Trash THEN MoveKinds ELSE {"Move"} :
          Enqueue(r, MoveOp(kind, local[r].box, to))
    /\ local' = [local EXCEPT ![r].box = to, ![r].rid = NoRid]
    /\ wish' = [wish EXCEPT ![MessageOf(r)].box = to]
    /\ UNCHANGED <<server_vars, pass_vars, passes, faults, astray, doubled>>

-----------------------------------------------------------------------------
(* The drain pass.                                                         *)

Due == {i \in DOMAIN queue : Pending(i) /\ queue[i].due}

\* The due rows of one message, in order, and what they fold to.
BatchOf(r) ==
    LET mine == {i \in Due : queue[i].target = r}
    IN  Coalesced([k \in 1 .. Cardinality(mine) |->
            LET i == CHOOSE i \in mine : Cardinality({j \in mine : j <= i}) = k
            IN  [id |-> i, op |-> queue[i].op]])
StepsOf(r) == {[target |-> r, op |-> s.op, rows |-> s.rows] : s \in Range(BatchOf(r).steps)}

\* The fold that is not exact: a message deleted and then moved out of the trash,
\* but to where it had first been, keeps the trash as the source of its step, and
\* is not there.
RestoresElsewhere(r) ==
    LET mine == Due \cap Queued(r) IN
    \E i, j \in mine :
        /\ i < j /\ queue[i].op.kind = "Delete" /\ queue[j].op.from = queue[i].op.to
        /\ \/ queue[j].op.to # queue[i].op.from
           \/ \E h \in mine : /\ h < i /\ queue[h].op.kind \in MoveKinds
                            /\ queue[h].op.to = queue[i].op.from

StartPass ==
    /\ pc = "idle"
    /\ Due # {}
    /\ plan' = UNION {StepsOf(r) : r \in Rows}
    /\ folded' = UNION {BatchOf(r).obsolete : r \in Rows}
    /\ pc' = "fold"
    /\ Lost({MessageOf(r) : r \in {r \in Rows : RestoresElsewhere(r)}})
    /\ UNCHANGED <<server_vars, local, queue, step, address, outcome, passes, faults,
                   wish, doubled>>

\* Rows that undid each other are settled without a round trip.
SettleFolded ==
    /\ pc = "fold"
    /\ IF folded = {}
       THEN pc' = "step" /\ UNCHANGED <<queue, folded>>
       ELSE /\ queue' = [queue EXCEPT ![Least(folded)].state = "done"]
            /\ folded' = folded \ {Least(folded)}
            /\ UNCHANGED pc
    /\ UNCHANGED <<server_vars, local, plan, step, address, outcome, passes, faults, history>>

\* Mutant: the steps of a pass that died are still there for the next one.
StopPassKeepsPlan ==
    pc' = "idle" /\ plan' = plan /\ folded' = {} /\ step' = NoStep
    /\ address' = NoAddress /\ outcome' = "None"

\* What a pass holds is in memory: it goes when the pass does.
StopPass ==
    /\ pc' = "idle"
    /\ plan' = {}
    /\ folded' = {}
    /\ step' = NoStep
    /\ address' = NoAddress
    /\ outcome' = "None"

EndPass ==
    /\ pc = "step"
    /\ plan = {}
    /\ StopPass
    /\ UNCHANGED <<server_vars, local, queue, passes, faults, history>>

Head0(s) == Least(s.rows)
NextStep == CHOOSE s \in plan : \A t \in plan : Head0(s) <= Head0(t)

\* leaving_after: the first move of the row queued after i and not yet settled
\* that remembers where the message was.
LeavingAfter(r, i) ==
    {j \in Queued(r) : j > i /\ queue[j].op.kind \in MoveKinds /\ queue[j].snapshot # NoRid}

\* The mailbox to select and the remote id to name in it.
AddressOf(s) ==
    LET row == local[s.target]
        left == LeavingAfter(s.target, Head0(s))
    IN  CASE s.op.kind \in MoveKinds ->
               [box |-> s.op.from,
                rid |-> IF queue[Head0(s)].snapshot # NoRid
                        THEN queue[Head0(s)].snapshot ELSE row.rid]
          [] s.op.kind \in FlagKinds /\ row.rid = NoRid /\ left # {} ->
               [box |-> queue[Least(left)].op.from, rid |-> queue[Least(left)].snapshot]
          [] OTHER -> [box |-> row.box, rid |-> row.rid]

\* A row runs although an earlier one of its message is still to run: a deferred
\* row keeps its place only among the rows that are due.
Overtakes(s) == \E i \in Queued(s.target) \ s.rows : i < Head0(s)

\* The step is decided: its rows are marked next.  A retry that uses up the
\* attempts is a failure.
Exhausted(s) == \E i \in s.rows : queue[i].attempts + 1 >= MaxAttempts
Decide(s, o) ==
    /\ outcome' = IF o = "Retry" /\ Exhausted(s) THEN "Failed" ELSE o
    /\ pc' = "settle"

\* resolve: read the message and the queue, once.
Resolve ==
    LET s == NextStep  m == MessageOf(s.target) IN
    /\ pc = "step"
    /\ plan # {}
    /\ plan' = plan \ {s}
    /\ step' = s
    /\ \/ /\ Present(s.target) /\ AddressOf(s).rid # NoRid
          /\ address' = AddressOf(s)
          /\ pc' = "ready"
          /\ Lost(IF Overtakes(s) THEN {m} ELSE {})
          /\ UNCHANGED outcome
       \/ /\ ~Present(s.target) \/ AddressOf(s).rid = NoRid
          /\ Decide(s, "Obsolete")
          /\ Lost({m})
          /\ UNCHANGED address
    /\ UNCHANGED <<server_vars, local, queue, folded, passes, faults, wish, doubled>>

\* Mutant: a UID is a UID, whatever mailbox numbered it.
NeverStale == FALSE

\* wire_set: the id has to be of the selected mailbox's generation.
StaleAddress == address.rid.box # address.box

\* The message the address names on the server, if it names one.
Named == {m \in Messages : server[m].box = address.box /\ server[m].uid = address.rid.uid}

\* The server carries out the step on what the address names.
Serve ==
    IF step.op.kind \in FlagKinds
    THEN /\ server' = [m \in Messages |->
                          IF m \in Named
                          THEN [server[m] EXCEPT !.flags = Performed([flags |-> @], step.op).flags]
                          ELSE server[m]]
         /\ UNCHANGED uidNext
    ELSE /\ server' = [m \in Messages |->
                          IF m \in Named
                          THEN [box |-> step.op.to, uid |-> uidNext[step.op.to],
                                flags |-> server[m].flags]
                          ELSE server[m]]
         /\ uidNext' = [uidNext EXCEPT ![step.op.to] = @ + Cardinality(Named)]

\* The id is not of this mailbox's generation: nothing is sent.
RefuseStale ==
    /\ pc = "ready"
    /\ StaleAddress
    /\ Decide(step, "Failed")
    /\ Lost({MessageOf(step.target)})
    /\ UNCHANGED <<server_vars, local, queue, plan, folded, step, address, passes,
                   faults, wish, doubled>>

\* STORE: touching nothing means the message is not there.
Store ==
    /\ pc = "ready"
    /\ ~StaleAddress
    /\ step.op.kind \in FlagKinds
    /\ Serve
    /\ Decide(step, IF Named = {} THEN "Obsolete" ELSE "Applied")
    /\ Lost(IF Named = {} THEN {MessageOf(step.target)} ELSE {})
    /\ UNCHANGED <<local, queue, plan, folded, step, address, passes, faults, wish, doubled>>

\* MOVE: applied whatever it moved; COPYUID may be left out.
Move ==
    /\ pc = "ready"
    /\ ~StaleAddress
    /\ step.op.kind \in MoveKinds
    /\ Serve
    /\ \/ Named # {} /\ outcome' = "Applied" /\ pc' = "adopt"
       \/ Decide(step, "Applied")
    /\ Lost(IF Named = {} THEN {MessageOf(step.target)} ELSE {})
    /\ UNCHANGED <<local, queue, plan, folded, step, address, passes, faults, wish, doubled>>

\* A connection that failed before the command reached the server, or a refusal.
Unserved ==
    /\ pc = "ready"
    /\ ~StaleAddress
    /\ \E o \in {"Retry", "Failed"} : Decide(step, o)
    /\ Lost(IF outcome' = "Failed" THEN {MessageOf(step.target)} ELSE {})
    /\ UNCHANGED <<server_vars, local, queue, plan, folded, step, address, passes,
                   faults, wish, doubled>>

\* The server carried the command out and its answer did not arrive.
ReplyLost ==
    /\ pc = "ready"
    /\ ~StaleAddress
    /\ Serve
    /\ Decide(step, "Retry")
    /\ Lost({MessageOf(step.target)})
    /\ UNCHANGED <<local, queue, plan, folded, step, address, passes, faults, wish, doubled>>

\* adopt_moved_identity: COPYUID names the copy; only a row still in the
\* destination with no identity takes it.
Adopt ==
    /\ pc = "adopt"
    /\ pc' = "settle"
    /\ LET r == step.target
           landed == [box |-> step.op.to, uid |-> uidNext[step.op.to] - 1]
       IN  local' = IF local[r].box = step.op.to /\ local[r].rid = NoRid
                    THEN [local EXCEPT ![r].rid = landed] ELSE local
    /\ UNCHANGED <<server_vars, queue, plan, folded, step, address, outcome, passes,
                   faults, history>>

\* Mutant: a deferral that is not counted.
SettledUncounted(row) ==
    CASE outcome = "Failed" -> [row EXCEPT !.state = "failed", !.attempts = @ + 1]
      [] outcome = "Retry"  -> [row EXCEPT !.due = FALSE]
      [] OTHER              -> [row EXCEPT !.state = "done"]

\* settle: one write per row.
Settled(row) ==
    CASE outcome = "Failed" -> [row EXCEPT !.state = "failed", !.attempts = @ + 1]
      [] outcome = "Retry"  -> [row EXCEPT !.attempts = @ + 1, !.due = FALSE]
      [] OTHER              -> [row EXCEPT !.state = "done"]

SettleRow ==
    /\ pc = "settle"
    /\ queue' = [queue EXCEPT ![Least(step.rows)] = Settled(@)]
    /\ IF step.rows = {Least(step.rows)}
       THEN pc' = "step" /\ step' = NoStep /\ address' = NoAddress /\ outcome' = "None"
       ELSE /\ step' = [step EXCEPT !.rows = @ \ {Least(@)}]
            /\ UNCHANGED <<pc, address, outcome>>
    /\ UNCHANGED <<server_vars, local, plan, folded, passes, faults, history>>

BackoffElapses(i) ==
    /\ Pending(i)
    /\ ~queue[i].due
    /\ queue' = [queue EXCEPT ![i].due = TRUE]
    /\ UNCHANGED <<server_vars, local, pass_vars, passes, faults, history>>

-----------------------------------------------------------------------------
(* A sync pass over one mailbox.  Passes over several run side by side.    *)

RowsIn(b) == {r \in Rows : local[r].box = b}
Held(b)   == {local[r].rid : r \in RowsIn(b)} \ {NoRid}
Listing(b) == {[msg |-> m, rid |-> ServerRid(m), flags |-> server[m].flags] :
                  m \in {m \in Messages : server[m].box = b}}
RidsOf(listing) == {c.rid : c \in listing}

SyncFetch(b) ==
    /\ passes[b] = NoPass
    /\ Cardinality({c \in Mailboxes : passes[c] # NoPass}) < Lanes
    /\ passes' = [passes EXCEPT ![b] =
                     [known |-> Held(b), listing |-> Listing(b), stage |-> "store"]]
    /\ UNCHANGED <<server_vars, local, queue, pass_vars, faults, history>>

\* shadowed_by_pending_operation: an unsettled move out of the mailbox names it.
Shadowed(c) ==
    \E i \in DOMAIN queue :
        /\ Pending(i)
        /\ queue[i].op.kind \in MoveKinds
        /\ queue[i].op.from = c.rid.box
        /\ queue[i].snapshot = c.rid

\* Mutant: the server's flags are the row's flags.
ServersFlags(r, flags) == flags

\* with_unacknowledged: the server's flags, and on top what the queue holds.
Merged(r, flags) ==
    LET unacknowledged == {i \in Queued(r) : queue[i].op.kind \in FlagKinds}
        ops == [k \in 1 .. Cardinality(unacknowledged) |->
                  queue[CHOOSE i \in unacknowledged :
                           Cardinality({j \in unacknowledged : j <= i}) = k].op]
    IN  Replayed([flags |-> flags], ops).flags

\* The rows a fetched copy can be: one that carries its id, else one in the
\* mailbox still waiting for an id, else a new one.
RowFor(c) ==
    LET b == c.rid.box
        mine == {k \in 1 .. Copies : local[<<c.msg, k>>].box = b}
        same == {k \in mine : local[<<c.msg, k>>].rid = c.rid}
        awaiting == {k \in mine : local[<<c.msg, k>>].rid = NoRid}
        fresh == {k \in 1 .. Copies : local[<<c.msg, k>>] = Absent}
    IN  IF same # {} THEN {<<c.msg, Least(same)>>}
        ELSE IF awaiting # {} THEN {<<c.msg, Least(awaiting)>>}
        ELSE IF fresh # {} THEN {<<c.msg, Least(fresh)>>}
        ELSE {}

\* upsert_batch.
SyncStore(b) ==
    LET news == {c \in passes[b].listing : ~Shadowed(c)}
        second == {c \in news : \E r \in Rows \ RowFor(c) : MessageOf(r) = c.msg /\ InUse(r)}
    IN
    /\ passes[b].stage = "store"
    /\ local' = [r \in Rows |->
                    IF \E c \in news : r \in RowFor(c)
                    THEN LET c == CHOOSE c \in news : r \in RowFor(c)
                         IN  [box |-> b, rid |-> c.rid, flags |-> Merged(r, c.flags)]
                    ELSE local[r]]
    /\ passes' = [passes EXCEPT ![b].stage = "reconcile"]
    /\ Lost({c.msg : c \in news \ Listing(b)})
    /\ doubled' = doubled \cup {c.msg : c \in second}
    /\ UNCHANGED <<server_vars, queue, pass_vars, faults, wish>>

\* reconcile_vanished: rows the server no longer holds go, when their number is
\* the one the counts of the fetch call for.
SyncReconcile(b) ==
    LET expected == passes[b].known \ RidsOf(passes[b].listing)
        vanished == passes[b].known \ RidsOf(Listing(b))
    IN
    /\ passes[b].stage = "reconcile"
    /\ local' = [r \in Rows |->
                    IF /\ r \in RowsIn(b) /\ local[r].rid \in vanished
                       /\ expected # {}
                       /\ Cardinality(vanished) = Cardinality(expected)
                    THEN Deleted ELSE local[r]]
    /\ passes' = [passes EXCEPT ![b] = NoPass]
    /\ UNCHANGED <<server_vars, queue, pass_vars, faults, history>>

-----------------------------------------------------------------------------
(* Faults.  What a pass holds is in memory: rows it had decided about and  *)
(* not yet marked are folded and run again with what came after them.      *)

Interrupt ==
    /\ faults < MaxFaults
    /\ faults' = faults + 1
    /\ Lost({MessageOf(queue[i].target) : i \in folded \cup step.rows})
    /\ StopPass
    /\ UNCHANGED <<server_vars, local, queue, wish, doubled>>

\* A store call of the pass made with `?` fails and the pass ends there.
PassError == pc # "idle" /\ Interrupt /\ UNCHANGED passes

Crash == Interrupt /\ passes' = [b \in Mailboxes |-> NoPass]

-----------------------------------------------------------------------------
\* Synced mailboxes, each with a first message; the inbox has one.
Homes == {home \in [Messages -> Mailboxes] :
             /\ \E m \in Messages : home[m] = Inbox
             /\ \A m, n \in Messages : home[m] = home[n] => m = n}

Init ==
    /\ \E home \in Homes :
          /\ server = [m \in Messages |-> [box |-> home[m], uid |-> 1, flags |-> {}]]
          /\ wish = [m \in Messages |-> [box |-> home[m], flags |-> {}]]
    /\ uidNext = [b \in Mailboxes |-> 2]
    /\ local = [r \in Rows |-> IF r[2] = 1
                               THEN [box |-> server[r[1]].box, rid |-> ServerRid(r[1]),
                                     flags |-> {}]
                               ELSE Absent]
    /\ queue = <<>>
    /\ pc = "idle"
    /\ plan = {}
    /\ folded = {}
    /\ step = NoStep
    /\ address = NoAddress
    /\ outcome = "None"
    /\ passes = [b \in Mailboxes |-> NoPass]
    /\ faults = 0
    /\ astray = {}
    /\ doubled = {}

UserStep(r) ==
    \/ \E f \in Flags : ChangeFlag(r, f)
    \/ \E b \in Mailboxes : Relocate(r, b)

ServeStep == RefuseStale \/ Store \/ Move \/ Unserved \/ ReplyLost
DrainerStep ==
    \/ StartPass \/ SettleFolded \/ EndPass
    \/ Resolve \/ ServeStep \/ Adopt \/ SettleRow

SyncStep(b) == SyncFetch(b) \/ SyncStore(b) \/ SyncReconcile(b)

Next ==
    \/ \E r \in Rows : UserStep(r)
    \/ DrainerStep
    \/ \E i \in DOMAIN queue : BackoffElapses(i)
    \/ \E b \in Mailboxes : SyncStep(b)
    \/ PassError \/ Crash

Spec == Init /\ [][Next]_vars

\* The engine keeps draining and syncing while it is alive, and time passes; the
\* user, the server's answers and faults owe nothing.
Fairness ==
    /\ WF_vars(DrainerStep)
    /\ \A i \in 1 .. MaxRows : WF_vars(i \in DOMAIN queue /\ BackoffElapses(i))
FairSpec == Spec /\ Fairness

-----------------------------------------------------------------------------
(* Properties.                                                             *)

Steps == [target : Rows, op : Ops, rows : SUBSET (DOMAIN queue)]
Phases == {"idle", "fold", "step", "ready", "adopt", "settle"}
Busy   == {"ready", "adopt", "settle"}

\* Every variable has the shape its comment says, and a step in progress has
\* rows left to settle.
TypeOK ==
    /\ server \in [Messages -> [box : Mailboxes, uid : Nat \ {0}, flags : SUBSET Flags]]
    /\ uidNext \in [Mailboxes -> Nat \ {0}]
    /\ local \in [Rows -> {Absent, Deleted} \cup
                     [box : Mailboxes, rid : Rids \cup {NoRid}, flags : SUBSET Flags]]
    /\ queue \in Seq(QueueRow)
    /\ Len(queue) <= MaxRows
    /\ pc \in Phases
    /\ plan \subseteq Steps
    /\ folded \subseteq DOMAIN queue
    /\ pc = "idle" => plan = {} /\ folded = {}
    /\ step \in Steps \cup {NoStep}
    /\ pc \in Busy <=> step # NoStep
    /\ \A s \in plan \cup ({step} \ {NoStep}) : s.rows # {}
    /\ address \in [box : Mailboxes, rid : Rids \cup {NoRid}] \cup {NoAddress}
    /\ outcome \in {"None", "Applied", "Obsolete", "Retry", "Failed"}
    /\ \A b \in Mailboxes : passes[b].stage \in {"none", "store", "reconcile"}
    /\ faults \in 0 .. MaxFaults
    /\ astray \subseteq Messages
    /\ doubled \subseteq Messages
    /\ wish \in [Messages -> [box : Mailboxes, flags : SUBSET Flags]]

\* Convergence: once nothing of a message is queued, the server has it where
\* the user last put it, with the flags the user last gave it, whatever was
\* folded, acted on while in flight, adopted or read back (drain.rs, coalesce.rs).
\* Excused is a message of which a step failed, was refused as stale or found
\* nothing; which was deleted and moved out of the trash to elsewhere; a backed-off
\* row of which was overtaken by a later one; a reply about which was lost; rows of
\* which a dying pass had decided and not marked; a copy of which was stored after
\* the server had moved it on (all astray), or which a sync gave a row beside the
\* one in use (doubled).
SettledAgrees ==
    \A m \in Messages :
        /\ m \notin astray \cup doubled
        /\ \A r \in Rows : MessageOf(r) = m => Queued(r) = {}
        => wish[m] = [box |-> server[m].box, flags |-> server[m].flags]

\* A step for one message never changes another on the server: an id that
\* belongs to another mailbox's numbering is refused, not looked up.
TouchesItsMessage ==
    [][\A m \in Messages : server'[m] # server[m] => m = MessageOf(step.target)]_vars

\* Row i is the last unsettled one to touch the flag.
LastChange(r, i, f) ==
    /\ queue[i].op.kind \in FlagKinds
    /\ f \in queue[i].op.flags
    /\ \A j \in Queued(r) : j > i => f \notin queue[j].op.flags

\* While a flag change waits to be sent, its effect stays on the local row: no
\* sync pass, however stale its fetch, shows the user the server's old flags
\* (unless a later change of the message overtook it).
PendingFlagsShow ==
    \A r \in Rows : Present(r) /\ MessageOf(r) \notin astray =>
        \A i \in Queued(r), f \in Flags :
            LastChange(r, i, f) => (f \in local[r].flags <=> queue[i].op.kind = "SetFlags")

\* No row waits for ever: every queued operation is applied, found to have
\* nothing to do, or given up, so that a queue nothing more is put into comes to
\* rest (settle, RetryPolicy).
RowsSettle == <>[](\A i \in DOMAIN queue : ~Pending(i))
=============================================================================

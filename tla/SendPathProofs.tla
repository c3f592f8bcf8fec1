--------------------------- MODULE SendPathProofs ---------------------------
(***************************************************************************)
(* Proofs about SendPath, for every set of drafts and every bound.         *)
(***************************************************************************)
EXTENDS SendPath, SequenceTheorems, TLAPS

USE MaxAttemptsAssumption, BoundsAssumption, FlagsAssumption

-----------------------------------------------------------------------------
(* Type correctness.  An id is minted only with a queue row, so the ids are *)
(* bounded by the rows: that is what makes TypeOK inductive.                *)

MintedWithRows == \A d \in Drafts : minted[d] <= Len(queue)
TypeInv == TypeOK /\ MintedWithRows

RowVarsOK ==
    /\ draft \in [Drafts -> DraftStates]
    /\ msgid \in [Drafts -> Ids]
    /\ minted \in [Drafts -> Ids]
ComposingOK ==
    /\ composer \in [Drafts -> Held \cup {Closed}]
    /\ overwritten \subseteq Drafts
    /\ restated \subseteq Drafts
QueueOK == queue \in Seq(Row) /\ Len(queue) <= MaxRows
PassOK ==
    /\ pc \in Phases
    /\ batch \subseteq DOMAIN queue
    /\ job \in Job \cup {NoJob}
    /\ pc \in Carrying => job \in Job /\ job.row \in DOMAIN queue
    /\ outcome \in Outcomes
FilingOK == sentRows \in [Drafts -> [Ids -> Nat]] /\ linked \in [Drafts -> Ids]
WorldOK ==
    /\ delivered \in [Drafts -> Nat]
    /\ taken \subseteq [draft : Drafts, id : Ids]
    /\ garbled \subseteq Drafts

TypeGroups ==
    /\ RowVarsOK /\ ComposingOK /\ QueueOK /\ PassOK /\ FilingOK /\ WorldOK
    /\ faults \in 0 .. MaxFaults
    /\ MintedWithRows

\* TypeInv is its groups of variables, before a step and after it.
LEMMA TypeParts == (TypeInv <=> TypeGroups) /\ (TypeInv' <=> TypeGroups')
BY DEF TypeInv, TypeOK, TypeGroups, RowVarsOK, ComposingOK, QueueOK, PassOK, FilingOK, WorldOK

\* Queueing an operation appends one well-formed row.
LEMMA EnqueueType ==
    ASSUME QueueOK, HasRoom, NEW d \in Drafts, NEW op \in {"Send", "SaveDraft"},
           NEW due \in BOOLEAN, Enqueue(d, op, due)
    PROVE  /\ QueueOK'
           /\ Len(queue') = Len(queue) + 1
           /\ DOMAIN queue \subseteq DOMAIN queue'
<1>1. NewRow(d, op, due) \in Row
  BY DEF NewRow, Row
<1>2. /\ queue' \in Seq(Row)
      /\ Len(queue') = Len(queue) + 1
  BY <1>1, AppendProperties DEF Enqueue, QueueOK
<1>3. DOMAIN queue = 1 .. Len(queue) /\ DOMAIN queue' = 1 .. Len(queue')
  BY <1>2, LenProperties DEF QueueOK
<1> QED
  BY <1>2, <1>3, LenProperties DEF HasRoom, QueueOK

\* Rewriting one row in place keeps the queue well formed and as long as it was.
LEMMA UpdateType ==
    ASSUME QueueOK, NEW r, NEW row,
           r \in DOMAIN queue => row \in Row,
           queue' = [queue EXCEPT ![r] = row]
    PROVE  /\ QueueOK'
           /\ Len(queue') = Len(queue)
           /\ DOMAIN queue' = DOMAIN queue
<1>1. queue \in [1 .. Len(queue) -> Row] /\ Len(queue) \in Nat
  BY LenProperties, IsASeq DEF QueueOK
<1>2. queue' \in [1 .. Len(queue) -> Row]
  BY <1>1
<1>3. queue' \in Seq(Row) /\ Len(queue') = Len(queue)
  BY <1>1, <1>2, IsASeq, LenProperties
<1> QED
  BY <1>1, <1>2, <1>3 DEF QueueOK

\* A write of a draft's state.
LEMMA SetStateType ==
    ASSUME RowVarsOK, NEW d, NEW s \in Stored, SetState(d, s)
    PROVE  RowVarsOK' /\ minted' = minted
<1>1. s \in DraftStates /\ NoId \in Ids
  BY DEF DraftStates, NoId, Ids
<1>2. draft' \in [Drafts -> DraftStates]
  BY <1>1 DEF RowVarsOK, SetState
<1>3. msgid' \in [Drafts -> Ids]
  BY <1>1 DEF RowVarsOK, SetState
<1> QED
  BY <1>2, <1>3 DEF RowVarsOK, SetState

LEMMA MarkType ==
    ASSUME RowVarsOK, NEW d, NEW s \in Stored, Mark(d, s)
    PROVE  RowVarsOK' /\ minted' = minted
<1>1. CASE SetState(d, s)
  BY <1>1, SetStateType
<1>2. CASE UNCHANGED row_vars
  BY <1>2 DEF RowVarsOK, row_vars
<1> QED
  BY <1>1, <1>2 DEF Mark

\* Sent gains a row, loses one, or keeps what it has.
LEMMA SentRowsType ==
    ASSUME FilingOK, NEW d, NEW i, NEW n,
           (d \in Drafts /\ i \in Ids) => n \in Nat,
           sentRows' = [sentRows EXCEPT ![d][i] = n],
           linked' \in [Drafts -> Ids]
    PROVE  FilingOK'
BY DEF FilingOK

LEMMA LinkedRowType ==
    ASSUME FilingOK, NEW d \in Drafts, TakeLinkedRow(d) \/ ListRow(d)
    PROVE  FilingOK'
<1>1. CASE TakeLinkedRow(d)
  <2>1. linked' \in [Drafts -> Ids]
    BY <1>1 DEF TakeLinkedRow, FilingOK, NoId, Ids
  <2>2. CASE linked[d] = NoId
    BY <1>1, <2>1, <2>2 DEF TakeLinkedRow, FilingOK
  <2>3. CASE linked[d] # NoId
    <3> DEFINE n == sentRows[d][linked[d]]
    <3>1. n \in Nat
      BY DEF FilingOK
    <3>2. (IF n > 0 THEN n - 1 ELSE 0) \in Nat
      BY <3>1
    <3>3. sentRows' = [sentRows EXCEPT ![d][linked[d]] = IF n > 0 THEN n - 1 ELSE 0]
      BY <1>1, <2>3 DEF TakeLinkedRow
    <3> QED
      BY <2>1, <3>2, <3>3, SentRowsType
  <2> QED
    BY <2>2, <2>3
<1>2. CASE UNCHANGED filing
  BY <1>2 DEF FilingOK, filing
<1> QED
  BY <1>1, <1>2 DEF ListRow

-----------------------------------------------------------------------------
(* The composer and the commands keep TypeInv.                              *)

LEMMA WindowType ==
    ASSUME TypeInv, NEW d \in Drafts,
           Compose(d) \/ Open(d) \/ Close(d)
    PROVE  TypeInv'
<1>1. SUFFICES composer' \in [Drafts -> Held \cup {Closed}]
  BY DEF TypeInv, TypeOK, MintedWithRows, Compose, Open, Close, row_vars, pass_vars,
         filing, world
<1>2. /\ composer \in [Drafts -> Held \cup {Closed}]
      /\ draft[d] \in DraftStates /\ msgid[d] \in Ids
  BY DEF TypeInv, TypeOK
<1>3. CASE Compose(d)
  <2>1. [state |-> "Editing", id |-> NoId] \in Held
    BY DEF Held, Stored, NoId, Ids
  <2> QED
    BY <1>2, <1>3, <2>1 DEF Compose
<1>4. CASE Open(d)
  BY <1>2, <1>4 DEF Open, Exists, Held
<1>5. CASE Close(d)
  BY <1>2, <1>5 DEF Close
<1> QED
  BY <1>3, <1>4, <1>5

LEMMA SaveType ==
    ASSUME TypeInv, NEW d \in Drafts, Save(d)
    PROVE  TypeInv'
<1>1. TypeGroups
  BY TypeParts
<1> USE DEF TypeGroups
<1>2. composer[d] \in Held
  BY <1>1 DEF Save, ComposingOK
<1>3. composer[d].state \in DraftStates /\ composer[d].id \in Ids
      /\ NoId \in Ids
  BY <1>2 DEF Held, DraftStates, NoId, Ids
<1>4. RowVarsOK'
  BY <1>1, <1>3 DEF Save, RowVarsOK
<1>5. ComposingOK'
  BY <1>1 DEF Save, ComposingOK, Overwrite, Restate
<1>6. FilingOK'
  BY <1>1, LinkedRowType DEF Save
<1>7. QueueOK' /\ Len(queue') >= Len(queue) /\ DOMAIN queue \subseteq DOMAIN queue'
  <2>1. CASE DraftsMailbox /\ HasRoom /\ Enqueue(d, "SaveDraft", TRUE)
    <3>1. QueueOK' /\ Len(queue') = Len(queue) + 1 /\ DOMAIN queue \subseteq DOMAIN queue'
      BY <1>1, <2>1, EnqueueType
    <3> QED
      BY <1>1, <3>1, LenProperties DEF QueueOK
  <2>2. CASE UNCHANGED queue
    BY <1>1, <2>2, LenProperties DEF QueueOK
  <2> QED
    BY <2>1, <2>2 DEF Save
<1>8. PassOK'
  BY <1>1, <1>7 DEF Save, PassOK, pass_vars
<1>9. WorldOK' /\ faults' \in 0 .. MaxFaults
  BY <1>1 DEF Save, WorldOK, world
<1>10. MintedWithRows'
  BY <1>1, <1>4, <1>7, LenProperties DEF Save, MintedWithRows, RowVarsOK, QueueOK, Ids
<1> QED
  BY <1>4, <1>5, <1>6, <1>7, <1>8, <1>9, <1>10, TypeParts

\* An ask mints at most one id and queues exactly one row.
LEMMA AskType ==
    ASSUME TypeInv, NEW d \in Drafts, ComposerSend(d) \/ RetrySend(d)
    PROVE  TypeInv'
<1>1. TypeGroups
  BY TypeParts
<1> USE DEF TypeGroups
<1>2. ComposingOK'
  BY <1>1 DEF ComposerSend, RetrySend, ComposingOK, Overwrite, composing
<1>3. PICK id \in Ids : QueueSend(d, id)
  <2>1. CASE ComposerSend(d)
    <3>1. composer[d].id \in Ids
      BY <1>1, <2>1 DEF ComposerSend, ComposingOK, Held
    <3> QED
      BY <2>1, <3>1 DEF ComposerSend
  <2>2. CASE RetrySend(d)
    BY <1>1, <2>2 DEF RetrySend, RowVarsOK
  <2> QED
    BY <2>1, <2>2
<1>4. QueueOK' /\ Len(queue') = Len(queue) + 1 /\ DOMAIN queue \subseteq DOMAIN queue'
  BY <1>1, <1>3, EnqueueType DEF QueueSend
<1>5. Len(queue) \in Nat /\ Len(queue) < MaxRows
  BY <1>1, <1>3, LenProperties DEF QueueOK, QueueSend, HasRoom
<1>6. minted[d] + 1 \in Ids /\ minted[d] <= Len(queue)
  BY <1>1, <1>5 DEF MintedWithRows, RowVarsOK, Ids
<1>7. RowVarsOK'
  <2>1. "Queued" \in DraftStates
    BY DEF DraftStates, Stored
  <2> QED
    BY <1>1, <1>3, <1>6, <2>1 DEF QueueSend, RowVarsOK
<1>8. MintedWithRows'
  BY <1>1, <1>3, <1>4, <1>5, <1>6 DEF QueueSend, MintedWithRows, RowVarsOK, Ids
<1>9. FilingOK'
  BY <1>1, <1>3, LinkedRowType DEF QueueSend
<1>10. PassOK'
  BY <1>1, <1>3, <1>4 DEF QueueSend, PassOK, pass_vars
<1>11. WorldOK' /\ faults' \in 0 .. MaxFaults
  BY <1>1, <1>3 DEF QueueSend, WorldOK
<1> QED
  BY <1>2, <1>4, <1>7, <1>8, <1>9, <1>10, <1>11, TypeParts

\* A row already in the queue, with another state.
LEMMA RowStateType ==
    ASSUME QueueOK, NEW r, NEW st \in {"done", "failed", "deleted"},
           queue' = [queue EXCEPT ![r].state = st]
    PROVE  QueueOK' /\ Len(queue') = Len(queue) /\ DOMAIN queue' = DOMAIN queue
<1>1. r \in DOMAIN queue => queue[r] \in Row
  BY ElementOfSeq, LenProperties DEF QueueOK
<1>2. r \in DOMAIN queue => [queue[r] EXCEPT !.state = st] \in Row
  BY <1>1 DEF Row
<1>3. queue' = [queue EXCEPT ![r] = [queue[r] EXCEPT !.state = st]]
  OBVIOUS
<1> HIDE DEF QueueOK
<1> QED
  BY <1>2, <1>3, UpdateType

LEMMA CommandType ==
    ASSUME TypeInv, NEW d \in Drafts, Cancel(d) \/ MarkSent(d) \/ Discard(d)
    PROVE  TypeInv'
<1>1. TypeGroups
  BY TypeParts
<1> USE DEF TypeGroups
<1>2. CASE Cancel(d)
  <2>1. QueueOK' /\ Len(queue') = Len(queue) /\ DOMAIN queue' = DOMAIN queue
    BY <1>1, <1>2, RowStateType DEF Cancel
  <2>2. RowVarsOK' /\ minted' = minted
    BY <1>1, <1>2, SetStateType DEF Cancel, Stored
  <2>3. FilingOK'
    BY <1>1, <1>2, LinkedRowType DEF Cancel
  <2> QED
    BY <1>1, <1>2, <2>1, <2>2, <2>3, TypeParts
    DEF Cancel, ComposingOK, PassOK, WorldOK, MintedWithRows, composing, pass_vars, world
<1>3. CASE MarkSent(d)
  <2>1. RowVarsOK' /\ minted' = minted
    BY <1>1, <1>3, SetStateType DEF MarkSent, Stored, PastCommit
  <2> QED
    BY <1>1, <1>3, <2>1, TypeParts
    DEF MarkSent, ComposingOK, QueueOK, PassOK, FilingOK, WorldOK, MintedWithRows,
        composing, pass_vars, filing, world
<1>4. CASE Discard(d)
  <2>1. RowVarsOK'
    BY <1>1, <1>4 DEF Discard, RowVarsOK, DraftStates
  <2>2. FilingOK'
    BY <1>1, <1>4, LinkedRowType DEF Discard
  <2> QED
    BY <1>1, <1>4, <2>1, <2>2, TypeParts
    DEF Discard, ComposingOK, QueueOK, PassOK, WorldOK, MintedWithRows, pass_vars, world
<1> QED
  BY <1>2, <1>3, <1>4

-----------------------------------------------------------------------------
(* The drain pass keeps TypeInv.                                            *)

LEMMA PassStartType ==
    ASSUME TypeInv, HealOrphans \/ ListDue \/ EndPass
    PROVE  TypeInv'
<1>1. TypeGroups
  BY TypeParts
<1> USE DEF TypeGroups
<1>2. RowVarsOK'
  <2>1. "Failed" \in DraftStates
    BY DEF DraftStates, Stored
  <2> QED
    BY <1>1, <2>1 DEF HealOrphans, ListDue, EndPass, RowVarsOK, row_vars
<1>3. PassOK'
  BY <1>1 DEF HealOrphans, ListDue, EndPass, PassOK, Phases, Carrying, NoJob
<1> QED
  BY <1>1, <1>2, <1>3, TypeParts
  DEF HealOrphans, ListDue, EndPass, ComposingOK, QueueOK, FilingOK, WorldOK, MintedWithRows, composing, filing, world, row_vars

\* The job a step carries is the row's draft as it stands.
LEMMA JobType ==
    ASSUME RowVarsOK, QueueOK, NEW r \in DOMAIN queue
    PROVE  JobFor(r, FALSE) \in Job /\ JobFor(r, FALSE).row = r
<1>1. queue[r] \in Row /\ r \in Nat \ {0}
  BY ElementOfSeq, LenProperties DEF QueueOK
<1>2. queue[r].draft \in Drafts
  BY <1>1 DEF Row
<1> QED
  BY <1>1, <1>2 DEF JobFor, Job, RowVarsOK

LEMMA StartType ==
    ASSUME TypeInv, NEW r \in DOMAIN queue, StartStep(r)
    PROVE  TypeInv'
<1>1. TypeGroups
  BY TypeParts
<1> USE DEF TypeGroups
<1>2. JobFor(r, FALSE) \in Job /\ JobFor(r, FALSE).row = r
  BY <1>1, JobType
<1>3. RowVarsOK' /\ minted' = minted
  <2>1. CASE SetState(queue[r].draft, "Unconfirmed")
    BY <1>1, <2>1, SetStateType DEF Stored, PastCommit
  <2>2. CASE UNCHANGED row_vars
    BY <1>1, <2>2 DEF RowVarsOK, row_vars
  <2> QED
    BY <2>1, <2>2 DEF StartStep, Upload, ResolveSettled, ResolveReady
<1>4. PassOK'
  <2>1. /\ job' = JobFor(r, FALSE)
        /\ pc' \in {"settle", "ready"}
        /\ outcome' \in Outcomes
        /\ UNCHANGED <<batch, queue>>
    BY <1>1 DEF StartStep, Upload, ResolveSettled, ResolveReady, Decide, PassOK, Outcomes
  <2> QED
    BY <1>1, <1>2, <2>1 DEF PassOK, Phases, Carrying
<1> QED
  BY <1>1, <1>3, <1>4, TypeParts
  DEF StartStep, Upload, ResolveSettled, ResolveReady, ComposingOK, QueueOK, FilingOK, WorldOK, MintedWithRows, composing, filing, world

LEMMA SubmitType ==
    ASSUME TypeInv, SubmitStep
    PROVE  TypeInv'
<1>1. TypeGroups
  BY TypeParts
<1> USE DEF TypeGroups
<1>2. pc \in Carrying /\ job \in Job /\ job.row \in DOMAIN queue
  BY <1>1 DEF PassOK, SubmitStep, Carrying, FileSentLocally, OpenSession, MarkSending, BeginPayload, Refused, Garbled, Accepted, Lost,
      MarkUnconfirmed, Release, MarkAccepted, ConfirmSentCopy, DropDraft, UnfileSentCopy
<1>3. job.draft \in Drafts /\ job.id \in Ids
  BY <1>2 DEF Job
<1>4. RowVarsOK' /\ minted' = minted
  <2>1. CASE \E s \in {"Sending", "Sent", "Unconfirmed", "Queued"} :
               SetState(job.draft, s) \/ Mark(job.draft, s)
    BY <1>1, <2>1, SetStateType, MarkType DEF Stored, PastCommit
  <2>2. CASE UNCHANGED row_vars
    BY <1>1, <2>2 DEF RowVarsOK, row_vars
  <2>3. CASE DropDraft
    BY <1>1, <2>3 DEF DropDraft, RowVarsOK, DraftStates
  <2> QED
    BY <2>1, <2>2, <2>3
    DEF SubmitStep, row_vars, FileSentLocally, OpenSession, MarkSending, BeginPayload, Refused, Garbled, Accepted, Lost,
      MarkUnconfirmed, Release, MarkAccepted, ConfirmSentCopy, DropDraft, UnfileSentCopy
<1>5. FilingOK'
  <2> DEFINE n == sentRows[job.draft][job.id]
  <2>1. n \in Nat /\ n + 1 \in Nat /\ (IF n > 0 THEN n - 1 ELSE 0) \in Nat
    BY <1>1, <1>3 DEF FilingOK
  <2>2. CASE /\ \/ sentRows' = [sentRows EXCEPT ![job.draft][job.id] = n + 1]
                \/ sentRows' = [sentRows EXCEPT ![job.draft][job.id] =
                                   IF n > 0 THEN n - 1 ELSE 0]
             /\ UNCHANGED linked
    <3>1. linked' \in [Drafts -> Ids]
      BY <1>1, <2>2 DEF FilingOK
    <3> QED
      BY <1>1, <2>1, <2>2, <3>1, SentRowsType
  <2>3. CASE TakeLinkedRow(job.draft)
    BY <1>1, <1>3, <2>3, LinkedRowType
  <2>4. CASE UNCHANGED filing
    BY <1>1, <2>4 DEF FilingOK, filing
  <2> QED
    BY <2>2, <2>3, <2>4
    DEF SubmitStep, filing, FileSentLocally, OpenSession, MarkSending, BeginPayload, Refused, Garbled, Accepted, Lost,
      MarkUnconfirmed, Release, MarkAccepted, ConfirmSentCopy, DropDraft, UnfileSentCopy
<1>6. WorldOK'
  <2> USE DEF world
  <2>0. garbled' \subseteq Drafts
    BY <1>1, <1>3 DEF WorldOK, SubmitStep, FileSentLocally, OpenSession, MarkSending, BeginPayload, Refused, Garbled, Accepted, Lost,
      MarkUnconfirmed, Release, MarkAccepted, ConfirmSentCopy, DropDraft, UnfileSentCopy
  <2>1. CASE ServerTakes
    <3>1. [draft |-> job.draft, id |-> job.id]
             \in [draft : Drafts, id : Ids]
      BY <1>3
    <3> QED
      BY <1>1, <1>3, <2>0, <2>1, <3>1 DEF ServerTakes, WorldOK
  <2>2. CASE UNCHANGED <<delivered, taken>>
    BY <1>1, <2>0, <2>2 DEF WorldOK
  <2> QED
    BY <2>1, <2>2 DEF SubmitStep, FileSentLocally, OpenSession, MarkSending, BeginPayload, Refused, Garbled, Accepted, Lost,
      MarkUnconfirmed, Release, MarkAccepted, ConfirmSentCopy, DropDraft, UnfileSentCopy
<1>7. PassOK'
  <2>1. /\ job' \in Job /\ job'.row = job.row
        /\ UNCHANGED <<batch, queue>>
    BY <1>1, <1>2 DEF SubmitStep, Job, FileSentLocally, OpenSession, MarkSending, BeginPayload, Refused, Garbled, Accepted, Lost,
      MarkUnconfirmed, Release, MarkAccepted, ConfirmSentCopy, DropDraft, UnfileSentCopy
  <2>2. pc' \in Carrying
    BY <1>1 DEF SubmitStep, Carrying, Return, FileSentLocally, OpenSession, MarkSending, BeginPayload, Refused, Garbled, Accepted, Lost,
      MarkUnconfirmed, Release, MarkAccepted, ConfirmSentCopy, DropDraft, UnfileSentCopy
  <2>3. outcome' \in Outcomes
    BY <1>1 DEF SubmitStep, PassOK, Outcomes, Return, FileSentLocally, OpenSession, MarkSending, BeginPayload, Refused, Garbled, Accepted, Lost,
      MarkUnconfirmed, Release, MarkAccepted, ConfirmSentCopy, DropDraft, UnfileSentCopy
  <2> QED
    BY <1>1, <1>2, <2>1, <2>2, <2>3 DEF PassOK, Phases
<1>8. ComposingOK' /\ QueueOK' /\ MintedWithRows' /\ faults' \in 0 .. MaxFaults
  BY <1>1, <1>4 DEF SubmitStep, ComposingOK, QueueOK, MintedWithRows, composing,
      FileSentLocally, OpenSession, MarkSending, BeginPayload, Refused, Garbled, Accepted, Lost,
      MarkUnconfirmed, Release, MarkAccepted, ConfirmSentCopy, DropDraft, UnfileSentCopy
<1> QED
  BY <1>4, <1>5, <1>6, <1>7, <1>8, TypeParts

LEMMA SettleType ==
    ASSUME TypeInv, SettleStep
    PROVE  TypeInv'
<1>1. TypeGroups
  BY TypeParts
<1> USE DEF TypeGroups
<1>2. pc \in Carrying /\ job \in Job /\ job.row \in DOMAIN queue
  BY <1>1 DEF PassOK, SettleStep, Carrying, SettleMissing, SettleDone, SettleDeferred, SettleFailed, FailDraft
<1>3. queue[job.row] \in Row
  BY <1>1, <1>2, ElementOfSeq, LenProperties DEF QueueOK
<1>4. QueueOK' /\ Len(queue') = Len(queue) /\ DOMAIN queue' = DOMAIN queue
  <2>1. CASE SettleDone
    BY <1>1, <2>1, RowStateType DEF SettleDone
  <2>2. CASE SettleDeferred
    <3> DEFINE row == [queue[job.row] EXCEPT !.attempts = @ + 1, !.due = FALSE]
    <3>1. row \in Row
      <4>1. queue[job.row].attempts + 1 \in Nat
        BY <1>3 DEF Row
      <4> QED
        BY <1>3, <4>1 DEF Row
    <3>2. queue' = [queue EXCEPT ![job.row] = row]
      BY <2>2 DEF SettleDeferred
    <3> QED
      BY <1>1, <3>1, <3>2, UpdateType
  <2>3. CASE SettleFailed
    <3> DEFINE row == [queue[job.row] EXCEPT !.state = "failed", !.attempts = @ + 1]
    <3>1. row \in Row
      <4>1. queue[job.row].attempts + 1 \in Nat
        BY <1>3 DEF Row
      <4> QED
        BY <1>3, <4>1 DEF Row
    <3>2. queue' = [queue EXCEPT ![job.row] = row]
      BY <2>3 DEF SettleFailed
    <3> QED
      BY <1>1, <3>1, <3>2, UpdateType
  <2>4. CASE UNCHANGED queue
    BY <1>1, <2>4 DEF QueueOK
  <2> QED
    BY <2>1, <2>2, <2>3, <2>4 DEF SettleStep, SettleMissing, FailDraft
<1>5. RowVarsOK' /\ minted' = minted
  <2>1. CASE FailDraft
    BY <1>1, <2>1, MarkType DEF FailDraft, Stored
  <2>2. CASE UNCHANGED row_vars
    BY <1>1, <2>2 DEF RowVarsOK, row_vars
  <2> QED
    BY <2>1, <2>2 DEF SettleStep, SettleMissing, SettleDone, SettleDeferred, SettleFailed
<1>6. PassOK'
  <2>1. CASE SettleFailed /\ pc' = "failed" /\ UNCHANGED <<batch, job, outcome>>
    BY <1>1, <1>2, <1>4, <2>1 DEF PassOK, Phases, Carrying
  <2>2. CASE StopPass \/ StepDone
    BY <1>1, <1>4, <2>2 DEF PassOK, StopPass, StepDone, Phases, Carrying, Outcomes
  <2> QED
    BY <2>1, <2>2 DEF SettleStep, SettleMissing, SettleDone, SettleDeferred, SettleFailed, FailDraft
<1> QED
  BY <1>1, <1>4, <1>5, <1>6, TypeParts
  DEF SettleStep, ComposingOK, FilingOK, WorldOK, MintedWithRows, composing, filing, world,
      SettleMissing, SettleDone, SettleDeferred, SettleFailed, FailDraft

-----------------------------------------------------------------------------
(* The clock, a sync and faults.                                            *)

LEMMA WorldType ==
    ASSUME TypeInv,
           \/ \E r \in DOMAIN queue : BackoffElapses(r)
           \/ \E m \in taken : SyncSentCopy(m)
           \/ \E d \in Drafts : ConfirmUnconfirmed(d)
           \/ PassError \/ Crash
    PROVE  TypeInv'
<1>1. TypeGroups
  BY TypeParts
<1> USE DEF TypeGroups
<1>2. CASE \E r \in DOMAIN queue : BackoffElapses(r)
  <2>1. PICK r \in DOMAIN queue : BackoffElapses(r)
    BY <1>2
  <2> DEFINE row == [queue[r] EXCEPT !.due = TRUE]
  <2>2. queue[r] \in Row
    BY <1>1, ElementOfSeq, LenProperties DEF QueueOK
  <2>3. row \in Row /\ queue' = [queue EXCEPT ![r] = row]
    BY <2>1, <2>2 DEF BackoffElapses, Row
  <2>4. QueueOK' /\ Len(queue') = Len(queue) /\ DOMAIN queue' = DOMAIN queue
    BY <1>1, <2>3, UpdateType
  <2> QED
    BY <1>1, <2>1, <2>4, TypeParts
    DEF BackoffElapses, RowVarsOK, ComposingOK, PassOK, FilingOK, WorldOK, MintedWithRows,
        row_vars, composing, pass_vars, filing, world
<1>3. CASE \E m \in taken : SyncSentCopy(m)
  <2>1. PICK m \in taken : SyncSentCopy(m)
    BY <1>3
  <2>2. FilingOK'
    BY <1>1, <2>1, SentRowsType DEF SyncSentCopy, FilingOK
  <2> QED
    BY <1>1, <2>1, <2>2, TypeParts
    DEF SyncSentCopy, RowVarsOK, ComposingOK, QueueOK, PassOK, WorldOK, MintedWithRows,
        row_vars, composing, pass_vars, world
<1>4. CASE \E d \in Drafts : ConfirmUnconfirmed(d)
  <2>1. PICK d \in Drafts : ConfirmUnconfirmed(d)
    BY <1>4
  <2>2. RowVarsOK' /\ minted' = minted
    BY <1>1, <2>1, SetStateType DEF ConfirmUnconfirmed, Stored, PastCommit
  <2>3. FilingOK'
    BY <1>1, <2>1 DEF ConfirmUnconfirmed, FilingOK, RowVarsOK
  <2> QED
    BY <1>1, <2>1, <2>2, <2>3, TypeParts
    DEF ConfirmUnconfirmed, ComposingOK, QueueOK, PassOK, WorldOK, MintedWithRows,
        composing, pass_vars, world
<1>5. CASE PassError \/ Crash
  <2>1. PassOK' /\ QueueOK'
    BY <1>1, <1>5
    DEF PassError, Crash, StopPass, PassOK, QueueOK, Phases, Carrying, Outcomes
  <2>2. WorldOK'
    <3>0. garbled' = garbled
      BY <1>5 DEF PassError, Crash, world
    <3>1. CASE pc = "wire" /\ ServerTakes
      <4>1. job \in Job
        BY <1>1, <3>1 DEF PassOK, Carrying
      <4>2. [draft |-> job.draft, id |-> job.id]
               \in [draft : Drafts, id : Ids] /\ job.draft \in Drafts
        BY <4>1 DEF Job
      <4> QED
        BY <1>1, <3>0, <3>1, <4>2 DEF ServerTakes, WorldOK
    <3>2. CASE UNCHANGED <<delivered, taken>>
      BY <1>1, <3>0, <3>2 DEF WorldOK
    <3> QED
      BY <1>5, <3>1, <3>2 DEF PassError, Crash, world
  <2>3. faults' \in 0 .. MaxFaults
    BY <1>1, <1>5 DEF PassError, Crash
  <2>4. ComposingOK'
    <3>1. CASE PassError
      BY <1>1, <3>1 DEF PassError, ComposingOK, composing
    <3>2. CASE Crash
      BY <1>1, <3>2 DEF Crash, ComposingOK
    <3> QED
      BY <1>5, <3>1, <3>2
  <2> QED
    BY <1>1, <1>5, <2>1, <2>2, <2>3, <2>4, TypeParts
    DEF PassError, Crash, RowVarsOK, FilingOK, MintedWithRows, row_vars, filing
<1> QED
  BY <1>2, <1>3, <1>4, <1>5

LEMMA TypeInit == Init => TypeInv
<1> SUFFICES ASSUME Init PROVE TypeInv
  OBVIOUS
<1>1. QueueOK /\ Len(queue) = 0
  BY EmptySeq DEF Init, QueueOK
<1>2. RowVarsOK /\ ComposingOK /\ FilingOK /\ WorldOK
  BY DEF Init, RowVarsOK, ComposingOK, FilingOK, WorldOK, DraftStates, Ids, NoId
<1>3. PassOK
  BY DEF Init, PassOK, Phases, Carrying, Outcomes
<1>4. MintedWithRows
  BY <1>1 DEF Init, MintedWithRows
<1> QED
  BY <1>1, <1>2, <1>3, <1>4, TypeParts DEF Init, TypeGroups

LEMMA TypeStep == TypeInv /\ [Next]_vars => TypeInv'
<1> SUFFICES ASSUME TypeInv, [Next]_vars PROVE TypeInv'
  OBVIOUS
<1>1. CASE \E d \in Drafts : UserStep(d)
  BY <1>1, WindowType, SaveType, AskType, CommandType DEF UserStep
<1>2. CASE DrainerStep
  BY <1>2, PassStartType, StartType, SubmitType, SettleType DEF DrainerStep
<1>3. CASE UNCHANGED vars
  BY <1>3 DEF vars, row_vars, composing, pass_vars, filing, world,
      TypeInv, TypeOK, MintedWithRows
<1> QED
  BY <1>1, <1>2, <1>3, WorldType DEF Next

\* Whatever the interleaving of the composer, the drainer and faults, every
\* variable keeps its shape, and a step in progress has its row and its draft.
THEOREM TypeCorrect == Spec => []TypeOK
<1>1. TypeInv => TypeOK
  BY DEF TypeInv
<1> QED
  BY <1>1, TypeInit, TypeStep, PTL DEF Spec

-----------------------------------------------------------------------------
(* Why a second copy cannot be sent.                                       *)

\* Nothing of draft d has reached the recipient since the user last asked, or
\* the composer has taken the draft out of the drainer's hands, or its answer
\* could not be read.
Undelivered(d) == delivered[d] = 0 \/ d \in overwritten \cup garbled

\* Up to the moment the server answers, and after a refusal or before a draft is
\* called failed, nothing of the draft being sent has been delivered.
AttemptUndelivered ==
    pc \in {"ready", "filed", "opened", "marked", "wire", "refused", "unfile", "failed"}
       => Undelivered(job.draft)

\* A send about to be retried or given up was never delivered.
GivenUpUndelivered ==
    pc = "settle" /\ queue[job.row].op = "Send" /\ outcome \in {"Retry", "Failed"}
       => Undelivered(job.draft)

\* AtMostOnce is not inductive: it says nothing of a delivery until the second.
\* What is: the mark on the row remembers a delivery, and every attempt starts
\* from a row without one.
SendInv ==
    /\ TypeInv
    /\ OnWireIsSending
    /\ AttemptUndelivered /\ GivenUpUndelivered
    /\ DeliveredIsRemembered
    /\ AtMostOnce

LEMMA SendInit == Init => SendInv
<1> SUFFICES ASSUME Init PROVE SendInv
  OBVIOUS
<1>1. TypeInv
  BY TypeInit
<1> QED
  BY <1>1 DEF Init, SendInv, OnWireIsSending, AttemptUndelivered, GivenUpUndelivered,
              DeliveredIsRemembered, AtMostOnce

\* The user's commands leave the drainer's step alone, rows included, and only
\* an ask resets what was delivered.
LEMMA UserFrame ==
    ASSUME TypeInv, NEW d \in Drafts, UserStep(d)
    PROVE  /\ UNCHANGED pass_vars
           /\ overwritten \subseteq overwritten' /\ garbled' = garbled
           /\ \A e \in Drafts : delivered'[e] = delivered[e] \/ delivered'[e] = 0
           /\ \A r \in DOMAIN queue : queue'[r].op = queue[r].op
<1>1. TypeGroups
  BY TypeParts
<1> USE DEF TypeGroups
<1>2. UNCHANGED pass_vars /\ overwritten \subseteq overwritten' /\ garbled' = garbled
  BY DEF UserStep, Compose, Open, Close, Save, ComposerSend, RetrySend, Cancel, MarkSent,
         Discard, QueueSend, Overwrite, composing, world
<1>3. \A e \in Drafts : delivered'[e] = delivered[e] \/ delivered'[e] = 0
  BY <1>1 DEF UserStep, Compose, Open, Close, Save, ComposerSend, RetrySend, Cancel,
         MarkSent, Discard, QueueSend, WorldOK, world
<1>4. ASSUME NEW r \in DOMAIN queue
      PROVE  queue'[r].op = queue[r].op
  <2>1. CASE UNCHANGED queue
    BY <2>1
  <2>2. CASE \E op \in {"Send", "SaveDraft"}, due \in BOOLEAN : Enqueue(d, op, due)
    <3>1. PICK op \in {"Send", "SaveDraft"}, due \in BOOLEAN : Enqueue(d, op, due)
      BY <2>2
    <3>2. r \in 1 .. Len(queue) /\ NewRow(d, op, due) \in Row
      BY <1>1, LenProperties DEF QueueOK, NewRow, Row
    <3>3. queue'[r] = queue[r]
      BY <1>1, <3>1, <3>2, AppendProperties DEF QueueOK, Enqueue
    <3> QED
      BY <3>3
  <2>3. CASE \E q : queue' = [queue EXCEPT ![q].state = "deleted"]
    <3>1. PICK q : queue' = [queue EXCEPT ![q].state = "deleted"]
      BY <2>3
    <3>2. queue[r] \in Row
      BY <1>1, ElementOfSeq, LenProperties DEF QueueOK
    <3>3. queue'[r] = IF r = q THEN [queue[r] EXCEPT !.state = "deleted"] ELSE queue[r]
      BY <1>1, <3>1, IsASeq, LenProperties DEF QueueOK
    <3> QED
      BY <3>2, <3>3 DEF Row
  <2> QED
    BY <2>1, <2>2, <2>3
    DEF UserStep, Compose, Open, Close, Save, ComposerSend, RetrySend, Cancel,
        MarkSent, Discard, QueueSend
<1> QED
  BY <1>2, <1>3, <1>4

\* A step in progress carries a draft of the account.
LEMMA JobDraft == TypeInv /\ pc \in Carrying => job.draft \in Drafts /\ job.row \in DOMAIN queue
BY TypeParts DEF TypeGroups, PassOK, Job

\* What a command may make of a committed or a delivered row.
LEMMA UserMarks ==
    ASSUME TypeInv, NEW d \in Drafts, UserStep(d), NEW e \in Drafts, e \notin overwritten'
    PROVE  /\ draft[e] \in {"Sending", "Gone"} => draft'[e] \in {"Sending", "Gone"}
           /\ draft[e] \in PastCommit \cup {"Gone"} /\ delivered'[e] # 0
                 => draft'[e] \in PastCommit \cup {"Gone"}
<1>1. TypeGroups
  BY TypeParts
<1>2. draft \in [Drafts -> DraftStates] /\ delivered \in [Drafts -> Nat]
  BY <1>1 DEF TypeGroups, RowVarsOK, WorldOK
<1>3. CASE UNCHANGED row_vars
  BY <1>3 DEF row_vars
<1>4. CASE Save(d)
  BY <1>2, <1>4 DEF Save, Overwrite, PastCommit
<1>5. CASE ComposerSend(d)
  BY <1>2, <1>5 DEF ComposerSend, QueueSend, Overwrite, PastCommit
<1>6. CASE RetrySend(d)
  BY <1>2, <1>6 DEF RetrySend, QueueSend, PastCommit
<1>7. CASE Cancel(d)
  BY <1>2, <1>7 DEF Cancel, SetState, PastCommit
<1>8. CASE MarkSent(d)
  BY <1>2, <1>8 DEF MarkSent, SetState, PastCommit
<1>9. CASE Discard(d)
  BY <1>2, <1>9 DEF Discard
<1> QED
  BY <1>3, <1>4, <1>5, <1>6, <1>7, <1>8, <1>9
  DEF UserStep, Compose, Open, Close, row_vars

LEMMA UserSend ==
    ASSUME SendInv, NEW d \in Drafts, UserStep(d)
    PROVE  SendInv'
<1>1. TypeInv /\ TypeInv'
  BY WindowType, SaveType, AskType, CommandType DEF UserStep, SendInv
<1>2. /\ UNCHANGED pass_vars
      /\ overwritten \subseteq overwritten' /\ garbled' = garbled
      /\ \A e \in Drafts : delivered'[e] = delivered[e] \/ delivered'[e] = 0
      /\ \A r \in DOMAIN queue : queue'[r].op = queue[r].op
  BY <1>1, UserFrame
<1>3. \A e \in Drafts : Undelivered(e) => Undelivered(e)'
  BY <1>2 DEF Undelivered
<1>4. pc \in Carrying => job.draft \in Drafts /\ job.row \in DOMAIN queue
  BY <1>1, JobDraft
<1>5. OnWireIsSending'
  BY <1>1, <1>2, <1>4, UserMarks DEF SendInv, OnWireIsSending, Carrying, pass_vars
<1>6. AttemptUndelivered'
  BY <1>2, <1>3, <1>4 DEF SendInv, AttemptUndelivered, Carrying, pass_vars
<1>7. GivenUpUndelivered'
  BY <1>2, <1>3, <1>4 DEF SendInv, GivenUpUndelivered, Carrying, pass_vars
<1>8. DeliveredIsRemembered'
  <2> SUFFICES ASSUME NEW e \in Drafts, delivered'[e] > 0, e \notin overwritten' \cup garbled'
               PROVE  draft'[e] \in PastCommit \cup {"Gone"}
    BY DEF DeliveredIsRemembered
  <2>1. delivered'[e] = delivered[e] /\ e \notin overwritten \cup garbled
    BY <1>2
  <2> QED
    BY <1>1, <2>1, UserMarks DEF SendInv, DeliveredIsRemembered
<1>9. AtMostOnce'
  BY <1>2 DEF SendInv, AtMostOnce
<1> QED
  BY <1>1, <1>5, <1>6, <1>7, <1>8, <1>9 DEF SendInv

LEMMA PassStartSend ==
    ASSUME SendInv, HealOrphans \/ ListDue \/ EndPass
    PROVE  SendInv'
<1>1. TypeInv /\ TypeInv'
  BY PassStartType DEF SendInv
<1>2. pc' \in {"idle", "list", "step"} /\ UNCHANGED <<delivered, overwritten, garbled>>
  BY DEF HealOrphans, ListDue, EndPass, composing, world
<1>3. \A d \in Drafts : draft'[d] = draft[d] \/ draft[d] = "Queued"
  BY <1>1 DEF HealOrphans, ListDue, EndPass, row_vars
<1>4. DeliveredIsRemembered'
  BY <1>2, <1>3 DEF SendInv, DeliveredIsRemembered, PastCommit
<1> QED
  BY <1>1, <1>2, <1>4
  DEF SendInv, OnWireIsSending, AttemptUndelivered, GivenUpUndelivered, AtMostOnce

\* A row that shows no delivery had none.
LEMMA ShowsNone ==
    ASSUME SendInv, NEW d \in Drafts, draft[d] \notin PastCommit \cup {"Gone"}
    PROVE  Undelivered(d)
<1>1. delivered[d] \in Nat
  BY DEF SendInv, TypeInv, TypeOK
<1> QED
  BY <1>1 DEF SendInv, DeliveredIsRemembered, Undelivered

LEMMA StartSend ==
    ASSUME SendInv, NEW r \in DOMAIN queue, StartStep(r)
    PROVE  SendInv'
<1> DEFINE e == queue[r].draft
<1>1. TypeInv /\ TypeInv' /\ e \in Drafts
  <2>1. queue[r] \in Row
    BY TypeParts, ElementOfSeq, LenProperties DEF SendInv, TypeGroups, QueueOK
  <2> QED
    BY <2>1, StartType DEF SendInv, Row
<1>2. /\ UNCHANGED <<delivered, overwritten, garbled, queue>>
      /\ pc' \in {"ready", "settle"}
      /\ job' = JobFor(r, FALSE) /\ job'.row = r /\ job'.draft = e
  BY DEF StartStep, Upload, ResolveSettled, ResolveReady, Decide, JobFor, composing, world
<1>3. \A d \in Drafts : draft'[d] = draft[d] \/ draft'[d] = "Unconfirmed"
  <2>1. draft \in [Drafts -> DraftStates]
    BY <1>1 DEF TypeInv, TypeOK
  <2>2. CASE SetState(e, "Unconfirmed")
    BY <2>1, <2>2 DEF SetState
  <2>3. CASE UNCHANGED row_vars
    BY <2>3 DEF row_vars
  <2> QED
    BY <2>2, <2>3 DEF StartStep, Upload, ResolveSettled, ResolveReady
<1>4. DeliveredIsRemembered'
  BY <1>2, <1>3 DEF SendInv, DeliveredIsRemembered, PastCommit
<1>5. Exists(e) /\ draft[e] \notin PastCommit => Undelivered(e)
  BY <1>1, ShowsNone DEF Exists, Stored, PastCommit
<1>6. AttemptUndelivered'
  BY <1>2, <1>5
  DEF AttemptUndelivered, Undelivered, StartStep, Upload, ResolveSettled, ResolveReady, Decide
<1>7. GivenUpUndelivered'
  BY <1>2, <1>5
  DEF GivenUpUndelivered, Undelivered, StartStep, Upload, ResolveSettled, ResolveReady, Decide
<1> QED
  BY <1>1, <1>2, <1>4, <1>6, <1>7 DEF SendInv, OnWireIsSending, AtMostOnce

\* The server takes the message: the first copy, of a row that is marked.
LEMMA TakenSend ==
    ASSUME SendInv, pc = "wire", ServerTakes, UNCHANGED <<draft, overwritten, garbled>>
    PROVE  DeliveredIsRemembered' /\ AtMostOnce'
<1>1. job.draft \in Drafts /\ delivered \in [Drafts -> Nat]
  BY JobDraft DEF SendInv, Carrying, TypeInv, TypeOK
<1>2. draft[job.draft] \in {"Sending", "Gone"} \/ job.draft \in overwritten
  BY DEF SendInv, OnWireIsSending
<1>3. delivered[job.draft] = 0 \/ job.draft \in overwritten \cup garbled
  BY DEF SendInv, AttemptUndelivered, Undelivered
<1>4. delivered' = [delivered EXCEPT ![job.draft] = @ + 1]
  BY DEF ServerTakes
<1>5. DeliveredIsRemembered'
  BY <1>1, <1>2, <1>4 DEF SendInv, DeliveredIsRemembered, PastCommit
<1>6. AtMostOnce'
  BY <1>1, <1>3, <1>4 DEF SendInv, AtMostOnce
<1> QED
  BY <1>5, <1>6

\* A step that marks one draft and delivers nothing forgets no delivery, when
\* the mark is past the commit point or the draft was not delivered.
LEMMA MarkRemembers ==
    ASSUME SendInv, NEW d \in Drafts, NEW s,
           s \in PastCommit \/ Undelivered(d),
           SetState(d, s) \/ Mark(d, s),
           UNCHANGED <<delivered, overwritten, garbled>>
    PROVE  DeliveredIsRemembered'
<1>1. draft \in [Drafts -> DraftStates]
  BY DEF SendInv, TypeInv, TypeOK
<1>2. \A e \in Drafts : draft'[e] = draft[e] \/ (e = d /\ draft'[e] = s)
  BY <1>1 DEF Mark, SetState, row_vars
<1>3. delivered \in [Drafts -> Nat]
  BY DEF SendInv, TypeInv, TypeOK
<1> QED
  BY <1>2, <1>3 DEF SendInv, DeliveredIsRemembered, Undelivered

LEMMA SubmitSend ==
    ASSUME SendInv, SubmitStep
    PROVE  SendInv'
<1>1. TypeInv /\ TypeInv'
  BY SubmitType DEF SendInv
<1>2. pc \in Carrying => job.draft \in Drafts
  BY <1>1, JobDraft
<1> DEFINE kept == UNCHANGED <<delivered, overwritten, garbled, queue>> /\ job'.draft = job.draft
                   /\ job'.row = job.row
<1>3. CASE FileSentLocally \/ OpenSession \/ BeginPayload \/ Refused
  <2>1. kept /\ UNCHANGED draft
    BY <1>1, <1>3, JobDraft
    DEF FileSentLocally, OpenSession, BeginPayload, Refused, composing, world, row_vars,
        TypeInv, TypeOK, Carrying, Job
  <2> QED
    BY <1>1, <1>3, <2>1
    DEF FileSentLocally, OpenSession, BeginPayload, Refused, Return, SendInv, OnWireIsSending,
        AttemptUndelivered, GivenUpUndelivered, Undelivered, DeliveredIsRemembered, AtMostOnce
<1>4. CASE MarkSending
  <2>1. kept /\ job.draft \in Drafts
    BY <1>2, <1>4 DEF MarkSending, composing, world, Carrying
  <2>2. CASE Exists(job.draft) /\ SetState(job.draft, "Sending") /\ pc' = "marked"
    <3>1. draft \in [Drafts -> DraftStates]
      BY <1>1 DEF TypeInv, TypeOK
    <3>2. draft'[job.draft] = "Sending"
      BY <2>1, <2>2, <3>1 DEF SetState
    <3>3. DeliveredIsRemembered'
      BY <2>1, <2>2, MarkRemembers DEF PastCommit
    <3> QED
      BY <1>1, <1>4, <2>1, <2>2, <3>2, <3>3
      DEF MarkSending, SendInv, OnWireIsSending, AttemptUndelivered, GivenUpUndelivered,
          Undelivered, AtMostOnce
  <2>3. CASE Return("Retry") /\ UNCHANGED row_vars
    BY <1>1, <1>4, <2>1, <2>3
    DEF MarkSending, Return, row_vars, SendInv, OnWireIsSending, AttemptUndelivered,
        GivenUpUndelivered, Undelivered, DeliveredIsRemembered, AtMostOnce
  <2> QED
    BY <1>4, <2>2, <2>3 DEF MarkSending
<1>5. CASE Garbled
  <2>1. job.draft \in Drafts /\ job.draft \in garbled' /\ garbled \subseteq garbled'
    BY <1>2, <1>5 DEF Garbled, Carrying
  <2>2. \A d \in Drafts : d # job.draft => delivered'[d] = delivered[d]
    BY <1>1, <1>5 DEF Garbled, ServerTakes, TypeInv, TypeOK
  <2>3. UNCHANGED <<draft, overwritten, job, queue>> /\ pc' = "refused"
    BY <1>5 DEF Garbled, composing, row_vars
  <2>4. DeliveredIsRemembered' /\ AtMostOnce'
    BY <2>1, <2>2, <2>3 DEF SendInv, DeliveredIsRemembered, AtMostOnce
  <2> QED
    BY <1>1, <2>1, <2>3, <2>4
    DEF SendInv, OnWireIsSending, AttemptUndelivered, GivenUpUndelivered, Undelivered
<1>6. CASE Accepted \/ Lost
  <2>1. DeliveredIsRemembered' /\ AtMostOnce'
    <3>1. CASE ServerTakes
      BY <1>6, <3>1, TakenSend DEF Accepted, Lost, composing, row_vars
    <3>2. CASE UNCHANGED <<delivered, taken>>
      BY <1>6, <3>2 DEF Accepted, Lost, composing, row_vars, SendInv,
         DeliveredIsRemembered, AtMostOnce
    <3> QED
      BY <1>6, <3>1, <3>2 DEF Accepted, Lost
  <2> QED
    BY <1>1, <1>6, <2>1
    DEF Accepted, Lost, composing, row_vars, SendInv, OnWireIsSending, AttemptUndelivered,
        GivenUpUndelivered
<1>7. CASE MarkUnconfirmed
  <2>1. DeliveredIsRemembered'
    BY <1>2, <1>7, MarkRemembers DEF MarkUnconfirmed, PastCommit, Carrying, composing, world
  <2> QED
    BY <1>1, <1>7, <2>1
    DEF MarkUnconfirmed, Return, composing, world, SendInv, OnWireIsSending,
        AttemptUndelivered, GivenUpUndelivered, AtMostOnce
<1>8. CASE Release
  <2>1. Undelivered(job.draft)
    BY <1>8 DEF Release, SendInv, AttemptUndelivered
  <2>2. DeliveredIsRemembered'
    BY <1>2, <1>8, <2>1, MarkRemembers DEF Release, Carrying, composing, world
  <2> QED
    BY <1>1, <1>8, <2>1, <2>2
    DEF Release, Return, composing, world, SendInv, OnWireIsSending, AttemptUndelivered,
        GivenUpUndelivered, Undelivered, AtMostOnce
<1>9. CASE MarkAccepted
  <2>1. DeliveredIsRemembered'
    BY <1>2, <1>9, MarkRemembers DEF MarkAccepted, PastCommit, Carrying, composing, world
  <2> QED
    BY <1>1, <1>9, <2>1
    DEF MarkAccepted, composing, world, SendInv, OnWireIsSending, AttemptUndelivered,
        GivenUpUndelivered, AtMostOnce
<1>10. CASE ConfirmSentCopy
  BY <1>1, <1>10
  DEF ConfirmSentCopy, Return, composing, world, row_vars, SendInv, OnWireIsSending,
      AttemptUndelivered, GivenUpUndelivered, DeliveredIsRemembered, AtMostOnce
<1>11. CASE DropDraft
  <2>1. \A d \in Drafts : draft'[d] = draft[d] \/ draft'[d] = "Gone"
    BY <1>1, <1>11 DEF DropDraft, TypeInv, TypeOK
  <2> QED
    BY <1>1, <1>11, <2>1
    DEF DropDraft, Return, composing, world, SendInv, OnWireIsSending,
        AttemptUndelivered, GivenUpUndelivered, DeliveredIsRemembered, AtMostOnce
<1>12. CASE UnfileSentCopy
  BY <1>1, <1>12
  DEF UnfileSentCopy, composing, world, row_vars, SendInv, OnWireIsSending, AttemptUndelivered,
      GivenUpUndelivered, Undelivered, DeliveredIsRemembered, AtMostOnce
<1> QED
  BY <1>3, <1>4, <1>5, <1>6, <1>7, <1>8, <1>9, <1>10, <1>11, <1>12 DEF SubmitStep

LEMMA SettleSend ==
    ASSUME SendInv, SettleStep
    PROVE  SendInv'
<1>1. TypeInv /\ TypeInv'
  BY SettleType DEF SendInv
<1>2. UNCHANGED <<delivered, overwritten, garbled>>
  BY DEF SettleStep, SettleMissing, SettleDone, SettleDeferred, SettleFailed, FailDraft,
         composing, world
<1>3. CASE SettleFailed /\ pc' = "failed"
  <2>1. queue[job.row].op = "Send" /\ outcome \in {"Failed", "Retry"} /\ pc = "settle"
        /\ UNCHANGED <<draft, job>>
    BY <1>3 DEF SettleFailed, StepDone, row_vars
  <2>2. Undelivered(job.draft)
    BY <2>1 DEF SendInv, GivenUpUndelivered
  <2> QED
    BY <1>1, <1>2, <1>3, <2>1, <2>2
    DEF SendInv, OnWireIsSending, AttemptUndelivered, GivenUpUndelivered, Undelivered,
        DeliveredIsRemembered, AtMostOnce
<1>4. CASE pc' \in {"idle", "step"} /\ UNCHANGED draft
  BY <1>1, <1>2, <1>4
  DEF SendInv, OnWireIsSending, AttemptUndelivered, GivenUpUndelivered,
      DeliveredIsRemembered, AtMostOnce
<1>5. CASE FailDraft
  <2>1. job.draft \in Drafts
    BY <1>1, <1>5, JobDraft DEF FailDraft, Carrying
  <2>2. Undelivered(job.draft)
    BY <1>5 DEF FailDraft, SendInv, AttemptUndelivered
  <2>3. DeliveredIsRemembered'
    BY <1>2, <1>5, <2>1, <2>2, MarkRemembers DEF FailDraft
  <2> QED
    BY <1>1, <1>2, <1>5, <2>3
    DEF FailDraft, StepDone, SendInv, OnWireIsSending, AttemptUndelivered,
        GivenUpUndelivered, AtMostOnce
<1> QED
  BY <1>3, <1>4, <1>5
  DEF SettleStep, SettleMissing, SettleDone, SettleDeferred, SettleFailed, StopPass, StepDone,
      row_vars

LEMMA WorldSend ==
    ASSUME SendInv,
           \/ \E r \in DOMAIN queue : BackoffElapses(r)
           \/ \E m \in taken : SyncSentCopy(m)
           \/ \E d \in Drafts : ConfirmUnconfirmed(d)
           \/ PassError \/ Crash
    PROVE  SendInv'
<1>1. TypeInv /\ TypeInv'
  BY WorldType DEF SendInv
<1>2. CASE \E r \in DOMAIN queue : BackoffElapses(r)
  <2>1. PICK r \in DOMAIN queue : BackoffElapses(r)
    BY <1>2
  <2>2. \A q \in DOMAIN queue : queue[q] \in Row
    BY <1>1, TypeParts, ElementOfSeq, LenProperties DEF TypeGroups, QueueOK
  <2>3. \A q \in DOMAIN queue : queue'[q].op = queue[q].op
    <3>1. TAKE q \in DOMAIN queue
    <3>2. queue \in [1 .. Len(queue) -> Row] /\ DOMAIN queue = 1 .. Len(queue)
      BY <1>1, TypeParts, IsASeq, LenProperties DEF TypeGroups, QueueOK
    <3>3. queue'[q] = IF q = r THEN [queue[q] EXCEPT !.due = TRUE] ELSE queue[q]
      BY <2>1, <3>2 DEF BackoffElapses
    <3> QED
      BY <2>2, <3>3 DEF Row
  <2>4. pc \in Carrying => job.row \in DOMAIN queue
    BY <1>1, JobDraft
  <2> QED
    BY <1>1, <2>1, <2>3, <2>4
    DEF BackoffElapses, row_vars, composing, pass_vars, world, SendInv, OnWireIsSending,
        AttemptUndelivered, GivenUpUndelivered, Undelivered, DeliveredIsRemembered, AtMostOnce,
        Carrying
<1>3. CASE \E m \in taken : SyncSentCopy(m)
  BY <1>1, <1>3
  DEF SyncSentCopy, row_vars, composing, pass_vars, world, SendInv, OnWireIsSending,
      AttemptUndelivered, GivenUpUndelivered, Undelivered, DeliveredIsRemembered, AtMostOnce
<1>4. CASE \E d \in Drafts : ConfirmUnconfirmed(d)
  <2>1. PICK d \in Drafts : ConfirmUnconfirmed(d)
    BY <1>4
  <2>2. draft \in [Drafts -> DraftStates]
    BY <1>1 DEF TypeInv, TypeOK
  <2>3. \A e : draft'[e] = draft[e] \/ (e = d /\ draft[d] = "Unconfirmed")
    BY <2>1, <2>2 DEF ConfirmUnconfirmed, SetState
  <2>4. UNCHANGED <<pass_vars, delivered, overwritten, garbled, queue>>
    BY <2>1 DEF ConfirmUnconfirmed, composing, world
  <2>5. DeliveredIsRemembered'
    BY <2>1, <2>4, MarkRemembers DEF ConfirmUnconfirmed, PastCommit
  <2>6. OnWireIsSending'
    BY <2>3, <2>4 DEF SendInv, OnWireIsSending, pass_vars
  <2> QED
    BY <1>1, <2>4, <2>5, <2>6
    DEF SendInv, pass_vars, AttemptUndelivered, GivenUpUndelivered, Undelivered, AtMostOnce
<1>5. CASE PassError \/ Crash
  <2>1. pc' = "idle" /\ UNCHANGED <<draft, overwritten, garbled>>
    BY <1>5 DEF PassError, Crash, StopPass, row_vars, composing, world
  <2>2. DeliveredIsRemembered' /\ AtMostOnce'
    <3>1. CASE pc = "wire" /\ ServerTakes
      BY <2>1, <3>1, TakenSend
    <3>2. CASE UNCHANGED <<delivered, taken>>
      BY <2>1, <3>2 DEF SendInv, DeliveredIsRemembered, AtMostOnce
    <3> QED
      BY <1>5, <3>1, <3>2 DEF PassError, Crash, world
  <2> QED
    BY <1>1, <2>1, <2>2 DEF SendInv, OnWireIsSending, AttemptUndelivered, GivenUpUndelivered
<1> QED
  BY <1>2, <1>3, <1>4, <1>5

LEMMA SendStep == SendInv /\ [Next]_vars => SendInv'
<1> SUFFICES ASSUME SendInv, [Next]_vars PROVE SendInv'
  OBVIOUS
<1>1. CASE \E d \in Drafts : UserStep(d)
  BY <1>1, UserSend
<1>2. CASE DrainerStep
  BY <1>2, PassStartSend, StartSend, SubmitSend, SettleSend DEF DrainerStep
<1>3. CASE UNCHANGED vars
  <2>1. TypeInv'
    BY <1>3, TypeStep DEF SendInv
  <2> QED
    BY <1>3, <2>1
    DEF vars, row_vars, composing, pass_vars, world, SendInv, OnWireIsSending,
        AttemptUndelivered, GivenUpUndelivered, Undelivered, DeliveredIsRemembered, AtMostOnce
<1> QED
  BY <1>1, <1>2, <1>3, WorldSend DEF Next

LEMMA SendInvariant == Spec => []SendInv
BY SendInit, SendStep, PTL DEF Spec

\* At-most-once submission: one ask of the user puts at most one copy in front
\* of the recipient, whatever is cancelled, retried, lost or killed on the way,
\* as long as the composer keeps off the row and the answer to the payload parses.
THEOREM AtMostOnceSubmission == Spec => []AtMostOnce
<1>1. SendInv => AtMostOnce
  BY DEF SendInv
<1> QED
  BY <1>1, SendInvariant, PTL

\* A draft whose message reached the recipient shows it, so it is never called
\* failed, retried by the queue or found orphaned.
THEOREM DeliveryRemembered == Spec => []DeliveredIsRemembered
<1>1. SendInv => DeliveredIsRemembered
  BY DEF SendInv
<1> QED
  BY <1>1, SendInvariant, PTL

\* The write-ahead mark is on the row for as long as a payload may be out.
THEOREM MarkAheadOfWire == Spec => []OnWireIsSending
<1>1. SendInv => OnWireIsSending
  BY DEF SendInv
<1> QED
  BY <1>1, SendInvariant, PTL

-----------------------------------------------------------------------------
(* Why taking a Sent copy back leaves the recipient's copy on record.      *)

\* Nobody discarded the draft, no composer wrote a state of its own over its
\* row, and every answer to its payload was understood.
Live(d) == d \notin overwritten \cup restated \cup garbled /\ draft[d] # "Gone"

\* The step has not marked its draft yet, or has taken the mark off again.
Unsubmitted ==
    \/ pc \in {"ready", "filed", "opened", "unfile", "failed"}
    \/ pc = "settle" /\ queue[job.row].op = "Send" /\ outcome \in {"Retry", "Failed"}
Submitting == pc \in {"marked", "wire", "refused", "lost", "accepted"}

\* The step filed a Sent row it may still take back.
Holding == pc \in {"filed", "opened", "marked", "wire", "refused", "unfile"}

StepMark ==
    /\ Unsubmitted /\ Live(job.draft) => draft[job.draft] \notin PastCommit
    /\ Submitting /\ Live(job.draft) => draft[job.draft] = "Sending"

\* A row is linked to its Sent copy only when the question is settled.
LinkedIsSent == \A d \in Drafts : Live(d) /\ linked[d] # NoId => draft[d] = "Sent"

HeldRow == Holding /\ Live(job.draft) => job.filed /\ sentRows[job.draft][job.id] > 0

\* A message the server took has a Sent row beyond the one a step holds for
\* another attempt under the same Message-ID.  A draft called Sent has no further
\* attempt, and a save may have made its linked row a draft's again.
TakenRow ==
    \A m \in taken : Live(m.draft) /\ draft[m.draft] # "Sent" =>
        /\ sentRows[m.draft][m.id] > 0
        /\ Holding /\ job.draft = m.draft /\ job.id = m.id => sentRows[m.draft][m.id] > 1

FilingInv == SendInv /\ StepMark /\ LinkedIsSent /\ HeldRow /\ TakenRow

\* A step in progress, its draft and its Message-ID.
LEMMA JobIds ==
    ASSUME TypeInv, pc \in Carrying
    PROVE  job \in Job /\ job.draft \in Drafts /\ job.id \in Ids /\ job.row \in DOMAIN queue
BY TypeParts DEF TypeGroups, PassOK, Job

\* What keeps the rows: a live draft called Sent stays so, and the rows of the
\* other live drafts do not get fewer.
LEMMA RowsKept ==
    ASSUME FilingInv, TypeInv', StepMark',
           Holding' => Holding /\ job' = job,
           \A e \in Drafts : Live(e)' =>
               /\ Live(e)
               /\ draft[e] = "Sent" => draft'[e] = "Sent"
               /\ linked'[e] \in {linked[e], NoId} \/ draft'[e] = "Sent"
               /\ draft'[e] = "Sent" \/ \A i \in Ids : sentRows'[e][i] >= sentRows[e][i],
           \A m \in taken' \ taken : Live(m.draft)' => ~Holding' /\ sentRows[m.draft][m.id] > 0
    PROVE  FilingInv' <=> SendInv'
<1>1. TypeInv
  BY DEF FilingInv, SendInv
<1>2. /\ sentRows \in [Drafts -> [Ids -> Nat]]
      /\ sentRows' \in [Drafts -> [Ids -> Nat]]
      /\ \A m \in taken' : m.draft \in Drafts /\ m.id \in Ids
  BY <1>1 DEF TypeInv, TypeOK
<1>3. LinkedIsSent'
  BY DEF FilingInv, LinkedIsSent
<1>4. HeldRow'
  <2> SUFFICES ASSUME Holding', Live(job.draft)'
               PROVE  job'.filed /\ sentRows'[job'.draft][job'.id] > 0
    BY DEF HeldRow
  <2>1. job' = job /\ job.draft \in Drafts /\ job.id \in Ids /\ Live(job.draft)
    BY <1>1, JobIds DEF Holding, Carrying, Live
  <2>2. draft'[job.draft] # "Sent"
    BY <2>1 DEF StepMark, Unsubmitted, Submitting, Holding, PastCommit, Live
  <2>3. sentRows'[job.draft][job.id] >= sentRows[job.draft][job.id]
    BY <2>1, <2>2 DEF Live
  <2>4. job.filed /\ sentRows[job.draft][job.id] > 0
    BY <2>1 DEF FilingInv, HeldRow
  <2> QED
    BY <1>2, <2>1, <2>3, <2>4
<1>5. TakenRow'
  <2> SUFFICES ASSUME NEW m \in taken', Live(m.draft)', draft'[m.draft] # "Sent"
               PROVE  /\ sentRows'[m.draft][m.id] > 0
                      /\ Holding' /\ job'.draft = m.draft /\ job'.id = m.id
                            => sentRows'[m.draft][m.id] > 1
    BY DEF TakenRow
  <2>1. sentRows'[m.draft][m.id] >= sentRows[m.draft][m.id] /\ Live(m.draft)
        /\ draft[m.draft] # "Sent"
    BY <1>2
  <2>2. sentRows[m.draft][m.id] \in Nat /\ sentRows'[m.draft][m.id] \in Nat
    BY <1>2
  <2>3. CASE m \in taken
    BY <2>1, <2>2, <2>3 DEF FilingInv, TakenRow
  <2>4. CASE m \notin taken
    BY <2>1, <2>2, <2>4
  <2> QED
    BY <2>3, <2>4
<1> QED
  BY <1>3, <1>4, <1>5 DEF FilingInv

LEMMA FilingInit == Init => FilingInv
<1> SUFFICES ASSUME Init PROVE FilingInv
  OBVIOUS
<1>1. SendInv
  BY SendInit
<1> QED
  BY <1>1 DEF Init, FilingInv, StepMark, Unsubmitted, Submitting, Holding, LinkedIsSent,
              HeldRow, TakenRow

\* The commands of the user move a live row only where no step has marked it.
LEMMA UserLive ==
    ASSUME FilingInv, NEW d \in Drafts, UserStep(d), NEW e \in Drafts, Live(e)'
    PROVE  /\ Live(e)
           /\ \/ draft'[e] = draft[e]
              \/ draft[e] \notin PastCommit /\ draft'[e] \notin PastCommit
              \/ draft[e] = "Unconfirmed" /\ draft'[e] \in {"Sent", "Queued"}
<1>1. draft \in [Drafts -> DraftStates]
  BY DEF FilingInv, SendInv, TypeInv, TypeOK
<1>2. garbled' = garbled /\ overwritten \subseteq overwritten'
  BY UserFrame DEF FilingInv, SendInv
<1>3. CASE UNCHANGED <<row_vars, overwritten, restated>>
  BY <1>2, <1>3 DEF row_vars, Live
<1>4. CASE Save(d)
  BY <1>1, <1>2, <1>4 DEF Save, Overwrite, Restate, PastCommit, Live
<1>5. CASE ComposerSend(d)
  BY <1>1, <1>2, <1>5 DEF ComposerSend, QueueSend, Overwrite, PastCommit, Live
<1>6. CASE RetrySend(d)
  BY <1>1, <1>2, <1>6 DEF RetrySend, QueueSend, composing, PastCommit, Live
<1>7. CASE Cancel(d)
  BY <1>1, <1>2, <1>7 DEF Cancel, SetState, composing, PastCommit, Live
<1>8. CASE MarkSent(d)
  BY <1>1, <1>2, <1>8 DEF MarkSent, SetState, composing, PastCommit, Live
<1>9. CASE Discard(d)
  BY <1>1, <1>2, <1>9 DEF Discard, Live
<1> QED
  BY <1>3, <1>4, <1>5, <1>6, <1>7, <1>8, <1>9
  DEF UserStep, Compose, Open, Close, row_vars

\* Taking a linked row takes one of a draft that is linked, and no other.
LEMMA UserRows ==
    ASSUME FilingInv, NEW d \in Drafts, UserStep(d), NEW e \in Drafts
    PROVE  /\ taken' = taken
           /\ linked'[e] \in {linked[e], NoId}
           /\ linked[e] = NoId => sentRows'[e] = sentRows[e]
<1>1. linked \in [Drafts -> Ids] /\ sentRows \in [Drafts -> [Ids -> Nat]]
  BY DEF FilingInv, SendInv, TypeInv, TypeOK
<1>2. TakeLinkedRow(d) \/ UNCHANGED filing
  BY DEF UserStep, Compose, Open, Close, Save, ComposerSend, RetrySend, Cancel, MarkSent,
         Discard, QueueSend, ListRow
<1>3. taken' = taken
  BY DEF UserStep, Compose, Open, Close, Save, ComposerSend, RetrySend, Cancel, MarkSent,
         Discard, QueueSend, world
<1>4. CASE TakeLinkedRow(d)
  BY <1>1, <1>3, <1>4 DEF TakeLinkedRow
<1>5. CASE UNCHANGED filing
  BY <1>3, <1>5 DEF filing
<1> QED
  BY <1>2, <1>4, <1>5

LEMMA UserFiling ==
    ASSUME FilingInv, NEW d \in Drafts, UserStep(d)
    PROVE  FilingInv'
<1>1. SendInv' /\ TypeInv /\ TypeInv'
  BY UserSend DEF FilingInv, SendInv
<1>2. UNCHANGED pass_vars /\ \A r \in DOMAIN queue : queue'[r].op = queue[r].op
  BY <1>1, UserFrame
<1>3. pc \in Carrying => job.draft \in Drafts /\ job.row \in DOMAIN queue
  BY <1>1, JobIds
<1>4. StepMark'
  BY <1>2, <1>3, UserLive
  DEF FilingInv, StepMark, Unsubmitted, Submitting, Carrying, PastCommit, pass_vars
<1>5. ASSUME NEW e \in Drafts, Live(e)'
      PROVE  /\ Live(e)
             /\ draft[e] = "Sent" => draft'[e] = "Sent"
             /\ linked'[e] \in {linked[e], NoId} \/ draft'[e] = "Sent"
             /\ draft'[e] = "Sent" \/ \A i \in Ids : sentRows'[e][i] >= sentRows[e][i]
  <2>1. Live(e) /\ (draft[e] = "Sent" => draft'[e] = "Sent")
    BY <1>5, UserLive DEF PastCommit
  <2>2. linked[e] = NoId \/ draft[e] = "Sent"
    BY <2>1 DEF FilingInv, LinkedIsSent
  <2>3. sentRows \in [Drafts -> [Ids -> Nat]]
    BY <1>1 DEF TypeInv, TypeOK
  <2> QED
    BY <2>1, <2>2, <2>3, UserRows
<1>6. taken' = taken
  BY UserRows
<1> QED
  BY <1>1, <1>2, <1>4, <1>5, <1>6, RowsKept DEF Holding, pass_vars

LEMMA PassStartFiling ==
    ASSUME FilingInv, HealOrphans \/ ListDue \/ EndPass
    PROVE  FilingInv'
<1>1. SendInv' /\ TypeInv /\ TypeInv'
  BY PassStartSend DEF FilingInv, SendInv
<1>2. pc' \in {"idle", "list", "step"} /\ UNCHANGED <<overwritten, restated, garbled, taken, filing>>
  BY DEF HealOrphans, ListDue, EndPass, composing, world
<1>3. \A d \in Drafts : draft'[d] = draft[d] \/ (draft[d] = "Queued" /\ draft'[d] = "Failed")
  BY <1>1 DEF HealOrphans, ListDue, EndPass, row_vars, TypeInv, TypeOK
<1>4. StepMark'
  BY <1>2 DEF StepMark, Unsubmitted, Submitting
<1>5. sentRows \in [Drafts -> [Ids -> Nat]]
  BY <1>1 DEF TypeInv, TypeOK
<1> QED
  BY <1>1, <1>2, <1>3, <1>4, <1>5, RowsKept DEF Holding, Live, filing

LEMMA StartFiling ==
    ASSUME FilingInv, NEW r \in DOMAIN queue, StartStep(r)
    PROVE  FilingInv'
<1> DEFINE e == queue[r].draft
<1>1. SendInv' /\ TypeInv /\ TypeInv'
  BY StartSend DEF FilingInv, SendInv
<1>2. /\ UNCHANGED <<overwritten, restated, garbled, taken, filing, queue>>
      /\ pc' \in {"ready", "settle"}
      /\ job' = JobFor(r, FALSE) /\ job'.row = r /\ job'.draft = e
  BY DEF StartStep, Upload, ResolveSettled, ResolveReady, Decide, JobFor, composing, world
<1>3. \A d \in Drafts :
         draft'[d] = draft[d] \/ (draft[d] \in {"Sending", "Unconfirmed"} /\ draft'[d] = "Unconfirmed")
  BY <1>1 DEF StartStep, Upload, ResolveSettled, ResolveReady, SetState, row_vars, TypeInv, TypeOK
<1>4. StepMark'
  BY <1>2
  DEF StepMark, Unsubmitted, Submitting, StartStep, Upload, ResolveSettled, ResolveReady, Decide,
      row_vars, Live
<1>5. sentRows \in [Drafts -> [Ids -> Nat]]
  BY <1>1 DEF TypeInv, TypeOK
<1>6. ~Holding' /\ UNCHANGED <<linked, sentRows, taken>>
  BY <1>2 DEF Holding, filing
<1>7. \A d \in Drafts : Live(d)' => Live(d) /\ (draft[d] = "Sent" => draft'[d] = "Sent")
  BY <1>2, <1>3 DEF Live
<1>8. \A d \in Drafts, i \in Ids : sentRows'[d][i] >= sentRows[d][i]
  BY <1>5, <1>6
<1> HIDE DEF e
<1> QED
  BY <1>1, <1>4, <1>6, <1>7, <1>8, RowsKept

\* One write of a mark to the draft of the step.
LEMMA MarkOne ==
    ASSUME TypeInv, NEW d \in Drafts, NEW s, s # "Gone",
           SetState(d, s) \/ Mark(d, s)
    PROVE  /\ \A e \in Drafts : e # d => draft'[e] = draft[e]
           /\ draft'[d] \in {draft[d], s}
           /\ ~StoreFails /\ Exists(d) => draft'[d] = s
           /\ ~Exists(d) => draft'[d] = draft[d]
<1>1. draft \in [Drafts -> DraftStates]
  BY DEF TypeInv, TypeOK
<1> QED
  BY <1>1 DEF Mark, SetState, row_vars

\* The steps between filing the row and the answer keep what they hold.
LEMMA SubmitFiling ==
    ASSUME ~StoreFails, FilingInv, SubmitStep
    PROVE  FilingInv'
<1>1. SendInv' /\ TypeInv /\ TypeInv' /\ sentRows \in [Drafts -> [Ids -> Nat]]
  BY SubmitSend DEF FilingInv, SendInv, TypeInv, TypeOK
<1>2. pc \in Carrying /\ job.draft \in Drafts /\ job.id \in Ids /\ job \in Job
  <2>1. pc \in Carrying
    BY DEF SubmitStep, Carrying, FileSentLocally, OpenSession, MarkSending, BeginPayload, Refused, Garbled, Accepted,
       Lost, MarkUnconfirmed, Release, MarkAccepted, ConfirmSentCopy, DropDraft, UnfileSentCopy
  <2> QED
    BY <1>1, <2>1, JobIds
<1>3. UNCHANGED <<overwritten, restated, queue>> /\ garbled \subseteq garbled'
  BY DEF SubmitStep, composing, world, FileSentLocally, OpenSession, MarkSending, BeginPayload, Refused, Garbled,
     Accepted, Lost, MarkUnconfirmed, Release, MarkAccepted, ConfirmSentCopy, DropDraft, UnfileSentCopy
<1>4. draft \in [Drafts -> DraftStates]
  BY <1>1 DEF TypeInv, TypeOK
<1>5. CASE FileSentLocally
  <2>1. /\ UNCHANGED <<draft, taken, garbled, linked>> /\ pc = "ready" /\ pc' = "filed"
        /\ job' = [job EXCEPT !.filed = TRUE]
        /\ sentRows' = [sentRows EXCEPT ![job.draft][job.id] = @ + 1]
    BY <1>5 DEF FileSentLocally, row_vars, world
  <2>2. job'.draft = job.draft /\ job'.id = job.id /\ job'.filed
    BY <1>2, <2>1 DEF Job
  <2>3. /\ sentRows'[job.draft][job.id] = sentRows[job.draft][job.id] + 1
        /\ \A e \in Drafts, i \in Ids : sentRows'[e][i] >= sentRows[e][i]
        /\ \A e \in Drafts, i \in Ids : sentRows[e][i] \in Nat
    BY <1>1, <1>2, <2>1
  <2>4. StepMark'
    BY <1>3, <2>1, <2>2 DEF FilingInv, StepMark, Unsubmitted, Submitting, Live
  <2>5. LinkedIsSent'
    BY <1>3, <2>1 DEF FilingInv, LinkedIsSent, Live
  <2>6. HeldRow'
    BY <1>2, <2>2, <2>3 DEF HeldRow
  <2>7. TakenRow'
    <3> SUFFICES ASSUME NEW m \in taken, Live(m.draft), draft[m.draft] # "Sent"
                 PROVE  /\ sentRows'[m.draft][m.id] > 0
                        /\ job.draft = m.draft /\ job.id = m.id => sentRows'[m.draft][m.id] > 1
      BY <1>3, <2>1, <2>2 DEF TakenRow, Live
    <3>1. m.draft \in Drafts /\ m.id \in Ids
      BY <1>1 DEF TypeInv, TypeOK
    <3>2. sentRows[m.draft][m.id] > 0
      BY DEF FilingInv, TakenRow
    <3>3. sentRows'[m.draft][m.id] \in Nat
      BY <1>1, <3>1 DEF TypeInv, TypeOK
    <3> QED
      BY <2>3, <3>1, <3>2, <3>3
  <2> QED
    BY <1>1, <2>4, <2>5, <2>6, <2>7 DEF FilingInv
<1>6. CASE UnfileSentCopy
  <2>1. /\ UNCHANGED <<draft, taken, garbled, linked, job, outcome>> /\ pc = "unfile" /\ pc' = "settle"
        /\ sentRows' = [sentRows EXCEPT ![job.draft][job.id] = IF @ > 0 THEN @ - 1 ELSE 0]
    BY <1>6 DEF UnfileSentCopy, row_vars, world
  <2>2. StepMark'
    BY <1>3, <2>1 DEF FilingInv, StepMark, Unsubmitted, Submitting, Live
  <2>3. LinkedIsSent'
    BY <1>3, <2>1 DEF FilingInv, LinkedIsSent, Live
  <2>4. HeldRow'
    BY <2>1 DEF HeldRow, Holding
  <2>5. TakenRow'
    <3> SUFFICES ASSUME NEW m \in taken, Live(m.draft), draft[m.draft] # "Sent"
                 PROVE  sentRows'[m.draft][m.id] > 0
      BY <1>3, <2>1 DEF TakenRow, Live, Holding
    <3>1. m.draft \in Drafts /\ m.id \in Ids
      BY <1>1 DEF TypeInv, TypeOK
    <3>2. /\ sentRows[m.draft][m.id] > 0
          /\ job.draft = m.draft /\ job.id = m.id => sentRows[m.draft][m.id] > 1
      BY <2>1 DEF FilingInv, TakenRow, Holding
    <3> QED
      BY <1>1, <1>2, <2>1, <3>1, <3>2
  <2> QED
    BY <1>1, <2>2, <2>3, <2>4, <2>5 DEF FilingInv
<1>7. CASE BeginPayload \/ Refused \/ OpenSession
  <2>1. UNCHANGED <<draft, taken, garbled, filing, job>>
    BY <1>7 DEF BeginPayload, Refused, OpenSession, row_vars, world
  <2>2. StepMark' /\ (Holding' => Holding)
    BY <1>3, <1>7, <2>1
    DEF BeginPayload, Refused, OpenSession, Return, FilingInv, StepMark, Unsubmitted, Submitting,
        Holding, Live
  <2> QED
    BY <1>1, <1>3, <2>1, <2>2, RowsKept DEF Live, filing
<1>8. CASE MarkSending
  <2>1. UNCHANGED <<taken, garbled, filing, job>> /\ pc = "opened" /\ pc' \in {"marked", "settle"}
    BY <1>8 DEF MarkSending, Return, world
  <2>2. Live(job.draft) => draft[job.draft] \notin PastCommit
    BY <2>1 DEF FilingInv, StepMark, Unsubmitted
  <2>3. /\ \A e \in Drafts : e # job.draft => draft'[e] = draft[e]
        /\ IF pc' = "marked" THEN draft'[job.draft] = "Sending" /\ draft[job.draft] # "Gone"
                             ELSE draft'[job.draft] = draft[job.draft]
    BY <1>2, <1>4, <1>8 DEF MarkSending, SetState, Return, row_vars, Exists, Stored, PastCommit
  <2>4. StepMark'
    BY <1>2, <1>3, <2>1, <2>2, <2>3 DEF StepMark, Unsubmitted, Submitting, Live
  <2> QED
    BY <1>1, <1>2, <1>3, <2>1, <2>2, <2>3, <2>4, RowsKept DEF Holding, Live, PastCommit, filing
<1>9. CASE Garbled
  <2>1. /\ UNCHANGED <<draft, filing, job>> /\ pc = "wire" /\ pc' = "refused"
        /\ job.draft \in garbled'
        /\ \A m \in taken' \ taken : m.draft = job.draft
    BY <1>9 DEF Garbled, ServerTakes, row_vars
  <2>2. StepMark'
    BY <1>3, <2>1 DEF StepMark, Unsubmitted, Submitting, Live
  <2> QED
    BY <1>1, <1>3, <2>1, <2>2, RowsKept DEF Holding, Live, filing
<1>10. CASE Accepted \/ Lost
  <2>1. /\ UNCHANGED <<draft, garbled, filing, job>> /\ pc = "wire" /\ pc' \in {"accepted", "lost"}
        /\ \A m \in taken' \ taken : m.draft = job.draft /\ m.id = job.id
    BY <1>10 DEF Accepted, Lost, ServerTakes, row_vars
  <2>2. StepMark'
    BY <1>3, <2>1 DEF FilingInv, StepMark, Unsubmitted, Submitting, Live
  <2>3. Live(job.draft) => sentRows[job.draft][job.id] > 0
    BY <2>1 DEF FilingInv, HeldRow, Holding
  <2> QED
    BY <1>1, <1>3, <2>1, <2>2, <2>3, RowsKept DEF Holding, Live, filing
<1>11. CASE MarkUnconfirmed \/ MarkAccepted
  <2>1. /\ UNCHANGED <<taken, garbled, filing, job>> /\ pc \in {"lost", "accepted"}
        /\ \/ pc' = "confirm"
           \/ pc' = "settle" /\ outcome' = "Uncertain"
    BY <1>11 DEF MarkUnconfirmed, MarkAccepted, Return, world
  <2>2. Live(job.draft) => draft[job.draft] = "Sending"
    BY <2>1 DEF FilingInv, StepMark, Submitting
  <2>3. /\ \A e \in Drafts : e # job.draft => draft'[e] = draft[e]
        /\ draft'[job.draft] \in {draft[job.draft], "Unconfirmed", "Sent"}
        /\ draft[job.draft] = "Gone" => draft'[job.draft] = "Gone"
    BY <1>1, <1>2, <1>11, MarkOne DEF MarkUnconfirmed, MarkAccepted, Exists, Stored, PastCommit
  <2>4. StepMark'
    BY <2>1 DEF StepMark, Unsubmitted, Submitting
  <2> QED
    BY <1>1, <1>2, <1>3, <2>1, <2>2, <2>3, <2>4, RowsKept DEF Holding, Live, filing
<1>12. CASE Release
  <2>1. /\ UNCHANGED <<taken, garbled, filing, job>> /\ pc = "refused" /\ pc' \in {"unfile", "settle"}
    BY <1>12 DEF Release, Return, world
  <2>2. Live(job.draft) => draft[job.draft] = "Sending"
    BY <2>1 DEF FilingInv, StepMark, Submitting
  <2>3. /\ \A e \in Drafts : e # job.draft => draft'[e] = draft[e]
        /\ draft[job.draft] = "Sending" => draft'[job.draft] = "Queued"
        /\ draft[job.draft] = "Gone" => draft'[job.draft] = "Gone"
    BY <1>1, <1>2, <1>12, MarkOne DEF Release, Exists, Stored, PastCommit
  <2>4. StepMark'
    BY <1>2, <1>3, <2>1, <2>2, <2>3 DEF StepMark, Unsubmitted, Submitting, Live, PastCommit
  <2> QED
    BY <1>1, <1>2, <1>3, <2>1, <2>2, <2>3, <2>4, RowsKept DEF Holding, Live, filing
<1>13. CASE ConfirmSentCopy
  <2>1. /\ UNCHANGED <<draft, taken, garbled, linked, job>> /\ pc' = "drop"
        /\ \/ UNCHANGED sentRows
           \/ sentRows' = [sentRows EXCEPT ![job.draft][job.id] = @ + 1]
    BY <1>13 DEF ConfirmSentCopy, row_vars, world
  <2>2. \A e \in Drafts, i \in Ids : sentRows'[e][i] >= sentRows[e][i]
    BY <1>1, <1>2, <2>1
  <2>3. StepMark'
    BY <2>1 DEF StepMark, Unsubmitted, Submitting
  <2> QED
    BY <1>1, <1>3, <2>1, <2>2, <2>3, RowsKept DEF Holding, Live
<1>14. CASE DropDraft
  <2>1. UNCHANGED <<taken, garbled, job>> /\ pc' = "settle" /\ outcome' = "Applied"
    BY <1>14 DEF DropDraft, Return, world
  <2>2. \A e \in Drafts :
           \/ draft'[e] = "Gone"
           \/ UNCHANGED <<draft[e], linked[e], sentRows[e]>>
    <3>1. linked \in [Drafts -> Ids]
      BY <1>1 DEF TypeInv, TypeOK
    <3>2. CASE /\ draft' = [draft EXCEPT ![job.draft] = "Gone"]
               /\ TakeLinkedRow(job.draft)
      BY <1>1, <1>2, <1>4, <3>1, <3>2 DEF TakeLinkedRow
    <3>3. CASE UNCHANGED <<draft, filing>>
      BY <3>3 DEF filing
    <3> QED
      BY <1>14, <3>2, <3>3 DEF DropDraft
  <2>3. StepMark'
    BY <2>1 DEF StepMark, Unsubmitted, Submitting
  <2> QED
    BY <1>1, <1>3, <2>1, <2>2, <2>3, RowsKept DEF Holding, Live
<1> QED
  BY <1>5, <1>6, <1>7, <1>8, <1>9, <1>10, <1>11, <1>12, <1>13, <1>14 DEF SubmitStep

LEMMA SettleFiling ==
    ASSUME FilingInv, SettleStep
    PROVE  FilingInv'
<1>1. SendInv' /\ TypeInv /\ TypeInv' /\ sentRows \in [Drafts -> [Ids -> Nat]]
  BY SettleSend DEF FilingInv, SendInv, TypeInv, TypeOK
<1>2. UNCHANGED <<overwritten, restated, garbled, taken, filing>> /\ pc' \in {"idle", "step", "failed"}
  BY DEF SettleStep, SettleMissing, SettleDone, SettleDeferred, SettleFailed, FailDraft,
         StopPass, StepDone, composing, world
<1>3. CASE SettleFailed /\ pc' = "failed"
  <2>1. queue[job.row].op = "Send" /\ outcome \in {"Failed", "Retry"} /\ pc = "settle"
        /\ UNCHANGED <<draft, job>>
    BY <1>3 DEF SettleFailed, StepDone, row_vars
  <2>2. StepMark'
    BY <1>2, <1>3, <2>1 DEF FilingInv, StepMark, Unsubmitted, Submitting, Live
  <2> QED
    BY <1>1, <1>2, <1>3, <2>1, <2>2, RowsKept DEF Holding, Live, filing
<1>4. CASE pc' \in {"idle", "step"} /\ UNCHANGED draft
  <2>1. StepMark'
    BY <1>4 DEF StepMark, Unsubmitted, Submitting
  <2> QED
    BY <1>1, <1>2, <1>4, <2>1, RowsKept DEF Holding, Live, filing
<1>5. CASE FailDraft
  <2>1. job.draft \in Drafts /\ pc = "failed" /\ pc' = "step"
    BY <1>1, <1>5, JobIds DEF FailDraft, StepDone, Carrying
  <2>2. Live(job.draft) => draft[job.draft] # "Sent"
    BY <2>1 DEF FilingInv, StepMark, Unsubmitted, PastCommit
  <2>3. /\ \A e \in Drafts : e # job.draft => draft'[e] = draft[e]
        /\ draft[job.draft] = "Gone" => draft'[job.draft] = "Gone"
    BY <1>1, <1>5, <2>1, MarkOne DEF FailDraft, Exists, Stored, PastCommit
  <2>4. StepMark'
    BY <2>1 DEF StepMark, Unsubmitted, Submitting
  <2> QED
    BY <1>1, <1>2, <2>1, <2>2, <2>3, <2>4, RowsKept DEF Holding, Live, filing
<1> QED
  BY <1>3, <1>4, <1>5
  DEF SettleStep, SettleMissing, SettleDone, SettleDeferred, SettleFailed, StopPass, StepDone,
      row_vars

LEMMA WorldFiling ==
    ASSUME FilingInv,
           \/ \E r \in DOMAIN queue : BackoffElapses(r)
           \/ \E m \in taken : SyncSentCopy(m)
           \/ \E d \in Drafts : ConfirmUnconfirmed(d)
           \/ PassError \/ Crash
    PROVE  FilingInv'
<1>1. SendInv' /\ TypeInv /\ TypeInv' /\ sentRows \in [Drafts -> [Ids -> Nat]]
  BY WorldSend DEF FilingInv, SendInv, TypeInv, TypeOK
<1>2. pc \in Carrying => job.draft \in Drafts /\ job.id \in Ids /\ job.row \in DOMAIN queue
  BY <1>1, JobIds
<1>3. CASE \E r \in DOMAIN queue : BackoffElapses(r)
  <2>1. PICK r \in DOMAIN queue : BackoffElapses(r)
    BY <1>3
  <2>2. UNCHANGED <<draft, overwritten, restated, garbled, taken, filing, pc, job, outcome>>
    BY <2>1 DEF BackoffElapses, row_vars, composing, pass_vars, world
  <2>3. \A q \in DOMAIN queue : queue'[q].op = queue[q].op
    <3>1. TAKE q \in DOMAIN queue
    <3>2. queue \in [1 .. Len(queue) -> Row] /\ DOMAIN queue = 1 .. Len(queue) /\ queue[q] \in Row
      BY <1>1, TypeParts, IsASeq, LenProperties, ElementOfSeq DEF TypeGroups, QueueOK
    <3>3. queue'[q] = IF q = r THEN [queue[q] EXCEPT !.due = TRUE] ELSE queue[q]
      BY <2>1, <3>2 DEF BackoffElapses
    <3> QED
      BY <3>2, <3>3 DEF Row
  <2>4. StepMark'
    BY <1>2, <2>2, <2>3 DEF FilingInv, StepMark, Unsubmitted, Submitting, Live, Carrying
  <2> QED
    BY <1>1, <2>2, <2>4, RowsKept DEF Holding, Live, filing
<1>4. CASE \E m \in taken : SyncSentCopy(m)
  <2>1. PICK m \in taken : SyncSentCopy(m)
    BY <1>4
  <2>2. UNCHANGED <<draft, overwritten, restated, garbled, taken, linked, pc, job, outcome, queue>>
    BY <2>1 DEF SyncSentCopy, row_vars, composing, pass_vars, world
  <2>3. \A e \in Drafts, i \in Ids : sentRows'[e][i] >= sentRows[e][i]
    <3>1. m.draft \in Drafts /\ m.id \in Ids
      BY <1>1 DEF TypeInv, TypeOK
    <3> QED
      BY <1>1, <2>1, <3>1 DEF SyncSentCopy
  <2>4. StepMark'
    BY <2>2 DEF FilingInv, StepMark, Unsubmitted, Submitting, Live
  <2> QED
    BY <1>1, <2>2, <2>3, <2>4, RowsKept DEF Holding, Live
<1>5. CASE \E d \in Drafts : ConfirmUnconfirmed(d)
  <2>1. PICK d \in Drafts : ConfirmUnconfirmed(d)
    BY <1>5
  <2>2. UNCHANGED <<overwritten, restated, garbled, taken, sentRows, pc, job, outcome, queue>>
    BY <2>1 DEF ConfirmUnconfirmed, composing, pass_vars, world
  <2>3. /\ draft[d] = "Unconfirmed" /\ draft'[d] = "Sent"
        /\ \A e \in Drafts : e # d => draft'[e] = draft[e] /\ linked'[e] = linked[e]
    BY <1>1, <2>1 DEF ConfirmUnconfirmed, SetState, Exists, Stored, PastCommit, TypeInv, TypeOK
  <2>4. StepMark'
    BY <1>2, <2>2, <2>3
    DEF FilingInv, StepMark, Unsubmitted, Submitting, Live, Carrying, PastCommit
  <2> QED
    BY <1>1, <2>2, <2>3, <2>4, RowsKept DEF Holding, Live
<1>6. CASE PassError \/ Crash
  <2>1. pc' = "idle" /\ UNCHANGED <<draft, overwritten, restated, garbled, filing>>
    BY <1>6 DEF PassError, Crash, StopPass, row_vars, composing, world
  <2>2. \A m \in taken' \ taken : pc = "wire" /\ m.draft = job.draft /\ m.id = job.id
    BY <1>6 DEF PassError, Crash, ServerTakes, world
  <2>3. pc = "wire" /\ Live(job.draft) => sentRows[job.draft][job.id] > 0
    BY DEF FilingInv, HeldRow, Holding
  <2>4. StepMark'
    BY <2>1 DEF StepMark, Unsubmitted, Submitting
  <2> QED
    BY <1>1, <2>1, <2>2, <2>3, <2>4, RowsKept DEF Holding, Live, filing
<1> QED
  BY <1>3, <1>4, <1>5, <1>6

LEMMA FilingStep ==
    ASSUME ~StoreFails
    PROVE  FilingInv /\ [Next]_vars => FilingInv'
<1> SUFFICES ASSUME FilingInv, [Next]_vars PROVE FilingInv'
  OBVIOUS
<1>1. CASE \E d \in Drafts : UserStep(d)
  BY <1>1, UserFiling
<1>2. CASE DrainerStep
  BY <1>2, PassStartFiling, StartFiling, SubmitFiling, SettleFiling DEF DrainerStep
<1>3. CASE UNCHANGED vars
  <2>1. SendInv'
    BY <1>3, SendStep DEF FilingInv
  <2> QED
    BY <1>3, <2>1
    DEF vars, row_vars, composing, pass_vars, filing, world, FilingInv, StepMark, Unsubmitted,
        Submitting, LinkedIsSent, HeldRow, TakenRow, Holding, Live
<1> QED
  BY <1>1, <1>2, <1>3, WorldFiling DEF Next

\* A failed attempt that takes its Sent row back leaves one for the message an
\* earlier attempt delivered, where the store keeps what it is given.
THEOREM UnfileLeavesSent == ASSUME ~StoreFails PROVE Spec => UnfileKeepsSent
<1> DEFINE keeps == UnfileSentCopy =>
                      \A m \in taken :
                         /\ m.draft \notin overwritten \cup restated \cup garbled
                         /\ draft[m.draft] # "Gone"
                         /\ sentRows[m.draft][m.id] > 0
                         => sentRows'[m.draft][m.id] > 0
<1>1. FilingInv => keeps
  <2> SUFFICES ASSUME FilingInv, UnfileSentCopy, NEW m \in taken, Live(m.draft),
                      sentRows[m.draft][m.id] > 0
               PROVE  sentRows'[m.draft][m.id] > 0
    BY DEF Live
  <2>1. TypeInv /\ sentRows \in [Drafts -> [Ids -> Nat]] /\ m.draft \in Drafts /\ m.id \in Ids
    BY DEF FilingInv, SendInv, TypeInv, TypeOK
  <2>2. pc = "unfile" /\ job.draft \in Drafts /\ job.id \in Ids
    BY <2>1, JobIds DEF UnfileSentCopy, Carrying
  <2>3. CASE job.draft = m.draft /\ job.id = m.id
    <3>1. draft[m.draft] # "Sent"
      BY <2>2, <2>3 DEF FilingInv, StepMark, Unsubmitted, PastCommit
    <3>2. sentRows[m.draft][m.id] > 1
      BY <2>2, <2>3, <3>1 DEF FilingInv, TakenRow, Holding
    <3> QED
      BY <2>1, <2>2, <3>2 DEF UnfileSentCopy
  <2>4. CASE ~(job.draft = m.draft /\ job.id = m.id)
    BY <2>1, <2>2, <2>4 DEF UnfileSentCopy
  <2> QED
    BY <2>3, <2>4
<1>2. FilingInv /\ [Next]_vars => [keeps]_vars
  BY <1>1
<1> HIDE DEF keeps
<1>3. Spec => [][keeps]_vars
  BY <1>2, FilingInit, FilingStep, PTL DEF Spec
<1> QED
  BY <1>3 DEF keeps, UnfileKeepsSent
=============================================================================

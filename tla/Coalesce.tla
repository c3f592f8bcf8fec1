------------------------------ MODULE Coalesce ------------------------------
(***************************************************************************)
(* Folding a batch of queued operations down to the steps the server needs *)
(* (postio-sync/src/coalesce.rs).  Only what acts on a message is here;    *)
(* a batch is the sequence of one message's rows, in queue order: a fold   *)
(* never looks across targets.                                             *)
(***************************************************************************)
EXTENDS Naturals, Sequences, SequencesExt

\* An operation on a message.  A flag change names no mailbox, a relocation no
\* flag; a Delete is a move to the trash.
FlagOp(kind, flags)    == [kind |-> kind, from |-> "none", to |-> "none", flags |-> flags]
MoveOp(kind, from, to) == [kind |-> kind, from |-> from, to |-> to, flags |-> {}]

FlagKinds == {"SetFlags", "ClearFlags"}
MoveKinds == {"Move", "Delete"}

\* What folding a later operation into an earlier one can come to, besides an
\* operation that replaces both.
Cancelled == [kind |-> "Cancelled"]
Separate  == [kind |-> "Separate"]

MergeFlags(earlier, later) ==
    IF earlier.kind = later.kind
    THEN FlagOp(later.kind, earlier.flags \cup later.flags)
    ELSE IF ~(earlier.flags \subseteq later.flags) THEN Separate
    ELSE IF earlier.flags = later.flags THEN Cancelled
    ELSE later

\* Mutant: a chain of moves that stops where the first one went.
MergeToMidpoint(earlier, later) ==
    IF earlier.to # later.from THEN Separate
    ELSE IF earlier.kind = "Move" /\ earlier.from = later.to THEN Cancelled
    ELSE MoveOp(later.kind, earlier.from, earlier.to)

\* A relocation chains through its midpoint.  A restore from the trash to a
\* third mailbox is the one that keeps the trash as its source.
MergeMoves(earlier, later) ==
    IF earlier.to # later.from THEN Separate
    ELSE IF later.kind = "Move" /\ earlier.from = later.to THEN Cancelled
    ELSE CASE earlier.kind = "Move" -> MoveOp(later.kind, earlier.from, later.to)
           [] earlier.kind = "Delete" /\ later.kind = "Move" ->
                 MoveOp("Move", later.from, later.to)
           [] OTHER -> Separate

Merge(earlier, later) ==
    CASE earlier.kind \in FlagKinds /\ later.kind \in FlagKinds -> MergeFlags(earlier, later)
      [] earlier.kind \in MoveKinds /\ later.kind \in MoveKinds -> MergeMoves(earlier, later)
      [] OTHER -> Separate

\* The running fold of one target: its steps so far, each with the rows behind
\* it, and the rows that cancelled out.
EmptyFold == [steps |-> <<>>, obsolete |-> {}]

Push(fold, queued) ==
    LET alone  == [op |-> queued.op, rows |-> {queued.id}]
        last   == Last(fold.steps)
        merged == Merge(last.op, queued.op)
        both   == last.rows \cup {queued.id}
    IN  IF fold.steps = <<>> THEN [fold EXCEPT !.steps = <<alone>>]
        ELSE CASE merged = Separate  -> [fold EXCEPT !.steps = Append(@, alone)]
               [] merged = Cancelled -> [steps    |-> Front(fold.steps),
                                         obsolete |-> fold.obsolete \cup both]
               [] OTHER -> [fold EXCEPT !.steps = Append(Front(@),
                                             [op |-> merged, rows |-> both])]

\* The rows of one target, each [id, op], folded one by one.
Coalesced(batch) ==
    LET fold[n \in 0 .. Len(batch)] ==
            IF n = 0 THEN EmptyFold ELSE Push(fold[n - 1], batch[n])
    IN  fold[Len(batch)]

-----------------------------------------------------------------------------
(* What an operation asks of a message, given where the message is: the      *)
(* meaning a fold has to keep.                                               *)

Performed(at, op) ==
    CASE op.kind = "SetFlags"   -> [at EXCEPT !.flags = @ \cup op.flags]
      [] op.kind = "ClearFlags" -> [at EXCEPT !.flags = @ \ op.flags]
      [] OTHER -> IF at.box = op.from THEN [at EXCEPT !.box = op.to] ELSE at

\* Where the message is after each of the operations, and after all.
Course(at, ops) ==
    LET after[n \in 0 .. Len(ops)] ==
            IF n = 0 THEN at ELSE Performed(after[n - 1], ops[n])
    IN  after
Replayed(at, ops) == Course(at, ops)[Len(ops)]
=============================================================================

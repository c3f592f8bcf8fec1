-------------------------- MODULE MessageQueueProofs --------------------------
(***************************************************************************)
(* Proofs about MessageQueue, for every set of messages, mailboxes and     *)
(* flags, every number of rows, attempts, lanes and faults; and before     *)
(* them about Coalesce: what folding a batch does to its rows and to what  *)
(* they ask of the message, for a batch of any length.  A fold is a        *)
(* recursion along the batch, so every fact about it goes by induction on  *)
(* how much of the batch is folded.                                        *)
(***************************************************************************)
EXTENDS MessageQueue, SequenceTheorems, NumberLemmas

-----------------------------------------------------------------------------
(* A fold is a function: one for every batch.                              *)

\* The fold of the first n rows.
IsFold(f, batch, n) == f = [k \in 0 .. n |-> IF k = 0 THEN EmptyFold ELSE Push(f[k - 1], batch[k])]

LEMMA FoldExists ==
    ASSUME NEW batch, NEW n \in Nat
    PROVE  \E f : IsFold(f, batch, n)
<1> DEFINE S == {k \in 0 .. n : \E f : IsFold(f, batch, k)}
<1>1. 0 \in S
  <2> DEFINE f == [k \in 0 .. 0 |-> EmptyFold]
  <2>1. \A k \in 0 .. 0 : k = 0
    OBVIOUS
  <2>2. IsFold(f, batch, 0)
    BY <2>1 DEF IsFold
  <2> QED
    BY <2>2
<1>2. \A k \in 1 .. n : k - 1 \in S => k \in S
  <2> SUFFICES ASSUME NEW k \in 1 .. n, NEW f, IsFold(f, batch, k - 1)
               PROVE  \E g : IsFold(g, batch, k)
    OBVIOUS
  <2> DEFINE g == [j \in 0 .. k |-> IF j = k THEN Push(f[k - 1], batch[k]) ELSE f[j]]
  <2>1. f = [j \in 0 .. k - 1 |-> IF j = 0 THEN EmptyFold ELSE Push(f[j - 1], batch[j])]
    BY DEF IsFold
  <2>2. \A j \in 0 .. k : g[j] = IF j = 0 THEN EmptyFold ELSE Push(g[j - 1], batch[j])
    <3> TAKE j \in 0 .. k
    <3>1. CASE j = k
      <4>1. k # 0 /\ k - 1 \in 0 .. k /\ k - 1 # k /\ k \in 0 .. k
        OBVIOUS
      <4>2. g[k] = Push(f[k - 1], batch[k]) /\ g[k - 1] = f[k - 1]
        BY <4>1
      <4> QED
        BY <3>1, <4>1, <4>2
    <3>2. CASE j # k
      <4>1. j \in 0 .. k - 1 /\ (j # 0 => j - 1 \in 0 .. k /\ j - 1 # k)
        BY <3>2
      <4>2. g[j] = f[j] /\ (j # 0 => g[j - 1] = f[j - 1])
        BY <3>2, <4>1
      <4>3. f[j] = IF j = 0 THEN EmptyFold ELSE Push(f[j - 1], batch[j])
        BY <2>1, <4>1
      <4> QED
        BY <4>2, <4>3
    <3> QED
      BY <3>1, <3>2
  <2>3. g = [j \in 0 .. k |-> g[j]]
    OBVIOUS
  <2>4. IsFold(g, batch, k)
    BY <2>2, <2>3 DEF IsFold
  <2> QED
    BY <2>4
<1> HIDE DEF S
<1>3. n \in S
  BY <1>1, <1>2, InductionUpTo
<1> QED
  BY <1>3 DEF S

\* A folded batch is the end of such a fold.
LEMMA CoalescedIs ==
    ASSUME NEW batch, Len(batch) \in Nat
    PROVE  \E f : /\ IsFold(f, batch, Len(batch))
                  /\ Coalesced(batch) = f[Len(batch)]
<1> DEFINE n == Len(batch)
           f == CHOOSE g : g = [k \in 0 .. n |-> IF k = 0 THEN EmptyFold
                                                 ELSE Push(g[k - 1], batch[k])]
<1>1. \E g : g = [k \in 0 .. n |-> IF k = 0 THEN EmptyFold ELSE Push(g[k - 1], batch[k])]
  BY FoldExists DEF IsFold
<1>2. IsFold(f, batch, n)
  BY <1>1 DEF IsFold
<1>3. Coalesced(batch) = f[n]
  BY DEF Coalesced
<1> QED
  BY <1>2, <1>3

-----------------------------------------------------------------------------
(* What one row does to the steps so far.                                  *)

\* The operations on messages, over mailboxes M and flags F.
OpSet(M, F) == [kind : FlagKinds, from : {"none"}, to : {"none"}, flags : SUBSET F]
                 \cup [kind : MoveKinds, from : M, to : M, flags : {{}}]
RowSet(I, M, F)  == [id : I, op : OpSet(M, F)]
StepSet(I, M, F) == [op : OpSet(M, F), rows : (SUBSET I) \ {{}}]
FoldsOver(I, M, F) == [steps : Seq(StepSet(I, M, F)), obsolete : SUBSET I]

LEMMA MergeType ==
    ASSUME NEW M, NEW F, NEW e \in OpSet(M, F), NEW l \in OpSet(M, F)
    PROVE  Merge(e, l) \in OpSet(M, F) \cup {Separate, Cancelled}
<1>1. CASE e.kind \in FlagKinds /\ l.kind \in FlagKinds
  <2>1. e.flags \cup l.flags \in SUBSET F
    BY DEF OpSet
  <2>2. FlagOp(l.kind, e.flags \cup l.flags) \in OpSet(M, F)
    BY <1>1, <2>1 DEF OpSet, FlagOp
  <2>3. MergeFlags(e, l) \in OpSet(M, F) \cup {Separate, Cancelled}
    BY <2>2 DEF MergeFlags
  <2>4. ~(e.kind \in MoveKinds)
    BY <1>1 DEF FlagKinds, MoveKinds
  <2> QED
    BY <1>1, <2>3, <2>4 DEF Merge
<1>2. CASE e.kind \in MoveKinds /\ l.kind \in MoveKinds
  <2>1. e.from \in M /\ l.to \in M /\ l.from \in M
    BY <1>2 DEF OpSet, FlagKinds, MoveKinds
  <2>2. \A k \in MoveKinds, a \in M, b \in M : MoveOp(k, a, b) \in OpSet(M, F)
    BY DEF OpSet, MoveOp
  <2>3. /\ MoveOp(l.kind, e.from, l.to) \in OpSet(M, F)
        /\ MoveOp("Move", l.from, l.to) \in OpSet(M, F)
    BY <1>2, <2>1, <2>2 DEF MoveKinds
  <2>4. MergeMoves(e, l) \in OpSet(M, F) \cup {Separate, Cancelled}
    BY <2>3 DEF MergeMoves
  <2>5. ~(e.kind \in FlagKinds)
    BY <1>2 DEF FlagKinds, MoveKinds
  <2> QED
    BY <1>2, <2>4, <2>5 DEF Merge
<1>3. CASE ~(e.kind \in FlagKinds /\ l.kind \in FlagKinds) /\ ~(e.kind \in MoveKinds /\ l.kind \in MoveKinds)
  BY <1>3 DEF Merge
<1> QED
  BY <1>1, <1>2, <1>3

\* An operation is none of the two other things a merge can come to.
LEMMA OpsAreOps ==
    ASSUME NEW M, NEW F, NEW o \in OpSet(M, F)
    PROVE  o # Separate /\ o # Cancelled /\ Separate # Cancelled
<1>1. o.kind \in FlagKinds \cup MoveKinds
  BY DEF OpSet
<1>2. o.kind # "Separate" /\ o.kind # "Cancelled"
  BY <1>1 DEF FlagKinds, MoveKinds
<1>3. Separate.kind = "Separate" /\ Cancelled.kind = "Cancelled"
  BY DEF Separate, Cancelled
<1> QED
  BY <1>2, <1>3

\* The steps with one more, without their last, and with their last replaced.
Alone(row)       == [op |-> row.op, rows |-> {row.id}]
Both(last, row)  == last.rows \cup {row.id}
Grown(s, t, x)   == /\ Len(t) = Len(s) + 1
                    /\ \A k \in 1 .. Len(s) : t[k] = s[k]
                    /\ t[Len(s) + 1] = x
Shrunk(s, t)     == /\ Len(s) # 0
                    /\ Len(t) = Len(s) - 1
                    /\ \A k \in 1 .. Len(t) : t[k] = s[k]
Replaced(s, t, x) == /\ Len(s) # 0
                     /\ Len(t) = Len(s)
                     /\ \A k \in 1 .. Len(s) - 1 : t[k] = s[k]
                     /\ t[Len(s)] = x

PushKeepsApart(f, g, row)   == /\ g.obsolete = f.obsolete
                               /\ Grown(f.steps, g.steps, Alone(row))
PushCancels(f, g, row, last) == /\ Merge(last.op, row.op) = Cancelled
                                /\ g.obsolete = f.obsolete \cup Both(last, row)
                                /\ Shrunk(f.steps, g.steps)
PushMerges(f, g, row, last)  == /\ Merge(last.op, row.op) \notin {Separate, Cancelled}
                                /\ g.obsolete = f.obsolete
                                /\ Replaced(f.steps, g.steps,
                                            [op   |-> Merge(last.op, row.op),
                                             rows |-> Both(last, row)])

FoldWith(q, o) == [steps |-> q, obsolete |-> o]

LEMMA FoldOf ==
    ASSUME NEW I, NEW M, NEW F, NEW q \in Seq(StepSet(I, M, F)), NEW o \in SUBSET I
    PROVE  /\ FoldWith(q, o) \in FoldsOver(I, M, F)
           /\ FoldWith(q, o).steps = q
           /\ FoldWith(q, o).obsolete = o
BY DEF FoldsOver, FoldWith

LEMMA FoldExcept ==
    ASSUME NEW I, NEW M, NEW F, NEW f \in FoldsOver(I, M, F), NEW z
    PROVE  [f EXCEPT !.steps = z] = FoldWith(z, f.obsolete)
BY DEF FoldsOver, FoldWith

LEMMA PushIs ==
    ASSUME NEW I, NEW M, NEW F, NEW f \in FoldsOver(I, M, F), NEW row \in RowSet(I, M, F),
           NEW g, g = Push(f, row), NEW last, last = f.steps[Len(f.steps)]
    PROVE  /\ g \in FoldsOver(I, M, F)
           /\ \/ PushKeepsApart(f, g, row)
              \/ Len(f.steps) # 0 /\ PushCancels(f, g, row, last)
              \/ Len(f.steps) # 0 /\ PushMerges(f, g, row, last)
<1> DEFINE q == f.steps
           n == Len(q)
           S == StepSet(I, M, F)
           z == Append(q, Alone(row))
           x == [op |-> Merge(last.op, row.op), rows |-> Both(last, row)]
<1>1. q \in Seq(S) /\ n \in Nat /\ f.obsolete \in SUBSET I /\ f = [steps |-> q, obsolete |-> f.obsolete]
  BY DEF FoldsOver
<1>2. Alone(row) \in S
  BY DEF StepSet, RowSet, Alone
<1>3. z \in Seq(S) /\ Grown(q, z, Alone(row))
  BY <1>1, <1>2 DEF Grown
<1>4. z = Append(q, Alone(row))
  OBVIOUS
<1> HIDE DEF z
<1>5. CASE n = 0
  <2>1. q = <<>>
    BY <1>1, <1>5
  <2>2. g = FoldWith(<<Alone(row)>>, f.obsolete)
    BY <1>1, <2>1 DEF Push, Alone, FoldWith
  <2>3. <<Alone(row)>> = z
    BY <1>4, <2>1
  <2>4. g \in FoldsOver(I, M, F) /\ g.steps = z /\ g.obsolete = f.obsolete
    BY <1>1, <1>3, <2>2, <2>3, FoldOf
  <2>5. PushKeepsApart(f, g, row)
    BY <1>3, <2>4 DEF PushKeepsApart
  <2> QED
    BY <2>4, <2>5
<1>6. CASE n # 0
  <2>1. q # <<>> /\ last \in S /\ Last(q) = last
    BY <1>1, <1>6 DEF Last
  <2>2. Both(last, row) \in SUBSET I
    BY <2>1 DEF Both, StepSet, RowSet
  <2>3. Front(q) \in Seq(S) /\ Shrunk(q, Front(q)) /\ Len(Front(q)) = n - 1
    <3>1. n - 1 \in Nat /\ \A k \in 1 .. n - 1 : q[k] \in S
      BY <1>1, <1>6
    <3>2. Front(q) = [k \in 1 .. n - 1 |-> q[k]]
      BY <1>1, <1>6 DEF Front
    <3> QED
      BY <3>1, <3>2, <1>6 DEF Shrunk
  <2>4. last.op \in OpSet(M, F) /\ row.op \in OpSet(M, F)
    BY <2>1 DEF StepSet, RowSet
  <2>5. Merge(last.op, row.op) \in OpSet(M, F) \cup {Separate, Cancelled}
    BY <2>4, MergeType
  <2>6. CASE Merge(last.op, row.op) = Separate
    <3>1. g = [f EXCEPT !.steps = z]
      BY <1>4, <2>1, <2>4, <2>6, OpsAreOps DEF Push, Alone
    <3>2. g = FoldWith(z, f.obsolete)
      BY <3>1, FoldExcept
    <3>3. g \in FoldsOver(I, M, F) /\ g.steps = z /\ g.obsolete = f.obsolete
      BY <1>1, <1>3, <3>2, FoldOf
    <3> QED
      BY <1>3, <3>3 DEF PushKeepsApart
  <2>7. CASE Merge(last.op, row.op) = Cancelled
    <3>1. Separate # Cancelled
      BY <2>4, OpsAreOps
    <3>2. g = FoldWith(Front(q), f.obsolete \cup Both(last, row))
      BY <1>1, <2>1, <2>7, <3>1 DEF Push, Both, FoldWith
    <3>3. f.obsolete \cup Both(last, row) \in SUBSET I
      BY <1>1, <2>2
    <3>4. g \in FoldsOver(I, M, F) /\ g.steps = Front(q) /\ g.obsolete = f.obsolete \cup Both(last, row)
      BY <2>3, <3>2, <3>3, FoldOf
    <3> QED
      BY <1>6, <2>3, <2>7, <3>4 DEF PushCancels
  <2>8. CASE Merge(last.op, row.op) \notin {Separate, Cancelled}
    <3> DEFINE y == Append(Front(q), x)
    <3>1. g = [f EXCEPT !.steps = y]
      BY <2>1, <2>8 DEF Push, Both
    <3>2. Both(last, row) \in (SUBSET I) \ {{}} /\ Merge(last.op, row.op) \in OpSet(M, F)
      BY <2>2, <2>5, <2>8 DEF Both
    <3>3. x \in S
      BY <3>2 DEF StepSet
    <3> HIDE DEF x
    <3>4. y \in Seq(S) /\ Replaced(q, y, x)
      BY <1>1, <1>6, <2>3, <3>3 DEF Replaced, Shrunk
    <3> HIDE DEF y
    <3>5. g = FoldWith(y, f.obsolete)
      BY <3>1, FoldExcept
    <3>6. g \in FoldsOver(I, M, F) /\ g.obsolete = f.obsolete /\ g.steps = y
      BY <1>1, <3>4, <3>5, FoldOf
    <3>7. PushMerges(f, g, row, last)
      BY <2>8, <3>4, <3>6 DEF PushMerges, x
    <3> QED
      BY <1>6, <3>6, <3>7
  <2> QED
    BY <2>6, <2>7, <2>8
<1> QED
  BY <1>5, <1>6

-----------------------------------------------------------------------------
(* A fold settles every row once.                                          *)

\* Of the rows with ids in B each is settled, by one step or as obsolete.
SettledBy(fold, k, i) == i \in fold.steps[k].rows
Settles(fold, i) == \/ i \in fold.obsolete
                    \/ \E k \in 1 .. Len(fold.steps) : SettledBy(fold, k, i)
SettlesJust(fold, B) == \A i : Settles(fold, i) <=> i \in B
SettlesOnce(fold) ==
    /\ \A k \in 1 .. Len(fold.steps) : \A i : SettledBy(fold, k, i) => i \notin fold.obsolete
    /\ \A j, k \in 1 .. Len(fold.steps) : \A i :
          SettledBy(fold, j, i) /\ SettledBy(fold, k, i) => j = k

LEMMA PushSettles ==
    ASSUME NEW I, NEW M, NEW F, NEW f \in FoldsOver(I, M, F), NEW row \in RowSet(I, M, F),
           NEW g, g = Push(f, row), NEW B, row.id \notin B,
           SettlesJust(f, B), SettlesOnce(f)
    PROVE  SettlesJust(g, B \cup {row.id}) /\ SettlesOnce(g)
<1> DEFINE n == Len(f.steps)
           last == f.steps[n]
           id == row.id
<1>1. n \in Nat /\ (n # 0 => n \in 1 .. n)
  BY DEF FoldsOver
<1>2. /\ g \in FoldsOver(I, M, F)
      /\ \/ PushKeepsApart(f, g, row)
         \/ n # 0 /\ PushCancels(f, g, row, last)
         \/ n # 0 /\ PushMerges(f, g, row, last)
  BY PushIs
<1>3. ~Settles(f, id)
  BY DEF SettlesJust
<1>4. id \notin f.obsolete /\ \A k \in 1 .. n : ~SettledBy(f, k, id)
  BY <1>3 DEF Settles
<1>5. CASE PushKeepsApart(f, g, row)
  <2>1. /\ g.obsolete = f.obsolete /\ Len(g.steps) = n + 1
        /\ \A k \in 1 .. n : \A i : SettledBy(g, k, i) <=> SettledBy(f, k, i)
        /\ \A i : SettledBy(g, n + 1, i) <=> i = id
    BY <1>5 DEF PushKeepsApart, Grown, Alone, SettledBy
  <2>2. \A k \in 1 .. n + 1 : k \in 1 .. n \/ k = n + 1
    BY <1>1
  <2>3. n + 1 \in 1 .. n + 1 /\ \A k \in 1 .. n : k \in 1 .. n + 1
    BY <1>1
  <2>4. \A i : Settles(g, i) <=> Settles(f, i) \/ i = id
    BY <2>1, <2>2, <2>3 DEF Settles
  <2>5. SettlesOnce(g)
    BY <1>4, <2>1, <2>2 DEF SettlesOnce
  <2> QED
    BY <2>4, <2>5 DEF SettlesJust
<1>6. CASE n # 0 /\ PushCancels(f, g, row, last)
  <2>1. /\ \A i : i \in g.obsolete <=> i \in f.obsolete \/ SettledBy(f, n, i) \/ i = id
        /\ Len(g.steps) = n - 1
        /\ \A k \in 1 .. n - 1 : \A i : SettledBy(g, k, i) <=> SettledBy(f, k, i)
    BY <1>6 DEF PushCancels, Shrunk, Both, SettledBy
  <2>2. \A k \in 1 .. n - 1 : k \in 1 .. n /\ k # n
    BY <1>1
  <2>3. \A k \in 1 .. n : k \in 1 .. n - 1 \/ k = n
    BY <1>1
  <2>4. \A i : Settles(g, i) <=> Settles(f, i) \/ i = id
    BY <1>1, <1>6, <2>1, <2>2, <2>3 DEF Settles
  <2>5. SettlesOnce(g)
    <3>1. \A k \in 1 .. n - 1 : \A i : SettledBy(g, k, i) => i \notin g.obsolete
      <4> TAKE k \in 1 .. n - 1
      <4>1. k \in 1 .. n /\ n \in 1 .. n /\ k # n
        BY <1>1, <1>6, <2>2
      <4>2. \A i : SettledBy(f, k, i) => i \notin f.obsolete /\ ~SettledBy(f, n, i)
        BY <4>1 DEF SettlesOnce
      <4> QED
        BY <1>4, <2>1, <4>1, <4>2
    <3>2. \A j, k \in 1 .. n - 1 : \A i : SettledBy(g, j, i) /\ SettledBy(g, k, i) => j = k
      BY <2>1, <2>2 DEF SettlesOnce
    <3> QED
      BY <2>1, <3>1, <3>2 DEF SettlesOnce
  <2> QED
    BY <2>4, <2>5 DEF SettlesJust
<1>7. CASE n # 0 /\ PushMerges(f, g, row, last)
  <2>1. /\ g.obsolete = f.obsolete /\ Len(g.steps) = n
        /\ \A k \in 1 .. n - 1 : \A i : SettledBy(g, k, i) <=> SettledBy(f, k, i)
        /\ \A i : SettledBy(g, n, i) <=> SettledBy(f, n, i) \/ i = id
    BY <1>7 DEF PushMerges, Replaced, Both, SettledBy
  <2>2. \A k \in 1 .. n - 1 : k \in 1 .. n /\ k # n
    BY <1>1
  <2>3. \A k \in 1 .. n : k \in 1 .. n - 1 \/ k = n
    BY <1>1
  <2>4. \A i : Settles(g, i) <=> Settles(f, i) \/ i = id
    BY <1>1, <1>7, <2>1, <2>2, <2>3 DEF Settles
  <2>5. SettlesOnce(g)
    <3>1. \A k \in 1 .. n : \A i : SettledBy(g, k, i) <=> SettledBy(f, k, i) \/ (k = n /\ i = id)
      BY <2>1, <2>2, <2>3
    <3>2. \A k \in 1 .. n : \A i : SettledBy(g, k, i) => i \notin g.obsolete
      BY <1>4, <2>1, <3>1 DEF SettlesOnce
    <3>3. \A j, k \in 1 .. n : \A i : SettledBy(g, j, i) /\ SettledBy(g, k, i) => j = k
      <4> TAKE j, k \in 1 .. n
      <4> TAKE i
      <4>1. CASE i = id
        BY <1>4, <3>1, <4>1
      <4>2. CASE i # id
        BY <3>1, <4>2 DEF SettlesOnce
      <4> QED
        BY <4>1, <4>2
    <3> QED
      BY <2>1, <3>2, <3>3 DEF SettlesOnce
  <2> QED
    BY <2>4, <2>5 DEF SettlesJust
<1> QED
  BY <1>2, <1>5, <1>6, <1>7

\* The ids of the first k rows.
Ids(batch, k) == {batch[j].id : j \in 1 .. k}
Batches(I, M, F) == {b \in Seq(RowSet(I, M, F)) :
                        \A j, k \in 1 .. Len(b) : b[j].id = b[k].id => j = k}

\* Along a fold the steps so far settle the rows so far.
LEMMA FoldSettles ==
    ASSUME NEW I, NEW M, NEW F, NEW batch \in Batches(I, M, F), NEW f,
           IsFold(f, batch, Len(batch))
    PROVE  \A k \in 0 .. Len(batch) : /\ f[k] \in FoldsOver(I, M, F)
                                      /\ SettlesJust(f[k], Ids(batch, k))
                                      /\ SettlesOnce(f[k])
<1> DEFINE n == Len(batch)
           S == {k \in 0 .. n : /\ f[k] \in FoldsOver(I, M, F)
                                /\ SettlesJust(f[k], Ids(batch, k))
                                /\ SettlesOnce(f[k])}
<1>1. n \in Nat /\ \A k \in 1 .. n : batch[k] \in RowSet(I, M, F)
  BY DEF Batches
<1>2. f[0] = EmptyFold /\ \A k \in 1 .. n : f[k] = Push(f[k - 1], batch[k])
  BY <1>1 DEF IsFold
<1>3. 0 \in S
  <2>1. EmptyFold \in FoldsOver(I, M, F) /\ Len(EmptyFold.steps) = 0 /\ EmptyFold.obsolete = {}
    BY DEF EmptyFold, FoldsOver
  <2>2. Ids(batch, 0) = {}
    BY DEF Ids
  <2>3. SettlesJust(EmptyFold, {}) /\ SettlesOnce(EmptyFold)
    BY <2>1 DEF SettlesJust, SettlesOnce, Settles
  <2>4. f[0] \in FoldsOver(I, M, F) /\ SettlesJust(f[0], Ids(batch, 0)) /\ SettlesOnce(f[0])
    BY <1>2, <2>1, <2>2, <2>3
  <2> QED
    BY <1>1, <2>4
<1>4. \A k \in 1 .. n : k - 1 \in S => k \in S
  <2> SUFFICES ASSUME NEW k \in 1 .. n, k - 1 \in S PROVE k \in S
    OBVIOUS
  <2>1. Ids(batch, k) = Ids(batch, k - 1) \cup {batch[k].id}
    <3>1. \A j : j \in 1 .. k <=> j \in 1 .. k - 1 \/ j = k
      BY <1>1
    <3> QED
      BY <3>1 DEF Ids
  <2>2. batch[k].id \notin Ids(batch, k - 1)
    BY <1>1 DEF Ids, Batches
  <2>3. /\ f[k - 1] \in FoldsOver(I, M, F)
        /\ SettlesJust(f[k - 1], Ids(batch, k - 1))
        /\ SettlesOnce(f[k - 1])
        /\ f[k] = Push(f[k - 1], batch[k])
        /\ batch[k] \in RowSet(I, M, F)
    BY <1>1, <1>2
  <2>4. f[k] \in FoldsOver(I, M, F)
    BY <2>3, PushIs
  <2>5. SettlesJust(f[k], Ids(batch, k)) /\ SettlesOnce(f[k])
    BY <2>1, <2>2, <2>3, PushSettles
  <2> QED
    BY <2>4, <2>5
<1> HIDE DEF S
<1>5. \A k \in 0 .. n : k \in S
  BY <1>1, <1>3, <1>4, InductionUpTo
<1> QED
  BY <1>5 DEF S

\* Whatever the batch, each of its rows is settled by the fold once: it stands
\* behind one step, or it cancelled out (a row settled twice would be marked
\* done while the server still has to carry it out, one settled by nothing
\* would stay queued for ever).
THEOREM FoldSettlesEachOnce ==
    ASSUME NEW I, NEW M, NEW F, NEW batch \in Batches(I, M, F)
    PROVE  /\ Coalesced(batch) \in FoldsOver(I, M, F)
           /\ SettlesJust(Coalesced(batch), Ids(batch, Len(batch)))
           /\ SettlesOnce(Coalesced(batch))
<1>1. Len(batch) \in Nat
  BY DEF Batches
<1>2. PICK f : IsFold(f, batch, Len(batch)) /\ Coalesced(batch) = f[Len(batch)]
  BY <1>1, CoalescedIs
<1>3. Len(batch) \in 0 .. Len(batch)
  BY <1>1
<1> QED
  BY <1>2, <1>3, FoldSettles

-----------------------------------------------------------------------------
(* The operations of a list, carried out one after another.                *)

OpsOf(list) == [k \in 1 .. Len(list) |-> list[k].op]

IsCourse(c, at, ops, n) ==
    c = [k \in 0 .. n |-> IF k = 0 THEN at ELSE Performed(c[k - 1], ops[k])]

LEMMA CourseExists ==
    ASSUME NEW at, NEW ops, NEW n \in Nat
    PROVE  \E c : IsCourse(c, at, ops, n)
<1> DEFINE S == {k \in 0 .. n : \E c : IsCourse(c, at, ops, k)}
<1>1. 0 \in S
  <2> DEFINE c == [k \in 0 .. 0 |-> at]
  <2>1. \A k \in 0 .. 0 : k = 0
    OBVIOUS
  <2>2. IsCourse(c, at, ops, 0)
    BY <2>1 DEF IsCourse
  <2> QED
    BY <2>2
<1>2. \A k \in 1 .. n : k - 1 \in S => k \in S
  <2> SUFFICES ASSUME NEW k \in 1 .. n, NEW c, IsCourse(c, at, ops, k - 1)
               PROVE  \E d : IsCourse(d, at, ops, k)
    OBVIOUS
  <2> DEFINE d == [j \in 0 .. k |-> IF j = k THEN Performed(c[k - 1], ops[k]) ELSE c[j]]
  <2>1. c = [j \in 0 .. k - 1 |-> IF j = 0 THEN at ELSE Performed(c[j - 1], ops[j])]
    BY DEF IsCourse
  <2>2. \A j \in 0 .. k : d[j] = IF j = 0 THEN at ELSE Performed(d[j - 1], ops[j])
    <3> TAKE j \in 0 .. k
    <3>1. CASE j = k
      <4>1. k # 0 /\ k - 1 \in 0 .. k /\ k - 1 # k /\ k \in 0 .. k
        OBVIOUS
      <4>2. d[k] = Performed(c[k - 1], ops[k]) /\ d[k - 1] = c[k - 1]
        BY <4>1
      <4> QED
        BY <3>1, <4>1, <4>2
    <3>2. CASE j # k
      <4>1. j \in 0 .. k - 1 /\ (j # 0 => j - 1 \in 0 .. k /\ j - 1 # k)
        BY <3>2
      <4>2. d[j] = c[j] /\ (j # 0 => d[j - 1] = c[j - 1])
        BY <3>2, <4>1
      <4>3. c[j] = IF j = 0 THEN at ELSE Performed(c[j - 1], ops[j])
        BY <2>1, <4>1
      <4> QED
        BY <4>2, <4>3
    <3> QED
      BY <3>1, <3>2
  <2>3. d = [j \in 0 .. k |-> d[j]]
    OBVIOUS
  <2> HIDE DEF d
  <2>4. IsCourse(d, at, ops, k)
    BY <2>2, <2>3 DEF IsCourse
  <2> QED
    BY <2>4
<1> HIDE DEF S
<1>3. n \in S
  BY <1>1, <1>2, InductionUpTo
<1> QED
  BY <1>3 DEF S

LEMMA CourseAt ==
    ASSUME NEW c, NEW at, NEW ops, NEW n \in Nat, IsCourse(c, at, ops, n)
    PROVE  c[0] = at /\ \A k \in 1 .. n : c[k] = Performed(c[k - 1], ops[k])
<1>1. c = [k \in 0 .. n |-> IF k = 0 THEN at ELSE Performed(c[k - 1], ops[k])]
  BY DEF IsCourse
<1>2. 0 \in 0 .. n /\ \A k \in 1 .. n : k \in 0 .. n /\ k # 0
  OBVIOUS
<1> QED
  BY <1>1, <1>2

LEMMA CourseIs ==
    ASSUME NEW at, NEW ops, Len(ops) \in Nat
    PROVE  IsCourse(Course(at, ops), at, ops, Len(ops))
<1> DEFINE n == Len(ops)
           c == CHOOSE d : d = [k \in 0 .. n |-> IF k = 0 THEN at
                                                 ELSE Performed(d[k - 1], ops[k])]
<1>1. PICK d : IsCourse(d, at, ops, n)
  BY CourseExists
<1>2. \E e : e = [k \in 0 .. n |-> IF k = 0 THEN at ELSE Performed(e[k - 1], ops[k])]
  BY <1>1, Zenon DEF IsCourse
<1>3. IsCourse(c, at, ops, n)
  BY <1>2 DEF IsCourse
<1>4. Course(at, ops) = c
  BY DEF Course
<1> QED
  BY <1>3, <1>4

\* What holds of the course of a list of rows or of steps.
LEMMA CourseSteps ==
    ASSUME NEW at, NEW R, NEW list \in Seq(R)
    PROVE  LET c == Course(at, OpsOf(list))
           IN  /\ c[0] = at
               /\ \A k \in 1 .. Len(list) : c[k] = Performed(c[k - 1], list[k].op)
               /\ Replayed(at, OpsOf(list)) = c[Len(list)]
<1> DEFINE ops == OpsOf(list)
           c == Course(at, ops)
<1>1. ops \in Seq({list[k].op : k \in 1 .. Len(list)}) /\ Len(ops) = Len(list) /\ Len(list) \in Nat
  BY DEF OpsOf
<1>2. \A k \in 1 .. Len(list) : ops[k] = list[k].op
  BY DEF OpsOf
<1>3. IsCourse(c, at, ops, Len(list))
  BY <1>1, CourseIs
<1>4. c[0] = at /\ \A k \in 1 .. Len(list) : c[k] = Performed(c[k - 1], ops[k])
  BY <1>1, <1>3, CourseAt
<1>5. Replayed(at, ops) = c[Len(list)]
  BY <1>1 DEF Replayed
<1> QED
  BY <1>2, <1>4, <1>5

-----------------------------------------------------------------------------
(* A fold asks of the message what its rows ask, one after another.        *)

States(M, F) == [box : M, flags : SUBSET F]

\* The operation changes what it finds.
Effective(at, op) ==
    /\ op.kind = "SetFlags"   => op.flags \cap at.flags = {}
    /\ op.kind = "ClearFlags" => op.flags \subseteq at.flags
    /\ op.kind \in MoveKinds  => at.box = op.from

\* A row changes one flag, or where the message is.
SingleOps(M, F) == {o \in OpSet(M, F) : o.kind \in FlagKinds => \E x \in F : o.flags = {x}}
\* A step changes some.
SomeOps(M, F)   == {o \in OpSet(M, F) : o.kind \in FlagKinds => o.flags # {}}

LEMMA PerformedType ==
    ASSUME NEW M, NEW F, NEW x \in States(M, F), NEW o \in OpSet(M, F)
    PROVE  /\ Performed(x, o) \in States(M, F)
           /\ o.kind = "SetFlags" => /\ Performed(x, o).box = x.box
                                     /\ Performed(x, o).flags = x.flags \cup o.flags
           /\ o.kind = "ClearFlags" => /\ Performed(x, o).box = x.box
                                       /\ Performed(x, o).flags = x.flags \ o.flags
           /\ o.kind \in MoveKinds => /\ Performed(x, o).flags = x.flags
                                      /\ x.box = o.from => Performed(x, o).box = o.to
<1>1. x = [box |-> x.box, flags |-> x.flags] /\ x.box \in M /\ x.flags \in SUBSET F
  BY DEF States
<1>2. CASE o.kind = "SetFlags"
  <2>1. o.flags \in SUBSET F
    BY DEF OpSet
  <2>2. Performed(x, o) = [box |-> x.box, flags |-> x.flags \cup o.flags]
    BY <1>1, <1>2 DEF Performed
  <2> QED
    BY <1>1, <1>2, <2>1, <2>2 DEF States, MoveKinds
<1>3. CASE o.kind = "ClearFlags"
  <2>1. Performed(x, o) = [box |-> x.box, flags |-> x.flags \ o.flags]
    BY <1>1, <1>3 DEF Performed
  <2> QED
    BY <1>1, <1>3, <2>1 DEF States, MoveKinds
<1>4. CASE o.kind \in MoveKinds
  <2>1. o.to \in M
    BY <1>4 DEF OpSet, MoveKinds, FlagKinds
  <2>2. Performed(x, o) = IF x.box = o.from THEN [x EXCEPT !.box = o.to] ELSE x
    BY <1>4 DEF Performed, MoveKinds
  <2>3. [x EXCEPT !.box = o.to] = [box |-> o.to, flags |-> x.flags]
    BY <1>1
  <2>4. [box |-> o.to, flags |-> x.flags] \in States(M, F)
    BY <1>1, <2>1 DEF States
  <2> QED
    BY <1>1, <1>4, <2>2, <2>3, <2>4 DEF MoveKinds
<1>5. o.kind \in FlagKinds \cup MoveKinds
  BY DEF OpSet
<1> QED
  BY <1>2, <1>3, <1>4, <1>5 DEF FlagKinds

\* Two places of a message are the same when mailbox and flags are.
LEMMA SamePlace ==
    ASSUME NEW M, NEW F, NEW x \in States(M, F), NEW y \in States(M, F),
           x.box = y.box, x.flags = y.flags
    PROVE  x = y
BY DEF States

\* Two operations that cancel out leave the message as it was.
LEMMA CancelIsExact ==
    ASSUME NEW M, NEW F, NEW x \in States(M, F),
           NEW e \in SomeOps(M, F), NEW l \in SingleOps(M, F),
           Effective(x, e), Effective(Performed(x, e), l), Merge(e, l) = Cancelled
    PROVE  Performed(Performed(x, e), l) = x
<1> DEFINE y == Performed(x, e)
           z == Performed(y, l)
<1>1. e \in OpSet(M, F) /\ l \in OpSet(M, F) /\ Separate # Cancelled
  BY OpsAreOps DEF SomeOps, SingleOps
<1>2. y \in States(M, F) /\ z \in States(M, F)
  BY <1>1, PerformedType
<1>3. CASE e.kind \in FlagKinds /\ l.kind \in FlagKinds
  <2>1. ~(e.kind \in MoveKinds) /\ ~(l.kind \in MoveKinds)
    BY <1>3 DEF FlagKinds, MoveKinds
  <2>2. MergeFlags(e, l) = Cancelled
    BY <1>3, <2>1 DEF Merge
  <2>3. FlagOp(l.kind, e.flags \cup l.flags) \in OpSet(M, F)
    BY <1>1, <1>3 DEF OpSet, FlagOp
  <2>4. FlagOp(l.kind, e.flags \cup l.flags) # Cancelled /\ l # Cancelled
    BY <1>1, <2>3, OpsAreOps
  <2>5. e.kind # l.kind /\ e.flags = l.flags
    BY <1>1, <2>2, <2>4 DEF MergeFlags
  <2>6. CASE e.kind = "SetFlags"
    <3>1. l.kind = "ClearFlags" /\ l.kind # "SetFlags"
      BY <1>3, <2>5, <2>6 DEF FlagKinds
    <3>2. y.box = x.box /\ y.flags = x.flags \cup e.flags /\ e.flags \cap x.flags = {}
      BY <1>1, <2>6, PerformedType DEF Effective
    <3>3. z.box = y.box /\ z.flags = y.flags \ l.flags
      BY <1>1, <1>2, <3>1, PerformedType
    <3>4. z.flags = x.flags
      BY <2>5, <3>2, <3>3
    <3> QED
      BY <1>2, <3>2, <3>3, <3>4, SamePlace
  <2>7. CASE e.kind = "ClearFlags"
    <3>1. l.kind = "SetFlags"
      BY <1>3, <2>5, <2>7 DEF FlagKinds
    <3>2. y.box = x.box /\ y.flags = x.flags \ e.flags /\ e.flags \subseteq x.flags
      BY <1>1, <2>7, PerformedType DEF Effective
    <3>3. z.box = y.box /\ z.flags = y.flags \cup l.flags
      BY <1>1, <1>2, <3>1, PerformedType
    <3>4. z.flags = x.flags
      BY <2>5, <3>2, <3>3
    <3> QED
      BY <1>2, <3>2, <3>3, <3>4, SamePlace
  <2> QED
    BY <1>3, <2>6, <2>7 DEF FlagKinds
<1>4. CASE e.kind \in MoveKinds /\ l.kind \in MoveKinds
  <2>1. ~(e.kind \in FlagKinds)
    BY <1>4 DEF FlagKinds, MoveKinds
  <2>2. MergeMoves(e, l) = Cancelled
    BY <1>4, <2>1 DEF Merge
  <2>3. e.from \in M /\ l.to \in M /\ l.from \in M
    BY <1>1, <1>4 DEF OpSet, FlagKinds, MoveKinds
  <2>4. \A k \in MoveKinds, a \in M, b \in M : MoveOp(k, a, b) \in OpSet(M, F)
    BY DEF OpSet, MoveOp
  <2>5. /\ MoveOp(l.kind, e.from, l.to) # Cancelled
        /\ MoveOp("Move", l.from, l.to) # Cancelled
    BY <1>4, <2>3, <2>4, OpsAreOps DEF MoveKinds
  <2>6. e.from = l.to
    BY <1>1, <1>4, <2>2, <2>5 DEF MergeMoves, MoveKinds
  <2>7. y.flags = x.flags /\ y.box = e.to /\ x.box = e.from
    BY <1>1, <1>4, PerformedType DEF Effective
  <2>8. z.flags = y.flags /\ z.box = l.to
    BY <1>1, <1>2, <1>4, PerformedType DEF Effective
  <2> QED
    BY <1>2, <2>6, <2>7, <2>8, SamePlace
<1>5. CASE ~(e.kind \in FlagKinds /\ l.kind \in FlagKinds) /\ ~(e.kind \in MoveKinds /\ l.kind \in MoveKinds)
  BY <1>1, <1>5 DEF Merge
<1> QED
  BY <1>3, <1>4, <1>5

\* An operation that stands for two asks what the two ask, unless it stands for
\* a deletion and a move of the message to somewhere new.
LEMMA MergeIsExact ==
    ASSUME NEW M, NEW F, NEW x \in States(M, F),
           NEW e \in SomeOps(M, F), NEW l \in SingleOps(M, F),
           Effective(x, e), Effective(Performed(x, e), l),
           NEW m, m = Merge(e, l), m \notin {Separate, Cancelled},
           e.kind = "Delete" /\ l.kind = "Move" => l.to = e.from
    PROVE  /\ m \in SomeOps(M, F)
           /\ Effective(x, m)
           /\ Performed(x, m) = Performed(Performed(x, e), l)
           /\ m.kind \in MoveKinds => /\ e.kind = "Move"
                                      /\ m.kind = l.kind
                                      /\ m.from = e.from
                                      /\ m.to = l.to
                                      /\ l.from = e.to
<1> DEFINE y == Performed(x, e)
           z == Performed(y, l)
<1>1. e \in OpSet(M, F) /\ l \in OpSet(M, F)
  BY DEF SomeOps, SingleOps
<1>2. y \in States(M, F) /\ z \in States(M, F)
  BY <1>1, PerformedType
<1>3. CASE e.kind \in FlagKinds /\ l.kind \in FlagKinds
  <2>1. ~(e.kind \in MoveKinds) /\ ~(l.kind \in MoveKinds)
    BY <1>3 DEF FlagKinds, MoveKinds
  <2>2. m = MergeFlags(e, l)
    BY <1>3, <2>1 DEF Merge
  <2>3. PICK w \in F : l.flags = {w}
    BY <1>3 DEF SingleOps
  <2>4. e.flags # {}
    BY <1>3 DEF SomeOps
  <2>5. e.flags \subseteq l.flags => e.flags = l.flags
    BY <2>3, <2>4
  <2>6. e.kind = l.kind /\ m = FlagOp(l.kind, e.flags \cup l.flags)
    BY <2>2, <2>5 DEF MergeFlags
  <2>7. /\ m \in SomeOps(M, F) /\ m.kind = e.kind /\ m.flags = e.flags \cup l.flags
        /\ m \in OpSet(M, F)
    <3>1. e.flags \cup l.flags \in SUBSET F /\ e.flags \cup l.flags # {}
      BY <1>1, <2>4 DEF OpSet
    <3>2. m \in OpSet(M, F)
      BY <1>3, <2>6, <3>1 DEF OpSet, FlagOp
    <3>3. m.kind = l.kind /\ m.flags = e.flags \cup l.flags
      BY <2>6 DEF FlagOp
    <3> QED
      BY <2>6, <3>1, <3>2, <3>3 DEF SomeOps
  <2>8. ~(m.kind \in MoveKinds)
    BY <2>1, <2>7
  <2>9. CASE e.kind = "SetFlags"
    <3>1. l.kind = "SetFlags" /\ m.kind = "SetFlags" /\ "SetFlags" # "ClearFlags"
      BY <2>6, <2>7, <2>9
    <3>2. y.box = x.box /\ y.flags = x.flags \cup e.flags /\ e.flags \cap x.flags = {}
      BY <1>1, <2>9, PerformedType DEF Effective
    <3>3. z.box = y.box /\ z.flags = y.flags \cup l.flags /\ l.flags \cap y.flags = {}
      BY <1>1, <1>2, <3>1, PerformedType, SMTT(40) DEF Effective
    <3>4. /\ Performed(x, m).box = x.box /\ Performed(x, m).flags = x.flags \cup m.flags
          /\ Performed(x, m) \in States(M, F)
      BY <2>7, <3>1, PerformedType
    <3>5. Effective(x, m)
      BY <2>7, <2>8, <3>1, <3>2, <3>3 DEF Effective
    <3>6. Performed(x, m).flags = z.flags
      BY <2>7, <3>2, <3>3, <3>4
    <3> QED
      BY <1>2, <2>7, <2>8, <3>2, <3>3, <3>4, <3>5, <3>6, SamePlace
  <2>10. CASE e.kind = "ClearFlags"
    <3>1. l.kind = "ClearFlags" /\ m.kind = "ClearFlags" /\ m.kind # "SetFlags"
      BY <2>6, <2>7, <2>10
    <3>2. y.box = x.box /\ y.flags = x.flags \ e.flags /\ e.flags \subseteq x.flags
      BY <1>1, <2>10, PerformedType DEF Effective
    <3>3. z.box = y.box /\ z.flags = y.flags \ l.flags /\ l.flags \subseteq y.flags
      BY <1>1, <1>2, <3>1, PerformedType, SMTT(40) DEF Effective
    <3>4. /\ Performed(x, m).box = x.box /\ Performed(x, m).flags = x.flags \ m.flags
          /\ Performed(x, m) \in States(M, F)
      BY <2>7, <3>1, PerformedType
    <3>5. Effective(x, m)
      BY <2>7, <2>8, <3>1, <3>2, <3>3 DEF Effective
    <3>6. Performed(x, m).flags = z.flags
      BY <2>7, <3>2, <3>3, <3>4
    <3> QED
      BY <1>2, <2>7, <2>8, <3>2, <3>3, <3>4, <3>5, <3>6, SamePlace
  <2> QED
    BY <1>3, <2>9, <2>10 DEF FlagKinds
<1>4. CASE e.kind \in MoveKinds /\ l.kind \in MoveKinds
  <2>1. ~(e.kind \in FlagKinds)
    BY <1>4 DEF FlagKinds, MoveKinds
  <2>2. m = MergeMoves(e, l)
    BY <1>4, <2>1 DEF Merge
  <2>3. e.from \in M /\ e.to \in M /\ l.to \in M /\ l.from \in M
    BY <1>1, <1>4 DEF OpSet, FlagKinds, MoveKinds
  <2>4. y.flags = x.flags /\ y.box = e.to /\ x.box = e.from /\ l.from = e.to
    BY <1>1, <1>4, PerformedType DEF Effective
  <2>5. e.kind = "Move" /\ m = MoveOp(l.kind, e.from, l.to)
    BY <1>4, <2>2, <2>4 DEF MergeMoves, MoveKinds
  <2>6. /\ m \in OpSet(M, F) /\ m.kind = l.kind /\ m.from = e.from /\ m.to = l.to
    BY <1>4, <2>3, <2>5 DEF OpSet, MoveOp
  <2>7. ~(m.kind \in FlagKinds) /\ m.kind # "SetFlags" /\ m.kind # "ClearFlags"
    BY <1>4, <2>6 DEF FlagKinds, MoveKinds
  <2>8. m \in SomeOps(M, F) /\ Effective(x, m)
    BY <2>4, <2>6, <2>7 DEF SomeOps, Effective
  <2>9. z.flags = y.flags /\ z.box = l.to
    BY <1>1, <1>2, <1>4, PerformedType DEF Effective
  <2>10. /\ Performed(x, m).flags = x.flags /\ Performed(x, m).box = l.to
         /\ Performed(x, m) \in States(M, F)
    BY <1>4, <2>4, <2>6, PerformedType
  <2>11. Performed(x, m) = z
    BY <1>2, <2>4, <2>9, <2>10, SamePlace
  <2> QED
    BY <2>4, <2>5, <2>6, <2>8, <2>11
<1>5. CASE ~(e.kind \in FlagKinds /\ l.kind \in FlagKinds) /\ ~(e.kind \in MoveKinds /\ l.kind \in MoveKinds)
  BY <1>1, <1>5 DEF Merge
<1> QED
  BY <1>3, <1>4, <1>5

\* The steps lead from one place of the message to another, each changing
\* what it finds.
Path(B, steps, at, x, M, F) ==
    /\ B \in [0 .. Len(steps) -> States(M, F)]
    /\ B[0] = at
    /\ B[Len(steps)] = x
    /\ \A k \in 1 .. Len(steps) : /\ Effective(B[k - 1], steps[k].op)
                                  /\ B[k] = Performed(B[k - 1], steps[k].op)

\* Where a relocation among the steps comes from: one of the first n rows goes
\* where it goes, and a deletion stands for a row that deletes, out of the
\* same mailbox or out of one a row before it went to.
Arrives(batch, o, h) == batch[h].op.kind \in MoveKinds /\ batch[h].op.to = o.to
Deletes(batch, o, i) ==
    /\ batch[i].op.kind = "Delete" /\ batch[i].op.to = o.to
    /\ \/ batch[i].op.from = o.from
       \/ \E h \in 1 .. i - 1 : batch[h].op.kind \in MoveKinds /\ batch[h].op.to = batch[i].op.from
Grounded(op, batch, n, M, F) ==
    /\ op \in SomeOps(M, F)
    /\ op.kind \in MoveKinds => \E h \in 1 .. n : Arrives(batch, op, h)
    /\ op.kind = "Delete" => \E i \in 1 .. n : Deletes(batch, op, i)
Origins(steps, batch, n, M, F) ==
    \A k \in 1 .. Len(steps) : Grounded(steps[k].op, batch, n, M, F)

\* A message that is deleted comes back, if at all, to where it was deleted,
\* and none of the moves before the deletion had brought it there.
NoDetour(batch) ==
    \A i, j \in 1 .. Len(batch) :
        /\ i < j
        /\ batch[i].op.kind = "Delete"
        /\ batch[j].op.kind \in MoveKinds
        /\ batch[j].op.from = batch[i].op.to
        => /\ batch[j].op.to = batch[i].op.from
           /\ \A h \in 1 .. i - 1 :
                 batch[h].op.kind \in MoveKinds => batch[h].op.to # batch[i].op.from

\* Under NoDetour a deletion is folded into nothing but its own reversal.
LEMMA DeletionComesBack ==
    ASSUME NEW batch, NoDetour(batch), Len(batch) \in Nat,
           NEW n \in 1 .. Len(batch), NEW o, o.kind = "Delete",
           NEW i \in 1 .. n - 1, Deletes(batch, o, i),
           batch[n].op.kind = "Move", batch[n].op.from = o.to
    PROVE  batch[n].op.to = o.from
<1>1. i \in 1 .. Len(batch) /\ n \in 1 .. Len(batch) /\ i < n
  OBVIOUS
<1>2. batch[i].op.kind = "Delete" /\ batch[i].op.to = o.to /\ batch[n].op.kind \in MoveKinds
  BY DEF Deletes, MoveKinds
<1>3. /\ batch[n].op.to = batch[i].op.from
      /\ \A h \in 1 .. i - 1 : batch[h].op.kind \in MoveKinds => batch[h].op.to # batch[i].op.from
  BY <1>1, <1>2 DEF NoDetour
<1>4. batch[i].op.from = o.from
  BY <1>3 DEF Deletes
<1> QED
  BY <1>3, <1>4

LEMMA PushIsExact ==
    ASSUME NEW I, NEW M, NEW F, NEW batch \in Seq(RowSet(I, M, F)), NoDetour(batch),
           NEW n \in 1 .. Len(batch), NEW f \in FoldsOver(I, M, F),
           NEW row, row = batch[n], row.op \in SingleOps(M, F),
           NEW g, g = Push(f, row),
           NEW B, NEW at, NEW x, Path(B, f.steps, at, x, M, F),
           Effective(x, row.op), Origins(f.steps, batch, n - 1, M, F)
    PROVE  /\ \E C : Path(C, g.steps, at, Performed(x, row.op), M, F)
           /\ Origins(g.steps, batch, n, M, F)
<1> DEFINE len == Len(f.steps)
           last == f.steps[len]
           y == Performed(x, row.op)
<1>1. /\ len \in Nat /\ (len # 0 => len \in 1 .. len) /\ len \in 0 .. len
      /\ row \in RowSet(I, M, F) /\ row.op \in OpSet(M, F)
      /\ Len(batch) \in Nat /\ n \in Nat
  <2>1. len \in Nat
    BY DEF FoldsOver
  <2>2. Len(batch) \in Nat /\ n \in Nat /\ row \in RowSet(I, M, F)
    OBVIOUS
  <2>3. row.op \in OpSet(M, F)
    BY DEF SingleOps
  <2> QED
    BY <2>1, <2>2, <2>3
<1>2. \/ PushKeepsApart(f, g, row)
      \/ len # 0 /\ PushCancels(f, g, row, last)
      \/ len # 0 /\ PushMerges(f, g, row, last)
  BY <1>1, PushIs
<1>3. x \in States(M, F) /\ y \in States(M, F)
  BY <1>1, PerformedType DEF Path
<1>4. /\ B \in [0 .. len -> States(M, F)] /\ B[0] = at /\ B[len] = x
      /\ \A k \in 1 .. len : /\ Effective(B[k - 1], f.steps[k].op)
                             /\ B[k] = Performed(B[k - 1], f.steps[k].op)
  BY DEF Path
<1>5. \A k \in 1 .. len : Grounded(f.steps[k].op, batch, n, M, F)
  <2>1. \A h \in 1 .. n - 1 : h \in 1 .. n
    BY <1>1
  <2>2. ASSUME NEW k \in 1 .. len PROVE Grounded(f.steps[k].op, batch, n, M, F)
    <3>1. Grounded(f.steps[k].op, batch, n - 1, M, F)
      BY DEF Origins
    <3> QED
      BY <2>1, <3>1 DEF Grounded
  <2> QED
    BY <2>2
<1>6. Grounded(row.op, batch, n, M, F) /\ (row.op.kind \in MoveKinds => Arrives(batch, row.op, n))
  <2>1. row.op.kind \in FlagKinds => row.op.flags # {}
    BY DEF SingleOps
  <2>2. row.op \in SomeOps(M, F)
    BY <1>1, <2>1 DEF SomeOps
  <2>3. n \in 1 .. n
    BY <1>1
  <2>4. /\ row.op.kind \in MoveKinds => Arrives(batch, row.op, n)
        /\ row.op.kind = "Delete" => Deletes(batch, row.op, n)
    BY <1>1 DEF Arrives, Deletes
  <2> QED
    BY <2>2, <2>3, <2>4 DEF Grounded
<1>7. CASE PushKeepsApart(f, g, row)
  <2> DEFINE C == [k \in 0 .. len + 1 |-> IF k = len + 1 THEN y ELSE B[k]]
  <2>1. /\ Len(g.steps) = len + 1 /\ g.steps[len + 1].op = row.op
        /\ \A k \in 1 .. len : g.steps[k].op = f.steps[k].op
    BY <1>7 DEF PushKeepsApart, Grown, Alone
  <2>2. \A k \in 1 .. len + 1 : k \in 1 .. len \/ k = len + 1
    BY <1>1
  <2>3. n \in 1 .. n
    BY <1>1
  <2>4. Origins(g.steps, batch, n, M, F)
    BY <1>5, <1>6, <2>1, <2>2 DEF Origins
  <2>5. /\ C \in [0 .. len + 1 -> States(M, F)] /\ C[len + 1] = y
        /\ \A k \in 0 .. len : C[k] = B[k]
    BY <1>1, <1>3, <1>4
  <2> HIDE DEF C
  <2>6. C[0] = at /\ C[len] = x
    BY <1>1, <1>4, <2>5
  <2>7. \A k \in 1 .. len + 1 : /\ Effective(C[k - 1], g.steps[k].op)
                                /\ C[k] = Performed(C[k - 1], g.steps[k].op)
    <3> TAKE k \in 1 .. len + 1
    <3>1. CASE k = len + 1
      <4>1. k - 1 = len
        BY <1>1, <3>1
      <4> QED
        BY <2>1, <2>5, <2>6, <3>1, <4>1
    <3>2. CASE k # len + 1
      <4>1. k \in 1 .. len /\ k \in 0 .. len /\ k - 1 \in 0 .. len
        BY <1>1, <3>2
      <4> QED
        BY <1>4, <2>1, <2>5, <4>1
    <3> QED
      BY <3>1, <3>2
  <2>8. Path(C, g.steps, at, y, M, F)
    BY <2>1, <2>5, <2>6, <2>7 DEF Path
  <2> QED
    BY <2>4, <2>8
<1>8. ASSUME len # 0 PROVE /\ last.op \in SomeOps(M, F) /\ B[len - 1] \in States(M, F)
                           /\ Effective(B[len - 1], last.op) /\ x = Performed(B[len - 1], last.op)
                           /\ len - 1 \in 0 .. len /\ len \in 1 .. len
  <2>1. len - 1 \in 0 .. len /\ len \in 1 .. len
    BY <1>1, <1>8
  <2>2. B[len - 1] \in States(M, F)
    BY <1>4, <2>1
  <2>3. last.op \in SomeOps(M, F)
    BY <1>5, <2>1 DEF Grounded
  <2>4. Effective(B[len - 1], last.op) /\ B[len] = Performed(B[len - 1], last.op)
    BY <1>4, <2>1
  <2> QED
    BY <1>4, <2>1, <2>2, <2>3, <2>4
<1>9. CASE len # 0 /\ PushCancels(f, g, row, last)
  <2> DEFINE C == [k \in 0 .. len - 1 |-> B[k]]
  <2>1. /\ Len(g.steps) = len - 1 /\ Merge(last.op, row.op) = Cancelled
        /\ \A k \in 1 .. len - 1 : g.steps[k].op = f.steps[k].op
    BY <1>9 DEF PushCancels, Shrunk
  <2>2. \A k \in 1 .. len - 1 : k \in 1 .. len
    BY <1>1
  <2>3. Origins(g.steps, batch, n, M, F)
    BY <1>5, <2>1, <2>2 DEF Origins
  <2>4. B[len - 1] = y
    BY <1>8, <1>9, <2>1, CancelIsExact
  <2>5. /\ C \in [0 .. len - 1 -> States(M, F)] /\ C[0] = at /\ C[len - 1] = y
    BY <1>1, <1>4, <1>9, <2>4
  <2>6. \A k \in 1 .. len - 1 : C[k] = B[k] /\ C[k - 1] = B[k - 1]
    BY <1>1
  <2> HIDE DEF C
  <2>7. Path(C, g.steps, at, y, M, F)
    BY <1>4, <2>1, <2>2, <2>5, <2>6 DEF Path
  <2> QED
    BY <2>3, <2>7
<1>10. CASE len # 0 /\ PushMerges(f, g, row, last)
  <2> DEFINE C == [k \in 0 .. len |-> IF k = len THEN y ELSE B[k]]
             m == Merge(last.op, row.op)
  <2>1. /\ Len(g.steps) = len /\ m \notin {Separate, Cancelled} /\ g.steps[len].op = m
        /\ \A k \in 1 .. len - 1 : g.steps[k].op = f.steps[k].op
    BY <1>10 DEF PushMerges, Replaced
  <2>2. \A k \in 1 .. len : k \in 1 .. len - 1 \/ k = len
    BY <1>1
  <2>3. last.op.kind = "Delete" /\ row.op.kind = "Move" => row.op.to = last.op.from
    <3> SUFFICES ASSUME last.op.kind = "Delete", row.op.kind = "Move" PROVE row.op.to = last.op.from
      OBVIOUS
    <3>1. PICK i \in 1 .. n - 1 : Deletes(batch, last.op, i)
      <4>1. Grounded(last.op, batch, n - 1, M, F)
        BY <1>8, <1>10 DEF Origins
      <4> QED
        BY <4>1 DEF Grounded
    <3>2. row.op.from = last.op.to
      <4>1. x.box = row.op.from
        BY DEF Effective, MoveKinds
      <4>2. x.box = last.op.to
        BY <1>8, <1>10, PerformedType, SMTT(30) DEF Effective, MoveKinds, SomeOps
      <4> QED
        BY <4>1, <4>2
    <3> QED
      BY <1>1, <3>1, <3>2, DeletionComesBack
  <2>4. /\ m \in SomeOps(M, F)
        /\ Effective(B[len - 1], m)
        /\ Performed(B[len - 1], m) = y
        /\ m.kind \in MoveKinds => /\ last.op.kind = "Move"
                                   /\ m.kind = row.op.kind
                                   /\ m.from = last.op.from
                                   /\ m.to = row.op.to
                                   /\ row.op.from = last.op.to
    BY <1>8, <1>10, <2>1, <2>3, MergeIsExact, SMTT(40)
  <2> HIDE DEF m
  <2>5. m.kind \in MoveKinds => Arrives(batch, m, n)
    BY <1>6, <2>4 DEF Arrives
  <2>6. m.kind = "Delete" => Deletes(batch, m, n)
    <3> SUFFICES ASSUME m.kind = "Delete" PROVE Deletes(batch, m, n)
      OBVIOUS
    <3>1. PICK h \in 1 .. n - 1 : Arrives(batch, last.op, h)
      <4>1. Grounded(last.op, batch, n - 1, M, F)
        BY <1>8, <1>10 DEF Origins
      <4> QED
        BY <2>4, <4>1 DEF Grounded, MoveKinds
    <3> QED
      BY <2>4, <3>1 DEF Deletes, Arrives, MoveKinds
  <2>7. \A k \in 1 .. len - 1 : k \in 1 .. len
    BY <1>1
  <2>8. Grounded(m, batch, n, M, F)
    <3>1. n \in 1 .. n
      BY <1>1
    <3> QED
      BY <2>4, <2>5, <2>6, <3>1 DEF Grounded
  <2>9. Origins(g.steps, batch, n, M, F)
    BY <1>5, <2>1, <2>2, <2>7, <2>8 DEF Origins
  <2>10. /\ C \in [0 .. len -> States(M, F)] /\ C[len] = y
        /\ \A k \in 0 .. len - 1 : C[k] = B[k]
    BY <1>1, <1>3, <1>4
  <2> HIDE DEF C
  <2>11. C[0] = at /\ C[len - 1] = B[len - 1]
    BY <1>1, <1>4, <1>10, <2>10, SMTT(40)
  <2>12. \A k \in 1 .. len : /\ Effective(C[k - 1], g.steps[k].op)
                             /\ C[k] = Performed(C[k - 1], g.steps[k].op)
    <3> TAKE k \in 1 .. len
    <3>1. CASE k = len
      BY <2>1, <2>4, <2>10, <2>11, <3>1
    <3>2. CASE k # len
      <4>1. k \in 1 .. len - 1 /\ k \in 0 .. len - 1 /\ k - 1 \in 0 .. len - 1
        BY <1>1, <3>2
      <4> QED
        BY <1>4, <2>1, <2>10, <4>1
    <3> QED
      BY <3>1, <3>2
  <2>13. Path(C, g.steps, at, y, M, F)
    BY <2>1, <2>10, <2>11, <2>12 DEF Path
  <2> QED
    BY <2>9, <2>13
<1> QED
  BY <1>2, <1>7, <1>9, <1>10

\* Each row changed what it found when it was issued, the message being at
\* first at "at".
IssuedFrom(at, batch, M, F) ==
    \A k \in 1 .. Len(batch) : /\ batch[k].op \in SingleOps(M, F)
                               /\ Effective(Course(at, OpsOf(batch))[k - 1], batch[k].op)

\* A fold asks what its rows ask: the message comes to be where, and with the
\* flags, that the rows one by one would have left it with.  What the code
\* leaves out of this is a deleted message restored to a third mailbox: its
\* one remaining step moves it out of the trash, where it never was.
THEOREM FoldIsExact ==
    ASSUME NEW I, NEW M, NEW F, NEW batch \in Batches(I, M, F), NEW at \in States(M, F),
           IssuedFrom(at, batch, M, F), NoDetour(batch)
    PROVE  Replayed(at, OpsOf(Coalesced(batch).steps)) = Replayed(at, OpsOf(batch))
<1> DEFINE n == Len(batch)
           A == Course(at, OpsOf(batch))
<1>1. n \in Nat /\ batch \in Seq(RowSet(I, M, F))
  BY DEF Batches
<1>2. PICK f : IsFold(f, batch, n) /\ Coalesced(batch) = f[n]
  BY <1>1, CoalescedIs
<1>3. f[0] = EmptyFold /\ \A k \in 1 .. n : f[k] = Push(f[k - 1], batch[k])
  BY <1>1, <1>2 DEF IsFold
<1>4. \A k \in 0 .. n : f[k] \in FoldsOver(I, M, F)
  BY <1>2, FoldSettles
<1>5. /\ A[0] = at
      /\ \A k \in 1 .. n : A[k] = Performed(A[k - 1], batch[k].op)
      /\ Replayed(at, OpsOf(batch)) = A[n]
  BY <1>1, CourseSteps
<1>6. \A k \in 1 .. n : batch[k].op \in SingleOps(M, F) /\ Effective(A[k - 1], batch[k].op)
  BY DEF IssuedFrom
<1> HIDE DEF A
<1> DEFINE S == {k \in 0 .. n : /\ \E B : Path(B, f[k].steps, at, A[k], M, F)
                                /\ Origins(f[k].steps, batch, k, M, F)}
<1>7. 0 \in S
  <2> DEFINE B == [k \in 0 .. 0 |-> at]
  <2>1. f[0].steps = <<>> /\ Len(f[0].steps) = 0
    BY <1>3 DEF EmptyFold
  <2>2. Path(B, f[0].steps, at, A[0], M, F)
    BY <1>5, <2>1 DEF Path
  <2>3. Origins(f[0].steps, batch, 0, M, F)
    BY <2>1 DEF Origins
  <2> QED
    BY <1>1, <2>2, <2>3
<1>8. \A k \in 1 .. n : k - 1 \in S => k \in S
  <2> SUFFICES ASSUME NEW k \in 1 .. n, k - 1 \in S PROVE k \in S
    OBVIOUS
  <2>1. PICK B : Path(B, f[k - 1].steps, at, A[k - 1], M, F)
    OBVIOUS
  <2>2. Origins(f[k - 1].steps, batch, k - 1, M, F) /\ f[k - 1] \in FoldsOver(I, M, F)
    BY <1>4
  <2>3. /\ f[k] = Push(f[k - 1], batch[k]) /\ A[k] = Performed(A[k - 1], batch[k].op)
        /\ batch[k].op \in SingleOps(M, F) /\ Effective(A[k - 1], batch[k].op)
    BY <1>3, <1>5, <1>6
  <2>4. /\ \E C : Path(C, f[k].steps, at, Performed(A[k - 1], batch[k].op), M, F)
        /\ Origins(f[k].steps, batch, k, M, F)
    BY <1>1, <2>1, <2>2, <2>3, PushIsExact, ZenonT(40)
  <2> QED
    BY <2>3, <2>4
<1> HIDE DEF S
<1>9. \A k \in 0 .. n : k \in S
  BY <1>1, <1>7, <1>8, InductionUpTo
<1>10. PICK B : Path(B, f[n].steps, at, A[n], M, F)
  BY <1>1, <1>9 DEF S
<1> DEFINE steps == f[n].steps
           C == Course(at, OpsOf(steps))
<1>11. steps \in Seq(StepSet(I, M, F)) /\ Len(steps) \in Nat
  BY <1>1, <1>4 DEF FoldsOver
<1>12. /\ C[0] = at
       /\ \A k \in 1 .. Len(steps) : C[k] = Performed(C[k - 1], steps[k].op)
       /\ Replayed(at, OpsOf(steps)) = C[Len(steps)]
  BY <1>11, CourseSteps
<1>13. /\ B[0] = at /\ B[Len(steps)] = A[n]
       /\ \A k \in 1 .. Len(steps) : B[k] = Performed(B[k - 1], steps[k].op)
  BY <1>10 DEF Path
<1> HIDE DEF C, steps
<1> DEFINE T == {k \in 0 .. Len(steps) : C[k] = B[k]}
<1>14. 0 \in T
  BY <1>11, <1>12, <1>13
<1>15. \A k \in 1 .. Len(steps) : k - 1 \in T => k \in T
  BY <1>11, <1>12, <1>13
<1> HIDE DEF T
<1>16. \A k \in 0 .. Len(steps) : k \in T
  BY <1>11, <1>14, <1>15, InductionUpTo
<1>17. C[Len(steps)] = B[Len(steps)]
  BY <1>11, <1>16 DEF T
<1>18. Replayed(at, OpsOf(steps)) = Replayed(at, OpsOf(batch))
  BY <1>5, <1>12, <1>13, <1>17
<1> QED
  BY <1>2, <1>18 DEF steps

-----------------------------------------------------------------------------
USE MailboxesAssumption, NumbersAssumption

-----------------------------------------------------------------------------
(* The inductive invariant of types.                                       *)

ServerRows  == [box : Mailboxes, uid : Nat \ {0}, flags : SUBSET Flags]
LocalRows   == {Absent, Deleted} \cup
                 [box : Mailboxes, rid : Rids \cup {NoRid}, flags : SUBSET Flags]
FetchedRows == [msg : Messages, rid : Rids, flags : SUBSET Flags]
PassShapes  == [known : SUBSET Rids, listing : SUBSET FetchedRows,
                stage : {"none", "store", "reconcile"}]
Outcomes    == {"None", "Applied", "Obsolete", "Retry", "Failed"}
Addresses   == [box : Mailboxes, rid : Rids]

\* A UID is below the mailbox's next one, which starts at 2, and no two
\* messages have it.  (That is part of the types because a MOVE adds to UIDNEXT
\* the number of messages it names: a number only if they are finitely many.)
ServerType ==
    /\ server \in [Messages -> ServerRows]
    /\ uidNext \in [Mailboxes -> Nat \ {0, 1}]
    /\ \A m \in Messages : server[m].uid < uidNext[server[m].box]
    /\ \A m, n \in Messages : server[m].box = server[n].box /\ server[m].uid = server[n].uid => m = n

QueueType == queue \in Seq(QueueRow) /\ Len(queue) <= MaxRows

\* A step stands for rows of the message it is for.
StepFits(s, q) == /\ s.rows # {}
                  /\ s.rows \subseteq DOMAIN q
                  /\ s.target \in Rows
                  /\ s.op \in Ops
                  /\ \A i \in s.rows : q[i].target = s.target

PassType ==
    /\ pc \in Phases
    /\ plan \subseteq Steps
    /\ \A s \in plan : StepFits(s, queue)
    /\ folded \subseteq DOMAIN queue
    /\ pc = "idle" => plan = {} /\ folded = {}
    /\ step \in Steps \cup {NoStep}
    /\ pc \in Busy => StepFits(step, queue)
    /\ pc \notin Busy => step = NoStep
    /\ address \in [box : Mailboxes, rid : Rids \cup {NoRid}] \cup {NoAddress}
    /\ pc = "ready" => address \in Addresses
    /\ pc = "adopt" => step.op.kind \in MoveKinds
    /\ outcome \in Outcomes

SyncType == /\ passes \in [Mailboxes -> PassShapes]
            /\ \A b \in Mailboxes : \A c \in passes[b].listing : c.rid.box = b

UserType == /\ faults \in 0 .. MaxFaults
            /\ astray \subseteq Messages
            /\ doubled \subseteq Messages
            /\ wish \in [Messages -> [box : Mailboxes, flags : SUBSET Flags]]

TypeInv == /\ ServerType
           /\ local \in [Rows -> LocalRows]
           /\ QueueType
           /\ PassType
           /\ SyncType
           /\ UserType

LEMMA TypeInvIsStrong == TypeInv => TypeOK
<1> SUFFICES ASSUME TypeInv PROVE TypeOK
  OBVIOUS
<1>1. NoStep.rows = {}
  BY DEF NoStep
<1>2. StepFits(step, queue) => step # NoStep
  BY <1>1 DEF StepFits
<1>3. pc \in Busy <=> step # NoStep
  BY <1>2 DEF TypeInv, PassType
<1>4. \A s \in plan \cup ({step} \ {NoStep}) : s.rows # {}
  BY <1>3 DEF TypeInv, PassType, StepFits
<1>5. \A b \in Mailboxes : passes[b].stage \in {"none", "store", "reconcile"}
  BY DEF TypeInv, SyncType, PassShapes
<1>6. /\ server \in [Messages -> [box : Mailboxes, uid : Nat \ {0}, flags : SUBSET Flags]]
      /\ uidNext \in [Mailboxes -> Nat \ {0}]
  BY DEF TypeInv, ServerType, ServerRows
<1>7. /\ queue \in Seq(QueueRow)
      /\ Len(queue) <= MaxRows
  BY DEF TypeInv, QueueType
<1>8. /\ faults \in 0 .. MaxFaults
      /\ astray \subseteq Messages /\ doubled \subseteq Messages
      /\ wish \in [Messages -> [box : Mailboxes, flags : SUBSET Flags]]
  BY DEF TypeInv, UserType
<1> QED
  BY <1>3, <1>4, <1>5, <1>6, <1>7, <1>8 DEF TypeInv, TypeOK, LocalRows, PassType, Outcomes

LEMMA IdsAre ==
    /\ Rids = [box : Mailboxes, uid : Nat \ {0}]
    /\ NoRid \notin Rids
    /\ \A r \in Rows : MessageOf(r) \in Messages
BY DEF Rids, NoRid, Rows, MessageOf

\* The least of some numbers is one of them.
LEMMA LeastIs ==
    ASSUME NEW S \in SUBSET Nat, S # {}
    PROVE  Least(S) \in S /\ \A j \in S : Least(S) <= j
BY LeastExists DEF Least

LEMMA QueueIs ==
    ASSUME QueueType
    PROVE  /\ DOMAIN queue = 1 .. Len(queue) /\ Len(queue) \in Nat
           /\ DOMAIN queue \subseteq Nat
           /\ IsFiniteSet(DOMAIN queue)
           /\ \A i \in DOMAIN queue : queue[i] \in QueueRow
<1>1. DOMAIN queue = 1 .. Len(queue) /\ Len(queue) \in Nat
  BY DEF QueueType
<1>2. \A i \in DOMAIN queue : queue[i] \in QueueRow
  BY DEF QueueType
<1> QED
  BY <1>1, <1>2, FS_Interval

LEMMA OpsAre == Ops = OpSet(Mailboxes, Flags)
<1>1. \A x \in Ops : x \in OpSet(Mailboxes, Flags)
  BY DEF Ops, OpSet, FlagOp, MoveOp
<1>2. \A x \in OpSet(Mailboxes, Flags) : x \in Ops
  <2> TAKE x \in OpSet(Mailboxes, Flags)
  <2>1. CASE x \in [kind : FlagKinds, from : {"none"}, to : {"none"}, flags : SUBSET Flags]
    <3>1. x = FlagOp(x.kind, x.flags) /\ x.kind \in FlagKinds /\ x.flags \in SUBSET Flags
      BY <2>1 DEF FlagOp
    <3> QED
      BY <3>1 DEF Ops
  <2>2. CASE x \in [kind : MoveKinds, from : Mailboxes, to : Mailboxes, flags : {{}}]
    <3>1. /\ x = MoveOp(x.kind, x.from, x.to) /\ x.kind \in MoveKinds
          /\ x.from \in Mailboxes /\ x.to \in Mailboxes
      BY <2>2 DEF MoveOp
    <3> QED
      BY <3>1 DEF Ops
  <2> QED
    BY <2>1, <2>2 DEF OpSet
<1> QED
  BY <1>1, <1>2

\* What an operation is made of, by its kind.
LEMMA OpIs ==
    ASSUME NEW o \in Ops
    PROVE  /\ o.kind \in FlagKinds \cup MoveKinds
           /\ o.flags \in SUBSET Flags
           /\ o.kind \in MoveKinds => o.from \in Mailboxes /\ o.to \in Mailboxes
           /\ ~(o.kind \in FlagKinds /\ o.kind \in MoveKinds)
BY OpsAre DEF OpSet, FlagKinds, MoveKinds

\* A row with a mailbox is a whole row.
LEMMA PresentRow ==
    ASSUME local \in [Rows -> LocalRows], NEW r \in Rows, Present(r)
    PROVE  local[r] \in [box : Mailboxes, rid : Rids \cup {NoRid}, flags : SUBSET Flags]
BY DEF LocalRows, Present, Absent, Deleted

-----------------------------------------------------------------------------
(* What a pass plans.                                                      *)

\* The due rows of one message, numbered in queue order.
LEMMA MineIs ==
    ASSUME QueueType, NEW mine, mine \subseteq DOMAIN queue
    PROVE  LET pick(k) == CHOOSE i \in mine : Cardinality({j \in mine : j <= i}) = k
           IN  /\ Cardinality(mine) \in Nat
               /\ \A k \in 1 .. Cardinality(mine) :
                     pick(k) \in mine /\ Cardinality({j \in mine : j <= pick(k)}) = k
<1>1. mine \in SUBSET Nat /\ IsFiniteSet(mine)
  BY QueueIs, FS_Subset
<1>2. Cardinality(mine) \in Nat
  BY <1>1, FS_CardinalityType
<1>3. \A k \in 1 .. Cardinality(mine) : \E i \in mine : Cardinality({j \in mine : j <= i}) = k
  BY <1>1, RanksOnto
<1> QED
  BY <1>2, <1>3

LEMMA BatchOfIs ==
    ASSUME QueueType, NEW r \in Rows
    PROVE  /\ BatchOf(r).steps \in Seq(StepSet(DOMAIN queue, Mailboxes, Flags))
           /\ BatchOf(r).obsolete \subseteq DOMAIN queue
           /\ \A k \in 1 .. Len(BatchOf(r).steps) :
                 \A i \in BatchOf(r).steps[k].rows : queue[i].target = r
<1> DEFINE mine == {i \in Due : queue[i].target = r}
           n == Cardinality(mine)
           pick(k) == CHOOSE i \in mine : Cardinality({j \in mine : j <= i}) = k
           batch == [k \in 1 .. n |-> LET i == CHOOSE i \in mine :
                                               Cardinality({j \in mine : j <= i}) = k
                                      IN  [id |-> i, op |-> queue[i].op]]
           I == DOMAIN queue
<1>1. mine \subseteq DOMAIN queue
  BY DEF Due
<1>2. /\ n \in Nat
      /\ \A k \in 1 .. n : pick(k) \in mine /\ Cardinality({j \in mine : j <= pick(k)}) = k
  BY <1>1, MineIs
<1>3. BatchOf(r) = Coalesced(batch)
  BY DEF BatchOf
<1>4. batch = [k \in 1 .. n |-> [id |-> pick(k), op |-> queue[pick(k)].op]]
  OBVIOUS
<1>5. \A i \in mine : queue[i].op \in OpSet(Mailboxes, Flags)
  BY <1>1, QueueIs, OpsAre DEF QueueRow
<1> HIDE DEF batch, pick, mine
<1>6. \A k \in 1 .. n : /\ batch[k].id = pick(k)
                        /\ batch[k] \in RowSet(I, Mailboxes, Flags)
  BY <1>1, <1>2, <1>4, <1>5 DEF RowSet
<1>7. batch \in Seq(RowSet(I, Mailboxes, Flags)) /\ Len(batch) = n
  BY <1>2, <1>4, <1>6
<1>8. \A j, k \in 1 .. n : pick(j) = pick(k) => j = k
  BY <1>2
<1>9. batch \in Batches(I, Mailboxes, Flags)
  BY <1>6, <1>7, <1>8 DEF Batches
<1>10. /\ Coalesced(batch) \in FoldsOver(I, Mailboxes, Flags)
       /\ SettlesJust(Coalesced(batch), Ids(batch, n))
  BY <1>7, <1>9, FoldSettlesEachOnce
<1>11. \A i \in Ids(batch, n) : i \in mine
  BY <1>2, <1>6 DEF Ids
<1>12. \A k \in 1 .. Len(Coalesced(batch).steps) :
          \A i \in Coalesced(batch).steps[k].rows : i \in mine
  BY <1>10, <1>11 DEF SettlesJust, Settles, SettledBy
<1>13. \A i \in mine : queue[i].target = r
  BY DEF mine
<1>14. /\ Coalesced(batch).steps \in Seq(StepSet(DOMAIN queue, Mailboxes, Flags))
       /\ Coalesced(batch).obsolete \subseteq DOMAIN queue
  BY <1>10 DEF FoldsOver
<1> QED
  BY <1>3, <1>12, <1>13, <1>14

\* Each planned step is a step, and its rows are its message's.
LEMMA PlannedStep ==
    ASSUME QueueType, NEW r \in Rows, NEW s \in StepsOf(r)
    PROVE  s \in Steps /\ StepFits(s, queue)
<1> DEFINE q == BatchOf(r).steps
<1>1. /\ q \in Seq(StepSet(DOMAIN queue, Mailboxes, Flags))
      /\ \A k \in 1 .. Len(q) : \A i \in q[k].rows : queue[i].target = r
  BY BatchOfIs
<1> HIDE DEF q
<1>2. PICK k \in 1 .. Len(q) : s = [target |-> r, op |-> q[k].op, rows |-> q[k].rows]
  BY <1>1 DEF StepsOf, Range, q
<1>3. q[k] \in StepSet(DOMAIN queue, Mailboxes, Flags)
  BY <1>1
<1>4. /\ q[k].op \in Ops /\ q[k].rows \in SUBSET (DOMAIN queue) /\ q[k].rows # {}
      /\ \A i \in q[k].rows : queue[i].target = r
  BY <1>1, <1>3, OpsAre DEF StepSet
<1>5. s.target = r /\ s.op = q[k].op /\ s.rows = q[k].rows
  BY <1>2
<1>6. s \in Steps
  BY <1>2, <1>4 DEF Steps
<1> QED
  BY <1>4, <1>5, <1>6 DEF StepFits

-----------------------------------------------------------------------------
(* What a step does to the queue: it adds a row, or marks one.             *)

\* The rows of q are in p, for the same messages and with the same requests.
Keeps(q, p) == /\ DOMAIN q \subseteq DOMAIN p
               /\ \A i \in DOMAIN q : /\ p[i].target = q[i].target
                                      /\ p[i].op = q[i].op
                                      /\ p[i].snapshot = q[i].snapshot

LEMMA KeptStep ==
    ASSUME NEW q, NEW p, Keeps(q, p), NEW s, StepFits(s, q)
    PROVE  StepFits(s, p)
BY DEF Keeps, StepFits

LEMMA KeptSteps ==
    ASSUME Keeps(queue, queue'), NEW s \in Steps
    PROVE  s \in Steps'
BY DEF Keeps, Steps

\* Only the mark of row i changes.
Same(row, x) == x.target = row.target /\ x.op = row.op /\ x.snapshot = row.snapshot

LEMMA MarkedRow ==
    ASSUME QueueType, NEW i \in DOMAIN queue, NEW x \in QueueRow, Same(queue[i], x),
           queue' = [queue EXCEPT ![i] = x]
    PROVE  QueueType' /\ Keeps(queue, queue') /\ DOMAIN queue' = DOMAIN queue
<1>1. queue \in Seq(QueueRow) /\ Len(queue) \in Nat /\ DOMAIN queue = 1 .. Len(queue)
  BY QueueIs DEF QueueType
<1>2. queue' \in Seq(QueueRow) /\ Len(queue') = Len(queue) /\ DOMAIN queue' = DOMAIN queue
  BY <1>1
<1>3. \A j \in DOMAIN queue : queue'[j] = IF j = i THEN x ELSE queue[j]
  BY <1>1
<1>4. Keeps(queue, queue')
  BY <1>2, <1>3 DEF Keeps, Same
<1> QED
  BY <1>2, <1>4 DEF QueueType

WithState(row, state) == [row EXCEPT !.state = state]
MadeDue(row)          == [row EXCEPT !.due = TRUE]

LEMMA RowMarks ==
    ASSUME NEW row \in QueueRow
    PROVE  /\ WithState(row, "done") \in QueueRow /\ Same(row, WithState(row, "done"))
           /\ MadeDue(row) \in QueueRow /\ Same(row, MadeDue(row))
<1>1. WithState(row, "done") \in QueueRow /\ Same(row, WithState(row, "done"))
  BY DEF QueueRow, WithState, Same
<1>2. MadeDue(row) \in QueueRow /\ Same(row, MadeDue(row))
  BY DEF QueueRow, MadeDue, Same
<1> QED
  BY <1>1, <1>2

LEMMA SettledRow ==
    ASSUME NEW row \in QueueRow, outcome \in Outcomes
    PROVE  Settled(row) \in QueueRow /\ Same(row, Settled(row))
<1> DEFINE more == row.attempts + 1
<1>1. more \in Nat /\ row = [row EXCEPT !.due = row.due]
  BY DEF QueueRow
<1> HIDE DEF more
<1>2. /\ [row EXCEPT !.state = "failed", !.attempts = more] \in QueueRow
      /\ Same(row, [row EXCEPT !.state = "failed", !.attempts = more])
  BY <1>1 DEF QueueRow, Same
<1>3. /\ [row EXCEPT !.attempts = more, !.due = FALSE] \in QueueRow
      /\ Same(row, [row EXCEPT !.attempts = more, !.due = FALSE])
  BY <1>1 DEF QueueRow, Same
<1>4. CASE outcome = "Failed"
  <2>1. Settled(row) = [row EXCEPT !.state = "failed", !.attempts = more]
    BY <1>4 DEF Settled, more
  <2> QED
    BY <1>2, <2>1
<1>5. CASE outcome = "Retry"
  <2>1. Settled(row) = [row EXCEPT !.attempts = more, !.due = FALSE]
    BY <1>5 DEF Settled, more
  <2> QED
    BY <1>3, <2>1
<1>6. CASE outcome # "Failed" /\ outcome # "Retry"
  <2>1. Settled(row) = WithState(row, "done")
    BY <1>6 DEF Settled, WithState
  <2> QED
    BY <2>1, RowMarks
<1> QED
  BY <1>4, <1>5, <1>6

\* A new row.
LEMMA EnqueuedRow ==
    ASSUME TypeInv, NEW r \in Rows, NEW op \in Ops, Enqueue(r, op)
    PROVE  /\ QueueType' /\ Keeps(queue, queue')
           /\ DOMAIN queue' = DOMAIN queue \cup {Len(queue) + 1}
           /\ queue'[Len(queue) + 1].target = r
           /\ queue'[Len(queue) + 1].op = op
           /\ queue'[Len(queue) + 1].snapshot = local[r].rid
<1> DEFINE x == [target |-> r, op |-> op, snapshot |-> local[r].rid,
                 state |-> "pending", attempts |-> 0, due |-> TRUE]
<1>1. local[r].rid \in Rids \cup {NoRid}
  BY DEF TypeInv, LocalRows, Absent, Deleted
<1>2. x \in QueueRow /\ x.target = r /\ x.op = op /\ x.snapshot = local[r].rid
  BY <1>1 DEF QueueRow
<1>3. queue' = Append(queue, x) /\ Len(queue) < MaxRows
  BY DEF Enqueue
<1>4. queue \in Seq(QueueRow) /\ Len(queue) \in Nat /\ DOMAIN queue = 1 .. Len(queue)
  BY QueueIs DEF TypeInv, QueueType
<1> HIDE DEF x
<1>5. /\ queue' \in Seq(QueueRow) /\ Len(queue') = Len(queue) + 1
      /\ DOMAIN queue' = 1 .. Len(queue) + 1
      /\ \A j \in 1 .. Len(queue) : queue'[j] = queue[j]
      /\ queue'[Len(queue) + 1] = x
  BY <1>2, <1>3, <1>4
<1>6. QueueType'
  BY <1>3, <1>4, <1>5 DEF QueueType
<1>7. Keeps(queue, queue')
  BY <1>4, <1>5 DEF Keeps
<1> QED
  BY <1>2, <1>4, <1>5, <1>6, <1>7

-----------------------------------------------------------------------------
(* Every action keeps the types.                                           *)

LEMMA PassKept ==
    ASSUME TypeInv, Keeps(queue, queue'), UNCHANGED pass_vars
    PROVE  PassType'
<1>1. /\ UNCHANGED <<pc, plan, folded, step, address, outcome>>
      /\ DOMAIN queue \subseteq DOMAIN queue'
  BY DEF pass_vars, Keeps
<1>2. \A s \in plan : s \in Steps' /\ StepFits(s, queue')
  BY KeptSteps, KeptStep DEF TypeInv, PassType
<1>3. step \in Steps' \cup {NoStep}
  BY KeptSteps DEF TypeInv, PassType
<1>4. pc \in Busy => StepFits(step, queue')
  BY KeptStep DEF TypeInv, PassType
<1>5. /\ (plan \subseteq Steps)' /\ (\A s \in plan : StepFits(s, queue))'
      /\ (folded \subseteq DOMAIN queue)'
      /\ (step \in Steps \cup {NoStep})'
      /\ (pc \in Busy => StepFits(step, queue))'
  BY <1>1, <1>2, <1>3, <1>4 DEF TypeInv, PassType
<1>6. /\ (pc \in Phases)' /\ (pc = "idle" => plan = {} /\ folded = {})'
      /\ (pc \notin Busy => step = NoStep)'
      /\ (address \in [box : Mailboxes, rid : Rids \cup {NoRid}] \cup {NoAddress})'
      /\ (pc = "ready" => address \in Addresses)'
      /\ (pc = "adopt" => step.op.kind \in MoveKinds)'
      /\ (outcome \in Outcomes)'
  BY <1>1 DEF TypeInv, PassType
<1> QED
  BY <1>5, <1>6 DEF PassType

LEMMA SameQueue == Keeps(queue, queue)
BY DEF Keeps

LEMMA QueueKept ==
    ASSUME TypeInv, UNCHANGED queue
    PROVE  QueueType' /\ Keeps(queue, queue')
BY SameQueue DEF TypeInv, QueueType

\* What a part of the state that stays has for a type.
LEMMA ServerKept == ASSUME ServerType, UNCHANGED server_vars PROVE ServerType'
BY DEF ServerType, server_vars
LEMMA SyncKept == ASSUME SyncType, UNCHANGED passes PROVE SyncType'
BY DEF SyncType
LEMMA UserKept ==
    ASSUME UserType, UNCHANGED <<faults, wish, doubled>>, astray' \subseteq Messages
    PROVE  UserType'
BY DEF UserType
LEMMA HistoryKept == ASSUME UserType, UNCHANGED <<faults, history>> PROVE UserType'
BY DEF UserType, history

Whole == [box : Mailboxes, rid : Rids \cup {NoRid}, flags : SUBSET Flags]

LEMMA ChangeFlagType ==
    ASSUME TypeInv, NEW r \in Rows, NEW f \in Flags, ChangeFlag(r, f)
    PROVE  TypeInv'
<1>1. local[r] \in Whole /\ local \in [Rows -> LocalRows] /\ Whole \subseteq LocalRows
  BY PresentRow DEF TypeInv, ChangeFlag, Whole, LocalRows
<1>2. wish \in [Messages -> [box : Mailboxes, flags : SUBSET Flags]] /\ MessageOf(r) \in Messages
  BY IdsAre DEF TypeInv, UserType
<1>3. /\ FlagOp("SetFlags", {f}) \in Ops /\ FlagOp("ClearFlags", {f}) \in Ops
  BY DEF Ops, FlagKinds
<1>4. QueueType' /\ Keeps(queue, queue')
  BY <1>3, EnqueuedRow DEF ChangeFlag
<1>5. \E F \in SUBSET Flags : local' = [local EXCEPT ![r].flags = F]
  <2>1. local[r].flags \in SUBSET Flags
    BY <1>1 DEF Whole
  <2> QED
    BY <2>1 DEF ChangeFlag
<1>6. local' \in [Rows -> LocalRows]
  <2>1. PICK F \in SUBSET Flags : local' = [local EXCEPT ![r].flags = F]
    BY <1>5
  <2>2. [local[r] EXCEPT !.flags = F] \in Whole
    BY <1>1 DEF Whole
  <2> QED
    BY <1>1, <2>1, <2>2
<1>7. wish' \in [Messages -> [box : Mailboxes, flags : SUBSET Flags]]
  <2>1. wish[MessageOf(r)].flags \in SUBSET Flags
    BY <1>2
  <2>2. \E F \in SUBSET Flags : wish' = [wish EXCEPT ![MessageOf(r)].flags = F]
    BY <2>1 DEF ChangeFlag
  <2>3. PICK F \in SUBSET Flags : wish' = [wish EXCEPT ![MessageOf(r)].flags = F]
    BY <2>2
  <2>4. [wish[MessageOf(r)] EXCEPT !.flags = F] \in [box : Mailboxes, flags : SUBSET Flags]
    BY <1>2
  <2> QED
    BY <1>2, <2>3, <2>4
<1>8. UNCHANGED <<server_vars, pass_vars, passes, faults, astray, doubled>>
  BY DEF ChangeFlag
<1>9. PassType'
  BY <1>4, <1>8, PassKept
<1>10. UserType'
  BY <1>7, <1>8 DEF TypeInv, UserType
<1> QED
  BY <1>4, <1>6, <1>8, <1>9, <1>10, ServerKept, SyncKept DEF TypeInv

LEMMA RelocateType ==
    ASSUME TypeInv, NEW r \in Rows, NEW to \in Mailboxes, Relocate(r, to)
    PROVE  TypeInv'
<1>1. local[r] \in Whole /\ local \in [Rows -> LocalRows] /\ Whole \subseteq LocalRows
  BY PresentRow DEF TypeInv, Relocate, Whole, LocalRows
<1>2. wish \in [Messages -> [box : Mailboxes, flags : SUBSET Flags]] /\ MessageOf(r) \in Messages
  BY IdsAre DEF TypeInv, UserType
<1>3. \E kind \in MoveKinds : Enqueue(r, MoveOp(kind, local[r].box, to))
  BY DEF Relocate, MoveKinds
<1>4. \A kind \in MoveKinds : MoveOp(kind, local[r].box, to) \in Ops
  BY <1>1 DEF Ops, Whole
<1>5. QueueType' /\ Keeps(queue, queue')
  BY <1>3, <1>4, EnqueuedRow
<1>6. local' \in [Rows -> LocalRows]
  <2>1. [[local[r] EXCEPT !.box = to] EXCEPT !.rid = NoRid] \in Whole
    BY <1>1 DEF Whole
  <2>2. local' = [local EXCEPT ![r] = [[local[r] EXCEPT !.box = to] EXCEPT !.rid = NoRid]]
    BY <1>1 DEF Relocate
  <2> QED
    BY <1>1, <2>1, <2>2
<1>7. wish' \in [Messages -> [box : Mailboxes, flags : SUBSET Flags]]
  <2>1. [wish[MessageOf(r)] EXCEPT !.box = to] \in [box : Mailboxes, flags : SUBSET Flags]
    BY <1>2
  <2>2. wish' = [wish EXCEPT ![MessageOf(r)] = [wish[MessageOf(r)] EXCEPT !.box = to]]
    BY DEF Relocate
  <2> QED
    BY <1>2, <2>1, <2>2
<1>8. UNCHANGED <<server_vars, pass_vars, passes, faults, astray, doubled>>
  BY DEF Relocate
<1>9. PassType'
  BY <1>5, <1>8, PassKept
<1>10. UserType'
  BY <1>7, <1>8 DEF TypeInv, UserType
<1> QED
  BY <1>5, <1>6, <1>8, <1>9, <1>10, ServerKept, SyncKept DEF TypeInv

LEMMA StartPassType ==
    ASSUME TypeInv, StartPass
    PROVE  TypeInv'
<1>1. \A r \in Rows : \A s \in StepsOf(r) : s \in Steps /\ StepFits(s, queue)
  BY PlannedStep DEF TypeInv
<1>2. \A r \in Rows : BatchOf(r).obsolete \subseteq DOMAIN queue
  BY BatchOfIs DEF TypeInv
<1>3. \A s \in plan' : s \in Steps /\ StepFits(s, queue)
  BY <1>1 DEF StartPass
<1>4. folded' \subseteq DOMAIN queue
  BY <1>2 DEF StartPass
<1>5. /\ pc = "idle" /\ pc' = "fold"
      /\ UNCHANGED <<server_vars, local, queue, step, address, outcome, passes, faults, wish, doubled>>
  BY DEF StartPass
<1>6. astray' \subseteq Messages
  BY IdsAre DEF StartPass, Lost, TypeInv, UserType
<1>7. PassType'
  <2>1. /\ (plan \subseteq Steps)' /\ (\A s \in plan : StepFits(s, queue))'
        /\ (folded \subseteq DOMAIN queue)'
    BY <1>3, <1>4, <1>5 DEF Steps
  <2>2. /\ (step \in Steps \cup {NoStep})' /\ step' = NoStep
    BY <1>5 DEF TypeInv, PassType, Busy
  <2>3. /\ pc' \in Phases /\ pc' # "idle" /\ pc' \notin Busy /\ pc' # "ready" /\ pc' # "adopt"
    BY <1>5 DEF Phases, Busy
  <2>4. /\ address' \in [box : Mailboxes, rid : Rids \cup {NoRid}] \cup {NoAddress}
        /\ outcome' \in Outcomes
    BY <1>5 DEF TypeInv, PassType
  <2> QED
    BY <2>1, <2>2, <2>3, <2>4 DEF PassType
<1> QED
  BY <1>5, <1>6, <1>7, ServerKept, SyncKept, UserKept, QueueKept DEF TypeInv

\* What the end of a pass leaves.
LEMMA StopPassType ==
    ASSUME TypeInv, StopPass, UNCHANGED queue
    PROVE  PassType'
<1>1. /\ pc' = "idle" /\ plan' = {} /\ folded' = {} /\ step' = NoStep
      /\ address' = NoAddress /\ outcome' = "None"
  BY DEF StopPass
<1>2. "idle" \notin Busy /\ "idle" \in Phases
  BY DEF Busy, Phases
<1> QED
  BY <1>1, <1>2 DEF PassType, Outcomes

LEMMA EndPassType ==
    ASSUME TypeInv, EndPass
    PROVE  TypeInv'
BY StopPassType, ServerKept, SyncKept, HistoryKept, QueueKept DEF TypeInv, EndPass

LEMMA InterruptType ==
    ASSUME TypeInv, Interrupt, SyncType'
    PROVE  TypeInv'
<1>1. /\ faults' \in 0 .. MaxFaults
      /\ UNCHANGED <<server_vars, local, queue, wish, doubled>>
      /\ StopPass
  BY DEF Interrupt, TypeInv, UserType
<1>2. folded \cup step.rows \subseteq DOMAIN queue
  BY DEF TypeInv, PassType, Steps, NoStep
<1>3. \A i \in DOMAIN queue : MessageOf(queue[i].target) \in Messages
  BY QueueIs, IdsAre DEF TypeInv, QueueRow
<1>4. astray' \subseteq Messages
  BY <1>2, <1>3 DEF Interrupt, Lost, TypeInv, UserType
<1>5. PassType'
  BY <1>1, StopPassType
<1> QED
  BY <1>1, <1>4, <1>5, ServerKept, QueueKept DEF TypeInv, UserType

LEMMA FaultType ==
    ASSUME TypeInv, PassError \/ Crash
    PROVE  TypeInv'
<1>1. CASE PassError
  <2>1. SyncType'
    BY <1>1, SyncKept DEF PassError, TypeInv
  <2> QED
    BY <1>1, <2>1, InterruptType DEF PassError
<1>2. CASE Crash
  <2>1. NoPass \in PassShapes /\ NoPass.listing = {}
    BY DEF NoPass, PassShapes
  <2>2. passes' = [b \in Mailboxes |-> NoPass]
    BY <1>2 DEF Crash
  <2>3. SyncType'
    BY <2>1, <2>2 DEF SyncType
  <2> QED
    BY <1>2, <2>3, InterruptType DEF Crash
<1> QED
  BY <1>1, <1>2

LEMMA SettleFoldedType ==
    ASSUME TypeInv, SettleFolded
    PROVE  TypeInv' /\ Keeps(queue, queue') /\ DOMAIN queue' = DOMAIN queue
<1>1. UNCHANGED <<server_vars, local, plan, step, address, outcome, passes, faults, history>>
  BY DEF SettleFolded
<1>2. pc = "fold" /\ pc' \in {"fold", "step"} /\ folded' \subseteq folded
  BY DEF SettleFolded
<1>3. QueueType' /\ Keeps(queue, queue') /\ DOMAIN queue' = DOMAIN queue
  <2>1. CASE folded = {}
    BY <2>1, QueueKept DEF SettleFolded
  <2>2. CASE folded # {}
    <3> DEFINE i == Least(folded)
               x == WithState(queue[i], "done")
    <3>1. i \in DOMAIN queue
      BY <2>2, LeastIs, QueueIs DEF TypeInv, PassType
    <3>2. x \in QueueRow /\ Same(queue[i], x)
      BY <3>1, QueueIs, RowMarks DEF TypeInv
    <3>3. queue' = [queue EXCEPT ![i] = x]
      BY <2>2 DEF SettleFolded, WithState
    <3> HIDE DEF i, x
    <3> QED
      BY <3>1, <3>2, <3>3, MarkedRow DEF TypeInv
  <2> QED
    BY <2>1, <2>2
<1>4. /\ \A s \in plan : s \in Steps' /\ StepFits(s, queue')
      /\ DOMAIN queue \subseteq DOMAIN queue'
  BY <1>3, KeptSteps, KeptStep DEF TypeInv, PassType, Keeps
<1>5. step = NoStep
  BY <1>2 DEF TypeInv, PassType, Busy
<1>6. PassType'
  <2>1. /\ (plan \subseteq Steps)' /\ (\A s \in plan : StepFits(s, queue))'
        /\ (folded \subseteq DOMAIN queue)'
    BY <1>1, <1>2, <1>4 DEF TypeInv, PassType
  <2>2. /\ pc' \in Phases /\ pc' # "idle" /\ pc' \notin Busy /\ pc' # "ready" /\ pc' # "adopt"
    BY <1>2 DEF Phases, Busy
  <2>3. /\ address' \in [box : Mailboxes, rid : Rids \cup {NoRid}] \cup {NoAddress}
        /\ outcome' \in Outcomes /\ step' = NoStep
    BY <1>1, <1>5 DEF TypeInv, PassType
  <2> QED
    BY <2>1, <2>2, <2>3 DEF PassType
<1> QED
  BY <1>1, <1>3, <1>6, ServerKept, SyncKept, HistoryKept DEF TypeInv

LEMMA BackoffType ==
    ASSUME TypeInv, NEW i \in DOMAIN queue, BackoffElapses(i)
    PROVE  TypeInv' /\ Keeps(queue, queue') /\ DOMAIN queue' = DOMAIN queue
<1> DEFINE x == MadeDue(queue[i])
<1>1. x \in QueueRow /\ Same(queue[i], x)
  BY QueueIs, RowMarks DEF TypeInv
<1>2. queue' = [queue EXCEPT ![i] = x]
  BY DEF BackoffElapses, MadeDue
<1> HIDE DEF x
<1>3. QueueType' /\ Keeps(queue, queue') /\ DOMAIN queue' = DOMAIN queue
  BY <1>1, <1>2, MarkedRow DEF TypeInv
<1>4. UNCHANGED <<server_vars, local, pass_vars, passes, faults, history>>
  BY DEF BackoffElapses
<1> QED
  BY <1>3, <1>4, PassKept, ServerKept, SyncKept, HistoryKept DEF TypeInv

LEMMA SettleRowType ==
    ASSUME TypeInv, SettleRow
    PROVE  TypeInv' /\ Keeps(queue, queue') /\ DOMAIN queue' = DOMAIN queue
<1> DEFINE i == Least(step.rows)
           x == Settled(queue[i])
<1>1. /\ UNCHANGED <<server_vars, local, plan, folded, passes, faults, history>>
      /\ pc = "settle" /\ pc \in Busy
  BY DEF SettleRow, Busy
<1>2. StepFits(step, queue) /\ step \in Steps
  BY <1>1, IdsAre DEF TypeInv, PassType, StepFits, NoStep
<1>3. i \in step.rows /\ i \in DOMAIN queue
  BY <1>2, LeastIs, QueueIs DEF TypeInv, StepFits
<1>4. x \in QueueRow /\ Same(queue[i], x)
  BY <1>3, QueueIs, SettledRow DEF TypeInv, PassType
<1>5. queue' = [queue EXCEPT ![i] = x]
  BY DEF SettleRow
<1>6. i = Least(step.rows)
  OBVIOUS
<1> HIDE DEF i, x
<1>7. QueueType' /\ Keeps(queue, queue') /\ DOMAIN queue' = DOMAIN queue
  BY <1>3, <1>4, <1>5, MarkedRow DEF TypeInv
<1>8. /\ \A s \in plan : s \in Steps' /\ StepFits(s, queue')
      /\ DOMAIN queue \subseteq DOMAIN queue'
      /\ step \in Steps' /\ StepFits(step, queue')
  BY <1>2, <1>7, KeptSteps, KeptStep DEF TypeInv, PassType, Keeps
<1>9. /\ (plan \subseteq Steps)' /\ (\A s \in plan : StepFits(s, queue))'
      /\ (folded \subseteq DOMAIN queue)'
  BY <1>1, <1>8 DEF TypeInv, PassType
<1>10. PassType'
  <2>1. CASE step.rows = {i}
    <3>1. pc' = "step" /\ step' = NoStep /\ address' = NoAddress /\ outcome' = "None"
      BY <1>6, <2>1 DEF SettleRow
    <3>2. "step" \in Phases /\ "step" \notin Busy
      BY DEF Phases, Busy
    <3> QED
      BY <1>9, <3>1, <3>2 DEF PassType, Outcomes
  <2>2. CASE step.rows # {i}
    <3>1. /\ UNCHANGED <<pc, address, outcome>>
          /\ step' = [step EXCEPT !.rows = step.rows \ {i}]
      BY <1>6, <2>2 DEF SettleRow
    <3>2. step.rows \ {i} # {} /\ step.rows \ {i} \subseteq step.rows
      BY <1>3, <2>2
    <3>3. step' \in Steps /\ step'.rows = step.rows \ {i} /\ step'.target = step.target
          /\ step'.op = step.op
      BY <1>2, <3>1, <3>2 DEF Steps
    <3>4. step' \in Steps' /\ StepFits(step', queue')
      <4>1. DOMAIN queue \subseteq DOMAIN queue'
        BY <1>8
      <4>2. step' \in Steps'
        BY <3>3, <4>1 DEF Steps
      <4>3. StepFits(step', queue')
        BY <1>8, <3>2, <3>3 DEF StepFits
      <4> QED
        BY <4>2, <4>3
    <3>5. /\ pc' = "settle" /\ "settle" \in Phases /\ "settle" \in Busy
          /\ address' \in [box : Mailboxes, rid : Rids \cup {NoRid}] \cup {NoAddress}
          /\ outcome' \in Outcomes
      BY <1>1, <3>1 DEF TypeInv, PassType, Phases, Busy
    <3> QED
      BY <1>9, <3>4, <3>5 DEF PassType
  <2> QED
    BY <2>1, <2>2
<1> QED
  BY <1>1, <1>7, <1>10, ServerKept, SyncKept, HistoryKept DEF TypeInv

\* What leaves the queue alone keeps the steps.
LEMMA StepsKept ==
    ASSUME TypeInv, UNCHANGED <<queue, folded>>, plan' \subseteq plan
    PROVE  /\ (plan \subseteq Steps)' /\ (\A s \in plan : StepFits(s, queue))'
           /\ (folded \subseteq DOMAIN queue)'
           /\ Steps' = Steps
<1>1. Steps' = Steps
  BY DEF Steps
<1> QED
  BY <1>1 DEF TypeInv, PassType

LEMMA NextStepIs ==
    ASSUME TypeInv, plan # {}
    PROVE  NextStep \in plan
<1>1. \A s \in plan : Head0(s) \in s.rows /\ s.rows \subseteq Nat
  <2> TAKE s \in plan
  <2>1. s.rows \in SUBSET Nat /\ s.rows # {}
    BY QueueIs DEF TypeInv, PassType, StepFits
  <2> QED
    BY <2>1, LeastIs DEF Head0
<1> DEFINE H == {Head0(s) : s \in plan}
<1>2. H \in SUBSET Nat /\ H # {}
  BY <1>1
<1>3. PICK h \in H : \A j \in H : h <= j
  BY <1>2, LeastExists
<1>4. \E s \in plan : \A t \in plan : Head0(s) <= Head0(t)
  BY <1>3
<1> QED
  BY <1>4 DEF NextStep

\* The address of a step is one to select and ask for.
LEMMA AddressIs ==
    ASSUME TypeInv, NEW s \in plan, Present(s.target), AddressOf(s).rid # NoRid
    PROVE  /\ AddressOf(s) \in Addresses
           /\ \/ AddressOf(s).rid = local[s.target].rid
              \/ \E i \in DOMAIN queue : /\ queue[i].target = s.target
                                         /\ AddressOf(s).rid = queue[i].snapshot
<1> DEFINE row == local[s.target]
           left == LeavingAfter(s.target, Head0(s))
           h == Head0(s)
<1>1. s.op \in Ops /\ s.target \in Rows /\ s.rows # {} /\ s.rows \subseteq DOMAIN queue
      /\ \A i \in s.rows : queue[i].target = s.target
  BY DEF TypeInv, PassType, StepFits
<1>2. h \in DOMAIN queue /\ queue[h].target = s.target /\ queue[h] \in QueueRow
  <2>1. h \in s.rows
    BY <1>1, LeastIs, QueueIs DEF TypeInv, Head0
  <2> QED
    BY <1>1, <2>1, QueueIs DEF TypeInv
<1>3. row \in Whole
  BY <1>1, PresentRow DEF TypeInv, Whole
<1>4. ASSUME left # {}
      PROVE  LET l == Least(left) IN /\ l \in DOMAIN queue /\ queue[l].target = s.target
                                     /\ queue[l].op.from \in Mailboxes
                                     /\ queue[l].snapshot \in Rids
  <2>1. left \subseteq DOMAIN queue
    BY DEF LeavingAfter, Queued
  <2>2. Least(left) \in left
    BY <1>4, <2>1, LeastIs, QueueIs DEF TypeInv
  <2>3. PICK l \in DOMAIN queue : /\ l = Least(left) /\ queue[l].target = s.target
                                  /\ queue[l].op.kind \in MoveKinds /\ queue[l].snapshot # NoRid
    BY <2>2 DEF LeavingAfter, Queued
  <2>4. queue[l] \in QueueRow
    BY QueueIs DEF TypeInv
  <2>5. queue[l].op \in Ops /\ queue[l].snapshot \in Rids
    BY <2>3, <2>4 DEF QueueRow
  <2> QED
    BY <2>3, <2>5, OpIs
<1> HIDE DEF h
<1>5. CASE s.op.kind \in MoveKinds
  <2>1. s.op.from \in Mailboxes /\ ~(s.op.kind \in FlagKinds)
    BY <1>1, <1>5, OpIs
  <2>2. AddressOf(s) = [box |-> s.op.from,
                        rid |-> IF queue[h].snapshot # NoRid THEN queue[h].snapshot ELSE row.rid]
    BY <1>5, <2>1 DEF AddressOf, h
  <2>3. queue[h].snapshot \in Rids \cup {NoRid} /\ row.rid \in Rids \cup {NoRid}
    BY <1>2, <1>3 DEF QueueRow, Whole
  <2>4. AddressOf(s).rid \in Rids \cup {NoRid} /\ AddressOf(s).box = s.op.from
    BY <2>2, <2>3
  <2>5. AddressOf(s) \in Addresses
    BY <2>1, <2>2, <2>4 DEF Addresses
  <2> QED
    BY <1>2, <2>2, <2>5
<1>6. CASE s.op.kind \in FlagKinds /\ row.rid = NoRid /\ left # {}
  <2>1. ~(s.op.kind \in MoveKinds)
    BY <1>1, <1>6, OpIs
  <2>2. AddressOf(s) = [box |-> queue[Least(left)].op.from, rid |-> queue[Least(left)].snapshot]
    BY <1>6, <2>1 DEF AddressOf, h
  <2> HIDE DEF left
  <2> QED
    BY <1>4, <1>6, <2>2 DEF Addresses
<1>7. CASE ~(s.op.kind \in MoveKinds) /\ ~(s.op.kind \in FlagKinds /\ row.rid = NoRid /\ left # {})
  <2>1. AddressOf(s) = [box |-> row.box, rid |-> row.rid]
    BY <1>7 DEF AddressOf, h
  <2>2. row.box \in Mailboxes /\ row.rid \in Rids
    BY <1>3, <2>1 DEF Whole
  <2> QED
    BY <2>1, <2>2 DEF Addresses
<1> QED
  BY <1>5, <1>6, <1>7

LEMMA DecidedIs ==
    ASSUME NEW s, NEW o \in Outcomes, Decide(s, o)
    PROVE  outcome' \in Outcomes /\ pc' = "settle"
BY DEF Decide, Outcomes

LEMMA ResolveType ==
    ASSUME TypeInv, Resolve
    PROVE  TypeInv'
<1> DEFINE s == NextStep
<1>1. s \in plan
  BY NextStepIs DEF Resolve
<1>2. s \in Steps /\ StepFits(s, queue)
  BY <1>1 DEF TypeInv, PassType
<1>3. /\ plan' \subseteq plan /\ step' = s /\ pc = "step"
      /\ UNCHANGED <<server_vars, local, queue, folded, passes, faults, wish, doubled>>
  BY DEF Resolve
<1>4. astray' \subseteq Messages
  <2>1. MessageOf(s.target) \in Messages
    BY <1>2, IdsAre DEF StepFits
  <2> QED
    BY <2>1 DEF Resolve, Lost, TypeInv, UserType
<1>5. /\ pc' \in {"ready", "settle"} /\ outcome' \in Outcomes
      /\ address' \in [box : Mailboxes, rid : Rids \cup {NoRid}] \cup {NoAddress}
      /\ pc' = "ready" => address' \in Addresses
  <2>1. CASE Present(s.target) /\ AddressOf(s).rid # NoRid
    <3>1. pc' = "ready" /\ address' = AddressOf(s) /\ UNCHANGED outcome
      BY <2>1 DEF Resolve
    <3>2. AddressOf(s) \in Addresses
      BY <1>1, <2>1, AddressIs
    <3>3. Addresses \subseteq [box : Mailboxes, rid : Rids \cup {NoRid}]
      BY DEF Addresses
    <3> QED
      BY <3>1, <3>2, <3>3 DEF TypeInv, PassType
  <2>2. CASE ~(Present(s.target) /\ AddressOf(s).rid # NoRid)
    <3>1. Decide(s, "Obsolete") /\ UNCHANGED address
      BY <2>2 DEF Resolve
    <3>2. outcome' \in Outcomes /\ pc' = "settle"
      BY <3>1, DecidedIs DEF Outcomes
    <3> QED
      BY <3>1, <3>2 DEF TypeInv, PassType
  <2> QED
    BY <2>1, <2>2
<1>6. PassType'
  <2>1. step' \in Steps' /\ StepFits(step', queue')
    BY <1>2, <1>3, StepsKept
  <2>2. pc' \in Phases /\ pc' # "idle" /\ pc' \in Busy /\ pc' # "adopt"
    BY <1>5 DEF Phases, Busy
  <2> QED
    BY <1>3, <1>5, <2>1, <2>2, StepsKept DEF PassType
<1> QED
  BY <1>3, <1>4, <1>6, ServerKept, SyncKept, UserKept, QueueKept DEF TypeInv

-----------------------------------------------------------------------------
(* What the server does with a step.                                       *)

\* The flags an operation leaves are flags.
LEMMA FlagsPerformed ==
    ASSUME NEW o \in Ops, o.kind \in FlagKinds, NEW F \in SUBSET Flags
    PROVE  Performed([flags |-> F], o).flags \in SUBSET Flags
<1>1. o.flags \in SUBSET Flags
  BY OpIs
<1>2. CASE o.kind = "SetFlags"
  <2>1. Performed([flags |-> F], o) = [flags |-> F \cup o.flags]
    BY <1>2 DEF Performed
  <2> QED
    BY <1>1, <2>1
<1>3. CASE o.kind = "ClearFlags"
  <2>1. Performed([flags |-> F], o) = [flags |-> F \ o.flags]
    BY <1>3 DEF Performed
  <2> QED
    BY <1>1, <2>1
<1> QED
  BY <1>2, <1>3 DEF FlagKinds

\* An address names one message at most.
LEMMA NamedIs ==
    ASSUME ServerType
    PROVE  Named \subseteq Messages /\ (Named = {} \/ \E m \in Messages : Named = {m})
BY DEF ServerType, Named

\* The number of messages it names is 0 or 1.
LEMMA NamedCount ==
    ASSUME ServerType
    PROVE  \/ Named = {} /\ Cardinality(Named) = 0
           \/ \E m \in Messages : Named = {m} /\ Cardinality(Named) = 1
<1>1. CASE Named = {}
  BY <1>1, FS_EmptySet
<1>2. CASE Named # {}
  <2>1. PICK m \in Messages : Named = {m}
    BY <1>2, NamedIs
  <2>2. Cardinality({m}) = 1
    BY FS_Singleton
  <2> QED
    BY <2>1, <2>2
<1> QED
  BY <1>1, <1>2

\* Either the messages stay where they are, or the named one is moved, to the
\* destination's next UID.
Stays == /\ UNCHANGED uidNext
         /\ \A m \in Messages : /\ server'[m].box = server[m].box
                                /\ server'[m].uid = server[m].uid
Lands(m, to) == /\ \A n \in Messages : n # m => server'[n] = server[n]
                /\ server'[m].box = to
                /\ server'[m].uid = uidNext[to]
                /\ uidNext' = [uidNext EXCEPT ![to] = uidNext[to] + 1]

LEMMA ServeIs ==
    ASSUME TypeInv, step.op \in Ops, Serve
    PROVE  /\ server' \in [Messages -> ServerRows]
           /\ \A m \in Messages : m \notin Named => server'[m] = server[m]
           /\ \/ Stays /\ (step.op.kind \in MoveKinds => Named = {})
              \/ /\ step.op.kind \in MoveKinds /\ step.op.to \in Mailboxes
                 /\ \E m \in Messages : Named = {m} /\ Lands(m, step.op.to)
<1>1. /\ server \in [Messages -> ServerRows]
      /\ uidNext \in [Mailboxes -> Nat \ {0, 1}]
      /\ ServerType
  BY DEF TypeInv, ServerType
<1>2. CASE step.op.kind \in FlagKinds
  <2> DEFINE new(m) == Performed([flags |-> server[m].flags], step.op).flags
  <2>1. \A m \in Messages : new(m) \in SUBSET Flags
    BY <1>1, <1>2, FlagsPerformed DEF ServerRows
  <2>2. /\ server' = [m \in Messages |-> IF m \in Named THEN [server[m] EXCEPT !.flags = new(m)]
                                         ELSE server[m]]
        /\ UNCHANGED uidNext
    BY <1>2 DEF Serve
  <2> HIDE DEF new
  <2>3. \A m \in Messages : /\ [server[m] EXCEPT !.flags = new(m)] \in ServerRows
                            /\ [server[m] EXCEPT !.flags = new(m)].box = server[m].box
                            /\ [server[m] EXCEPT !.flags = new(m)].uid = server[m].uid
    BY <1>1, <2>1 DEF ServerRows
  <2>4. server' \in [Messages -> ServerRows]
    BY <1>1, <2>2, <2>3
  <2>5. Stays /\ \A m \in Messages : m \notin Named => server'[m] = server[m]
    BY <2>2, <2>3 DEF Stays
  <2>6. ~(step.op.kind \in MoveKinds)
    BY <1>2, OpIs
  <2> QED
    BY <2>4, <2>5, <2>6
<1>3. CASE step.op.kind \in MoveKinds
  <2> DEFINE to == step.op.to
             x(m) == [box |-> to, uid |-> uidNext[to], flags |-> server[m].flags]
  <2>1. ~(step.op.kind \in FlagKinds) /\ to \in Mailboxes
    BY <1>3, OpIs
  <2>2. /\ server' = [m \in Messages |-> IF m \in Named THEN x(m) ELSE server[m]]
        /\ uidNext' = [uidNext EXCEPT ![to] = uidNext[to] + Cardinality(Named)]
    BY <2>1 DEF Serve
  <2>3. \A m \in Messages : x(m) \in ServerRows /\ x(m).box = to /\ x(m).uid = uidNext[to]
    BY <1>1, <2>1 DEF ServerRows
  <2> HIDE DEF x
  <2>4. server' \in [Messages -> ServerRows]
    BY <1>1, <2>2, <2>3
  <2>5. CASE Named = {} /\ Cardinality(Named) = 0
    <3>1. uidNext' = uidNext
      <4>1. uidNext[to] + 0 = uidNext[to]
        BY <1>1, <2>1
      <4> QED
        BY <1>1, <2>1, <2>2, <2>5, <4>1
    <3>2. \A m \in Messages : server'[m] = server[m]
      BY <2>2, <2>5
    <3> QED
      BY <1>3, <2>4, <2>5, <3>1, <3>2 DEF Stays
  <2>6. CASE \E m \in Messages : Named = {m} /\ Cardinality(Named) = 1
    <3>1. PICK m \in Messages : Named = {m} /\ Cardinality(Named) = 1
      BY <2>6
    <3>2. Lands(m, to)
      BY <2>2, <2>3, <3>1 DEF Lands
    <3>3. \A n \in Messages : n \notin Named => server'[n] = server[n]
      BY <2>2
    <3> QED
      BY <1>3, <2>1, <2>4, <3>1, <3>2, <3>3
  <2> QED
    BY <1>1, <2>5, <2>6, NamedCount
<1> QED
  BY <1>2, <1>3, OpIs

LEMMA ServeType ==
    ASSUME TypeInv, step.op \in Ops, Serve
    PROVE  ServerType' /\ \A b \in Mailboxes : uidNext'[b] >= uidNext[b]
<1>1. ServerType
  BY DEF TypeInv
<1>2. CASE Stays
  <2>1. uidNext' = uidNext /\ server' \in [Messages -> ServerRows]
    BY <1>2, ServeIs DEF Stays
  <2>2. \A m \in Messages : server'[m].uid < uidNext'[server'[m].box]
    BY <1>1, <1>2, <2>1 DEF ServerType, Stays
  <2>3. \A m, n \in Messages : server'[m].box = server'[n].box /\ server'[m].uid = server'[n].uid => m = n
    BY <1>1, <1>2 DEF ServerType, Stays
  <2>4. \A b \in Mailboxes : uidNext'[b] >= uidNext[b]
    BY <1>1, <2>1 DEF ServerType
  <2> QED
    BY <1>1, <2>1, <2>2, <2>3, <2>4 DEF ServerType
<1>3. CASE step.op.to \in Mailboxes /\ \E m \in Messages : Lands(m, step.op.to)
  <2>1. PICK m \in Messages : Lands(m, step.op.to)
    BY <1>3
  <2> DEFINE to == step.op.to
  <2>2. /\ to \in Mailboxes
        /\ \A b \in Mailboxes : uidNext'[b] = IF b = to THEN uidNext[to] + 1 ELSE uidNext[b]
        /\ uidNext' \in [Mailboxes -> Nat \ {0, 1}]
    BY <1>1, <1>3, <2>1 DEF ServerType, Lands
  <2>3. \A n \in Messages : n # m => server'[n] = server[n]
    BY <2>1 DEF Lands
  <2>4. server'[m].box = to /\ server'[m].uid = uidNext[to]
    BY <2>1 DEF Lands
  <2>5. \A n \in Messages : /\ server[n].box \in Mailboxes /\ server[n].uid \in Nat
                            /\ server[n].uid < uidNext[server[n].box]
    BY <1>1 DEF ServerType, ServerRows
  <2> HIDE DEF to
  <2>6. \A b \in Mailboxes : uidNext[b] \in Nat
    BY <1>1 DEF ServerType
  <2>7. \A n \in Messages : server'[n].uid < uidNext'[server'[n].box]
    <3> TAKE n \in Messages
    <3>1. CASE n = m
      BY <2>2, <2>4, <2>6, <3>1
    <3>2. CASE n # m
      BY <2>2, <2>3, <2>5, <2>6, <3>2
    <3> QED
      BY <3>1, <3>2
  <2>8. \A n \in Messages : n # m => ~(server'[n].box = to /\ server'[n].uid = uidNext[to])
    BY <2>3, <2>5, <2>6
  <2>9. \A k, n \in Messages : server'[k].box = server'[n].box /\ server'[k].uid = server'[n].uid => k = n
    <3> TAKE k, n \in Messages
    <3>1. CASE k # m /\ n # m
      BY <1>1, <2>3, <3>1 DEF ServerType
    <3>2. CASE k = m \/ n = m
      BY <2>4, <2>8, <3>2
    <3> QED
      BY <3>1, <3>2
  <2>10. \A b \in Mailboxes : uidNext'[b] >= uidNext[b]
    BY <2>2, <2>6
  <2>11. server' \in [Messages -> ServerRows]
    BY ServeIs
  <2> QED
    BY <2>2, <2>7, <2>9, <2>10, <2>11 DEF ServerType
<1> QED
  BY <1>2, <1>3, ServeIs

ServeActions == RefuseStale \/ Store \/ Move \/ Unserved \/ ReplyLost

LEMMA ServeStepType ==
    ASSUME TypeInv, ServeActions
    PROVE  TypeInv'
<1>1. /\ pc = "ready" /\ pc \in Busy
      /\ UNCHANGED <<local, queue, plan, folded, step, address, passes, faults, wish, doubled>>
  BY DEF ServeActions, RefuseStale, Store, Move, Unserved, ReplyLost, Busy
<1>2. StepFits(step, queue) /\ step \in Steps /\ step.op \in Ops /\ step.target \in Rows
  BY <1>1, IdsAre DEF TypeInv, PassType, StepFits, NoStep
<1>3. ServerType'
  <2>1. CASE RefuseStale \/ Unserved
    BY <2>1, ServerKept DEF RefuseStale, Unserved, TypeInv
  <2>2. CASE Store \/ Move \/ ReplyLost
    BY <1>2, <2>2, ServeType DEF Store, Move, ReplyLost
  <2> QED
    BY <2>1, <2>2 DEF ServeActions
<1>4. astray' \subseteq Messages
  <2>1. MessageOf(step.target) \in Messages
    BY <1>2, IdsAre
  <2> QED
    BY <2>1 DEF ServeActions, RefuseStale, Store, Move, Unserved, ReplyLost, Lost, TypeInv, UserType
<1>5. /\ outcome' \in Outcomes
      /\ \/ pc' = "settle"
         \/ pc' = "adopt" /\ step.op.kind \in MoveKinds
  <2>1. CASE RefuseStale
    BY <2>1, DecidedIs DEF RefuseStale, Outcomes
  <2>2. CASE Store
    <3>1. (IF Named = {} THEN "Obsolete" ELSE "Applied") \in Outcomes
      BY DEF Outcomes
    <3> QED
      BY <2>2, <3>1, DecidedIs DEF Store
  <2>3. CASE Move
    BY <2>3, DecidedIs DEF Move, Outcomes
  <2>4. CASE Unserved
    BY <2>4, DecidedIs DEF Unserved, Outcomes
  <2>5. CASE ReplyLost
    BY <2>5, DecidedIs DEF ReplyLost, Outcomes
  <2> QED
    BY <2>1, <2>2, <2>3, <2>4, <2>5 DEF ServeActions
<1>6. PassType'
  <2>1. step' \in Steps' /\ StepFits(step', queue')
    BY <1>1, <1>2, StepsKept
  <2>2. pc' \in Phases /\ pc' # "idle" /\ pc' \in Busy /\ pc' # "ready"
    BY <1>5 DEF Phases, Busy
  <2>3. address' \in [box : Mailboxes, rid : Rids \cup {NoRid}] \cup {NoAddress}
    BY <1>1 DEF TypeInv, PassType
  <2>4. pc' = "adopt" => step'.op.kind \in MoveKinds
    BY <1>1, <1>5
  <2> QED
    BY <1>1, <1>5, <2>1, <2>2, <2>3, <2>4, StepsKept DEF PassType
<1> QED
  BY <1>1, <1>3, <1>4, <1>6, SyncKept, UserKept, QueueKept DEF TypeInv

Landed(to) == [box |-> to, uid |-> uidNext[to] - 1]

LEMMA AdoptType ==
    ASSUME TypeInv, Adopt
    PROVE  TypeInv'
<1> DEFINE r == step.target
           to == step.op.to
<1>1. /\ pc = "adopt" /\ pc \in Busy /\ pc' = "settle"
      /\ UNCHANGED <<server_vars, queue, plan, folded, step, address, outcome, passes,
                     faults, history>>
  BY DEF Adopt, Busy
<1>2. /\ StepFits(step, queue) /\ step \in Steps /\ step.op \in Ops /\ r \in Rows
      /\ to \in Mailboxes
  <2>1. StepFits(step, queue) /\ step \in Steps
    BY <1>1, IdsAre DEF TypeInv, PassType, StepFits, NoStep
  <2>2. step.op.kind \in MoveKinds
    BY <1>1 DEF TypeInv, PassType
  <2> QED
    BY <2>1, <2>2, OpIs DEF StepFits
<1>3. Landed(to) \in Rids
  <2>1. uidNext[to] \in Nat /\ uidNext[to] # 0 /\ uidNext[to] # 1
    BY <1>2 DEF TypeInv, ServerType
  <2>2. uidNext[to] - 1 \in Nat \ {0}
    BY <2>1
  <2> QED
    BY <1>2, <2>2 DEF Rids, Landed
<1>4. local' \in [Rows -> LocalRows]
  <2>1. CASE local[r].box = to /\ local[r].rid = NoRid
    <3>1. local[r] \in Whole /\ Whole \subseteq LocalRows /\ local \in [Rows -> LocalRows]
      BY <1>2, <2>1, PresentRow DEF TypeInv, Present, Whole, LocalRows
    <3>2. [local[r] EXCEPT !.rid = Landed(to)] \in Whole
      BY <1>3, <3>1 DEF Whole
    <3>3. local' = [local EXCEPT ![r] = [local[r] EXCEPT !.rid = Landed(to)]]
      BY <2>1 DEF Adopt, Landed
    <3> QED
      BY <1>2, <3>1, <3>2, <3>3
  <2>2. CASE ~(local[r].box = to /\ local[r].rid = NoRid)
    BY <2>2 DEF Adopt, TypeInv
  <2> QED
    BY <2>1, <2>2
<1>5. PassType'
  <2>1. step' \in Steps' /\ StepFits(step', queue')
    BY <1>1, <1>2, StepsKept
  <2>2. pc' \in Phases /\ pc' # "idle" /\ pc' \in Busy /\ pc' # "ready" /\ pc' # "adopt"
    BY <1>1 DEF Phases, Busy
  <2>3. /\ address' \in [box : Mailboxes, rid : Rids \cup {NoRid}] \cup {NoAddress}
        /\ outcome' \in Outcomes
    BY <1>1 DEF TypeInv, PassType
  <2> QED
    BY <1>1, <2>1, <2>2, <2>3, StepsKept DEF PassType
<1> QED
  BY <1>1, <1>4, <1>5, ServerKept, SyncKept, HistoryKept, QueueKept DEF TypeInv

-----------------------------------------------------------------------------
(* What a sync pass does.                                                  *)

\* The unsettled flag changes of a row, in queue order, make one course of the flags
\* of a fetched copy: what is queued goes on top.
FlagRows(r) == {i \in Queued(r) : queue[i].op.kind \in FlagKinds}
MergesBy(c, p, n, r, F) ==
    /\ n \in Nat /\ n = Cardinality(FlagRows(r))
    /\ \A k \in 1 .. n : p[k] \in FlagRows(r) /\ Cardinality({j \in FlagRows(r) : j <= p[k]}) = k
    /\ c[0] = [flags |-> F]
    /\ \A k \in 1 .. n : c[k] = Performed(c[k - 1], queue[p[k]].op)
    /\ \A k \in 0 .. n : \E G \in SUBSET Flags : c[k] = [flags |-> G]
    /\ Merged(r, F) = c[n].flags

LEMMA MergedRuns ==
    ASSUME QueueType, NEW r, NEW F \in SUBSET Flags
    PROVE  \E c, p, n : MergesBy(c, p, n, r, F)
<1> DEFINE un == {i \in Queued(r) : queue[i].op.kind \in FlagKinds}
           n == Cardinality(un)
           pick(k) == CHOOSE i \in un : Cardinality({j \in un : j <= i}) = k
           p == [k \in 1 .. n |-> pick(k)]
           ops == [k \in 1 .. Cardinality(un) |->
                     queue[CHOOSE i \in un : Cardinality({j \in un : j <= i}) = k].op]
           at == [flags |-> F]
           c == Course(at, ops)
<1>1. Merged(r, F) = Replayed(at, ops).flags
  BY DEF Merged
<1>2. un \subseteq DOMAIN queue
  BY DEF Queued
<1>3. n \in Nat /\ \A k \in 1 .. n : pick(k) \in un /\ Cardinality({j \in un : j <= pick(k)}) = k
  BY <1>2, MineIs
<1>4. \A k \in 1 .. n : p[k] = pick(k)
  OBVIOUS
<1>5. \A k \in 1 .. n : ops[k] = queue[pick(k)].op
  OBVIOUS
<1>6. \A i \in un : queue[i].op \in Ops /\ queue[i].op.kind \in FlagKinds
  BY <1>2, QueueIs DEF QueueRow
<1>7. Len(ops) = n /\ ops = [k \in 1 .. n |-> ops[k]]
  BY <1>3
<1>8. un = FlagRows(r)
  BY DEF FlagRows
<1> HIDE DEF pick, un, ops, p
<1>9. \A k \in 1 .. n : ops[k] = queue[p[k]].op /\ p[k] = pick(k)
  BY <1>4, <1>5
<1>10. \A k \in 1 .. n : ops[k] \in Ops /\ ops[k].kind \in FlagKinds
  BY <1>3, <1>9, <1>6
<1>11. IsCourse(c, at, ops, n)
  BY <1>3, <1>7, CourseIs
<1>12. c[0] = at /\ \A k \in 1 .. n : c[k] = Performed(c[k - 1], ops[k])
  BY <1>3, <1>11, CourseAt
<1>13. Replayed(at, ops) = c[n]
  BY <1>7 DEF Replayed
<1>14. n = Cardinality(FlagRows(r))
  BY <1>8
<1> HIDE DEF c, n
<1> DEFINE S == {k \in 0 .. n : \E G \in SUBSET Flags : c[k] = [flags |-> G]}
<1>15. 0 \in S
  BY <1>3, <1>12
<1>16. \A k \in 1 .. n : k - 1 \in S => k \in S
  <2> SUFFICES ASSUME NEW k \in 1 .. n, k - 1 \in S PROVE k \in S
    OBVIOUS
  <2>1. PICK G \in SUBSET Flags : c[k - 1] = [flags |-> G]
    OBVIOUS
  <2>2. ops[k] \in Ops /\ ops[k].kind \in FlagKinds /\ ops[k].flags \in SUBSET Flags
    BY <1>10, OpIs
  <2>3. CASE ops[k].kind = "SetFlags"
    <3>1. Performed([flags |-> G], ops[k]) = [flags |-> G \cup ops[k].flags]
      BY <2>3 DEF Performed
    <3>2. c[k] = [flags |-> G \cup ops[k].flags]
      BY <1>12, <2>1, <3>1
    <3>3. G \cup ops[k].flags \in SUBSET Flags
      BY <2>2
    <3>4. k \in 0 .. n
      BY <1>3
    <3> QED
      BY <3>2, <3>3, <3>4
  <2>4. CASE ops[k].kind = "ClearFlags"
    <3>1. Performed([flags |-> G], ops[k]) = [flags |-> G \ ops[k].flags]
      BY <2>4 DEF Performed
    <3>2. G \ ops[k].flags \in SUBSET Flags
      OBVIOUS
    <3> QED
      BY <1>3, <1>12, <2>1, <3>1, <3>2
  <2> QED
    BY <2>2, <2>3, <2>4 DEF FlagKinds
<1> HIDE DEF S
<1>17. \A k \in 0 .. n : k \in S
  BY <1>3, <1>15, <1>16, InductionUpTo
<1>18. \A k \in 0 .. n : \E G \in SUBSET Flags : c[k] = [flags |-> G]
  BY <1>17 DEF S
<1>19. \A k \in 1 .. n : p[k] \in FlagRows(r) /\ Cardinality({j \in FlagRows(r) : j <= p[k]}) = k
  BY <1>8, <1>3, <1>9
<1>20. \A k \in 1 .. n : c[k] = Performed(c[k - 1], queue[p[k]].op)
  BY <1>9, <1>12
<1>21. Merged(r, F) = c[n].flags
  BY <1>1, <1>13
<1>22. MergesBy(c, p, n, r, F)
  BY <1>3, <1>14, <1>12, <1>18, <1>19, <1>20, <1>21 DEF MergesBy
<1> QED
  BY <1>22

LEMMA MergedType ==
    ASSUME QueueType, NEW r, NEW F \in SUBSET Flags
    PROVE  Merged(r, F) \in SUBSET Flags
<1>1. PICK c, p, n : MergesBy(c, p, n, r, F)
  BY MergedRuns
<1>2. n \in Nat /\ (\A k \in 0 .. n : \E G \in SUBSET Flags : c[k] = [flags |-> G])
      /\ Merged(r, F) = c[n].flags
  BY <1>1 DEF MergesBy
<1>3. PICK G \in SUBSET Flags : c[n] = [flags |-> G]
  BY <1>2
<1> QED
  BY <1>2, <1>3

LEMMA ListingType ==
    ASSUME TypeInv, NEW b \in Mailboxes
    PROVE  /\ Listing(b) \in SUBSET FetchedRows
           /\ \A c \in Listing(b) : c.rid.box = b /\ c.rid = ServerRid(c.msg)
<1>1. \A m \in Messages : server[m] \in ServerRows
  BY DEF TypeInv, ServerType
<1>2. \A m \in Messages : ServerRid(m) \in Rids /\ ServerRid(m).box = server[m].box
  BY <1>1 DEF ServerRows, ServerRid, Rids
<1>3. \A m \in Messages : [msg |-> m, rid |-> ServerRid(m), flags |-> server[m].flags] \in FetchedRows
  BY <1>1, <1>2 DEF ServerRows, FetchedRows
<1> QED
  BY <1>2, <1>3 DEF Listing

LEMMA SyncFetchType ==
    ASSUME TypeInv, NEW b \in Mailboxes, SyncFetch(b)
    PROVE  TypeInv'
<1>1. Held(b) \subseteq Rids
  <2>1. \A r \in Rows : local[r].rid \in Rids \cup {NoRid}
    BY DEF TypeInv, LocalRows, Absent, Deleted
  <2> QED
    BY <2>1 DEF Held, RowsIn
<1> DEFINE x == [known |-> Held(b), listing |-> Listing(b), stage |-> "store"]
<1>2. x \in PassShapes /\ x.listing = Listing(b)
  BY <1>1, ListingType DEF PassShapes
<1>3. passes' = [passes EXCEPT ![b] = x]
  BY DEF SyncFetch
<1> HIDE DEF x
<1>4. SyncType'
  <2>1. passes' \in [Mailboxes -> PassShapes]
    BY <1>2, <1>3 DEF TypeInv, SyncType
  <2>2. \A d \in Mailboxes : passes'[d] = IF d = b THEN x ELSE passes[d]
    BY <1>3 DEF TypeInv, SyncType
  <2>3. \A d \in Mailboxes : \A c \in passes'[d].listing : c.rid.box = d
    BY <1>2, <2>2, ListingType DEF TypeInv, SyncType
  <2> QED
    BY <2>1, <2>3 DEF SyncType
<1>5. UNCHANGED <<server_vars, local, queue, pass_vars, faults, history>>
  BY DEF SyncFetch
<1> QED
  BY <1>4, <1>5, PassKept, QueueKept, ServerKept, HistoryKept DEF TypeInv

LEMMA SyncStoreType ==
    ASSUME TypeInv, NEW b \in Mailboxes, SyncStore(b)
    PROVE  TypeInv'
<1> DEFINE news == {c \in passes[b].listing : ~Shadowed(c)}
           pick(r) == CHOOSE c \in news : r \in RowFor(c)
           new(r) == [box |-> b, rid |-> pick(r).rid, flags |-> Merged(r, pick(r).flags)]
<1>1. passes \in [Mailboxes -> PassShapes] /\ news \subseteq FetchedRows
  BY DEF TypeInv, SyncType, PassShapes
<1>2. local' = [r \in Rows |-> IF \E c \in news : r \in RowFor(c) THEN new(r) ELSE local[r]]
  BY DEF SyncStore
<1>3. \A r : (\E c \in news : r \in RowFor(c)) => pick(r) \in FetchedRows
  BY <1>1
<1> HIDE DEF pick, news
<1>4. \A r \in Rows : pick(r) \in FetchedRows => new(r) \in LocalRows
  <2> TAKE r \in Rows
  <2> HAVE pick(r) \in FetchedRows
  <2>1. pick(r).rid \in Rids /\ pick(r).flags \in SUBSET Flags
    BY DEF FetchedRows
  <2>2. Merged(r, pick(r).flags) \in SUBSET Flags
    BY <2>1, MergedType DEF TypeInv
  <2> QED
    BY <2>1, <2>2 DEF LocalRows
<1> HIDE DEF new
<1>5. local' \in [Rows -> LocalRows]
  BY <1>2, <1>3, <1>4 DEF TypeInv
<1>6. SyncType'
  <2>1. passes' = [passes EXCEPT ![b] = [passes[b] EXCEPT !.stage = "reconcile"]]
    BY DEF SyncStore
  <2>2. /\ [passes[b] EXCEPT !.stage = "reconcile"] \in PassShapes
        /\ [passes[b] EXCEPT !.stage = "reconcile"].listing = passes[b].listing
    BY <1>1 DEF PassShapes
  <2>3. /\ passes' \in [Mailboxes -> PassShapes]
        /\ \A d \in Mailboxes : passes'[d].listing = passes[d].listing
    BY <1>1, <2>1, <2>2
  <2> QED
    BY <2>3 DEF TypeInv, SyncType
<1>7. UNCHANGED <<server_vars, queue, pass_vars, faults, wish>>
  BY DEF SyncStore
<1>8. astray' \subseteq Messages /\ doubled' \subseteq Messages
  <2>1. \A c \in news : c.msg \in Messages
    BY <1>1 DEF FetchedRows
  <2> QED
    BY <2>1 DEF SyncStore, Lost, TypeInv, UserType, news
<1>9. UserType'
  BY <1>7, <1>8 DEF TypeInv, UserType
<1> QED
  BY <1>5, <1>6, <1>7, <1>9, PassKept, QueueKept, ServerKept DEF TypeInv

LEMMA SyncReconcileType ==
    ASSUME TypeInv, NEW b \in Mailboxes, SyncReconcile(b)
    PROVE  TypeInv' /\ \A r \in Rows : local'[r] \in {Deleted, local[r]}
<1>1. Deleted \in LocalRows
  BY DEF LocalRows
<1>2. \A r \in Rows : local'[r] \in {Deleted, local[r]}
  BY DEF SyncReconcile
<1>3. local' \in [Rows -> LocalRows]
  BY <1>1 DEF SyncReconcile, TypeInv
<1>4. SyncType'
  <2>1. NoPass \in PassShapes /\ NoPass.listing = {}
    BY DEF NoPass, PassShapes
  <2>2. passes' = [passes EXCEPT ![b] = NoPass]
    BY DEF SyncReconcile
  <2>3. \A d \in Mailboxes : passes'[d] = IF d = b THEN NoPass ELSE passes[d]
    BY <2>2 DEF TypeInv, SyncType
  <2> QED
    BY <2>1, <2>2, <2>3 DEF TypeInv, SyncType
<1>5. UNCHANGED <<server_vars, queue, pass_vars, faults, history>>
  BY DEF SyncReconcile
<1> QED
  BY <1>2, <1>3, <1>4, <1>5, PassKept, QueueKept, ServerKept, HistoryKept DEF TypeInv

-----------------------------------------------------------------------------
(* Type correctness.                                                       *)

LEMMA InitType ==
    ASSUME Init
    PROVE  TypeInv
<1>1. PICK home \in Homes :
        /\ server = [m \in Messages |-> [box |-> home[m], uid |-> 1, flags |-> {}]]
        /\ wish = [m \in Messages |-> [box |-> home[m], flags |-> {}]]
  BY DEF Init
<1>2. /\ home \in [Messages -> Mailboxes]
      /\ \A m, n \in Messages : home[m] = home[n] => m = n
  BY DEF Homes
<1>3. uidNext = [b \in Mailboxes |-> 2]
  BY DEF Init
<1>4. /\ server \in [Messages -> ServerRows]
      /\ \A m \in Messages : server[m].box = home[m] /\ server[m].uid = 1
  BY <1>1, <1>2 DEF ServerRows
<1>5. ServerType
  BY <1>2, <1>3, <1>4 DEF ServerType
<1>6. local \in [Rows -> LocalRows]
  <2>1. \A m \in Messages : ServerRid(m) \in Rids /\ server[m].box \in Mailboxes
    BY <1>4 DEF ServerRid, Rids, ServerRows
  <2>2. \A r \in Rows : r[1] \in Messages
    BY DEF Rows
  <2>3. \A r \in Rows : [box |-> server[r[1]].box, rid |-> ServerRid(r[1]), flags |-> {}] \in LocalRows
    BY <2>1, <2>2 DEF LocalRows
  <2>4. Absent \in LocalRows
    BY DEF LocalRows
  <2> QED
    BY <2>3, <2>4 DEF Init
<1>7. QueueType
  BY DEF Init, QueueType
<1>8. PassType
  <2>1. /\ pc = "idle" /\ plan = {} /\ folded = {} /\ step = NoStep /\ address = NoAddress
        /\ outcome = "None"
    BY DEF Init
  <2>2. "idle" \in Phases /\ "idle" \notin Busy
    BY DEF Phases, Busy
  <2> QED
    BY <2>1, <2>2 DEF PassType, Outcomes
<1>9. SyncType
  <2>1. NoPass \in PassShapes /\ NoPass.listing = {}
    BY DEF NoPass, PassShapes
  <2> QED
    BY <2>1 DEF Init, SyncType
<1>10. UserType
  <2>1. \A m \in Messages : [box |-> home[m], flags |-> {}] \in [box : Mailboxes, flags : SUBSET Flags]
    BY <1>2
  <2> QED
    BY <1>1, <2>1 DEF Init, UserType
<1> QED
  BY <1>5, <1>6, <1>7, <1>8, <1>9, <1>10 DEF TypeInv

LEMMA StepType ==
    ASSUME TypeInv, [Next]_vars
    PROVE  TypeInv'
<1>1. ASSUME NEW r \in Rows, UserStep(r) PROVE TypeInv'
  BY <1>1, ChangeFlagType, RelocateType DEF UserStep
<1>2. CASE DrainerStep
  <2>1. CASE ServeStep
    BY <2>1, ServeStepType DEF ServeStep, ServeActions
  <2> QED
    BY <1>2, <2>1, StartPassType, SettleFoldedType, EndPassType, ResolveType, AdoptType,
       SettleRowType DEF DrainerStep
<1>3. ASSUME NEW i \in DOMAIN queue, BackoffElapses(i) PROVE TypeInv'
  BY <1>3, BackoffType
<1>4. ASSUME NEW b \in Mailboxes, SyncStep(b) PROVE TypeInv'
  BY <1>4, SyncFetchType, SyncStoreType, SyncReconcileType DEF SyncStep
<1>5. CASE PassError \/ Crash
  BY <1>5, FaultType
<1>6. CASE UNCHANGED vars
  <2>1. UNCHANGED <<server_vars, local, queue, pass_vars, passes, faults, history>>
    BY <1>6 DEF vars
  <2> QED
    BY <2>1, PassKept, QueueKept, ServerKept, SyncKept, HistoryKept DEF TypeInv
<1> QED
  BY <1>1, <1>2, <1>3, <1>4, <1>5, <1>6 DEF Next

\* Whatever is done locally, folded, sent, lost, adopted or read back, the
\* drainer, the queue and the sync passes stay within their types: a step has
\* rows of its own message left to settle for as long as it is being run, an
\* address that is used is a mailbox and an id, and what a pass plans, folded
\* out of however many rows, is operations on messages again (drain.rs, resync.rs).
THEOREM TypeCorrect == Spec => []TypeOK
<1>1. Init => TypeInv
  BY InitType
<1>2. TypeInv /\ [Next]_vars => TypeInv'
  BY StepType
<1> QED
  BY <1>1, <1>2, TypeInvIsStrong, PTL DEF Spec

-----------------------------------------------------------------------------
(* Whose id it is.                                                         *)

\* An id belongs to message m: its mailbox gave it already, and if it still
\* names a message there, it names m.
BelongsTo(rid, m, srv, nxt) ==
    /\ rid.uid < nxt[rid.box]
    /\ \A n \in Messages : n # m => ~(srv[n].box = rid.box /\ srv[n].uid = rid.uid)
Own(rid, m) == BelongsTo(rid, m, server, uidNext)

\* Wherever an id is kept for a message, it belongs to that message: on a local
\* row, in a queue row's snapshot, in what a sync was told, in the address of
\* the step being run and in the answer to a move.
LocalIds  == \A r \in Rows : local[r].rid # NoRid => Own(local[r].rid, MessageOf(r))
QueueIds  == \A i \in DOMAIN queue :
                queue[i].snapshot # NoRid => Own(queue[i].snapshot, MessageOf(queue[i].target))
FetchIds  == \A b \in Mailboxes : \A c \in passes[b].listing : Own(c.rid, c.msg)
AddressId == pc = "ready" => Own(address.rid, MessageOf(step.target))
LandedId  == pc = "adopt" => Own(Landed(step.op.to), MessageOf(step.target))
IdInv == LocalIds /\ QueueIds /\ FetchIds /\ AddressId /\ LandedId

\* What the server does, if anything, and what that leaves of an id.
ServerMoves == \/ UNCHANGED server_vars
               \/ Serve /\ step.op \in Ops

LEMMA IdsStay ==
    ASSUME TypeInv, ServerMoves,
           NEW rid \in Rids, NEW m \in Messages, BelongsTo(rid, m, server, uidNext)
    PROVE  BelongsTo(rid, m, server', uidNext')
<1>1. CASE UNCHANGED server_vars
  BY <1>1 DEF server_vars
<1>2. CASE Serve /\ step.op \in Ops
  <2>1. rid.box \in Mailboxes /\ rid.uid \in Nat
    BY DEF Rids
  <2>2. uidNext'[rid.box] >= uidNext[rid.box] /\ ServerType'
    BY <1>2, <2>1, ServeType
  <2>3. uidNext[rid.box] \in Nat /\ uidNext'[rid.box] \in Nat
    BY <2>1, <2>2 DEF TypeInv, ServerType
  <2>4. rid.uid < uidNext[rid.box] /\ rid.uid < uidNext'[rid.box]
    BY <2>1, <2>2, <2>3 DEF BelongsTo
  <2>5. \A n \in Messages : n # m => ~(server[n].box = rid.box /\ server[n].uid = rid.uid)
    BY DEF BelongsTo
  <2>6. CASE Stays
    BY <2>4, <2>5, <2>6 DEF Stays, BelongsTo
  <2>7. CASE step.op.to \in Mailboxes /\ \E k \in Messages : Lands(k, step.op.to)
    <3>1. PICK k \in Messages : Lands(k, step.op.to)
      BY <2>7
    <3>2. server'[k].box = step.op.to /\ server'[k].uid = uidNext[step.op.to]
      BY <3>1 DEF Lands
    <3>3. ~(server'[k].box = rid.box /\ server'[k].uid = rid.uid)
      BY <2>1, <2>3, <2>4, <3>2
    <3>4. \A n \in Messages : n # m => ~(server'[n].box = rid.box /\ server'[n].uid = rid.uid)
      BY <2>5, <3>1, <3>3 DEF Lands
    <3> QED
      BY <2>4, <3>4 DEF BelongsTo
  <2> QED
    BY <1>2, <2>6, <2>7, ServeIs
<1> QED
  BY <1>1, <1>2 DEF ServerMoves

\* An address that is not stale names at most the message it is for.
LEMMA NamedIsOwn ==
    ASSUME TypeInv, AddressId, pc = "ready", ~StaleAddress
    PROVE  \A m \in Named : m = MessageOf(step.target)
BY DEF AddressId, Own, BelongsTo, StaleAddress, Named

\* Where the ids of the local rows, of the queue and of the listings come from.
LocalMoves ==
    \A r \in Rows :
        \/ local'[r].rid \in {local[r].rid, NoRid}
        \/ \E b \in Mailboxes : \E c \in passes[b].listing :
              local'[r].rid = c.rid /\ c.msg = MessageOf(r)
        \/ pc = "adopt" /\ r = step.target /\ local'[r].rid = Landed(step.op.to)
QueueMoves ==
    \A i \in DOMAIN queue' :
        \/ /\ i \in DOMAIN queue
           /\ queue'[i].target = queue[i].target
           /\ queue'[i].snapshot = queue[i].snapshot
        \/ \E r \in Rows : queue'[i].target = r /\ queue'[i].snapshot = local[r].rid
FetchMoves ==
    \A b \in Mailboxes : \A c \in passes'[b].listing :
        c \in passes[b].listing \/ c \in Listing(b)

LEMMA ListedIsOwn ==
    ASSUME TypeInv, NEW b \in Mailboxes, NEW c \in Listing(b)
    PROVE  Own(c.rid, c.msg)
<1>1. PICK m \in Messages : /\ c.msg = m /\ c.rid = ServerRid(m)
  BY DEF Listing
<1>2. c.rid.box = server[m].box /\ c.rid.uid = server[m].uid
  BY <1>1 DEF ServerRid
<1> QED
  BY <1>1, <1>2 DEF TypeInv, ServerType, Own, BelongsTo

LEMMA LocalIdsStep ==
    ASSUME TypeInv, TypeInv', IdInv, ServerMoves, LocalMoves,
           pc = "adopt" => step.op.to \in Mailboxes
    PROVE  LocalIds'
<1> SUFFICES ASSUME NEW r \in Rows, local'[r].rid # NoRid
             PROVE  BelongsTo(local'[r].rid, MessageOf(r), server', uidNext')
  BY DEF LocalIds, Own
<1>1. local'[r].rid \in Rids /\ MessageOf(r) \in Messages
  BY IdsAre DEF TypeInv, LocalRows, Absent, Deleted
<1>2. Own(local'[r].rid, MessageOf(r))
  <2>1. CASE local'[r].rid = local[r].rid
    BY <2>1 DEF IdInv, LocalIds
  <2>2. ASSUME NEW b \in Mailboxes, NEW c \in passes[b].listing,
               local'[r].rid = c.rid, c.msg = MessageOf(r)
        PROVE  Own(local'[r].rid, MessageOf(r))
    <3>1. Own(c.rid, c.msg)
      BY DEF IdInv, FetchIds
    <3> QED
      BY <2>2, <3>1
  <2>3. CASE pc = "adopt" /\ r = step.target /\ local'[r].rid = Landed(step.op.to)
    BY <2>3 DEF IdInv, LandedId
  <2> QED
    BY <2>1, <2>2, <2>3 DEF LocalMoves
<1> QED
  BY <1>1, <1>2, IdsStay DEF Own

LEMMA QueueIdsStep ==
    ASSUME TypeInv, TypeInv', IdInv, ServerMoves, QueueMoves
    PROVE  QueueIds'
<1> SUFFICES ASSUME NEW i \in DOMAIN queue', queue'[i].snapshot # NoRid
             PROVE  BelongsTo(queue'[i].snapshot, MessageOf(queue'[i].target), server', uidNext')
  BY DEF QueueIds, Own
<1>1. queue'[i] \in QueueRow
  BY DEF TypeInv, QueueType
<1>2. queue'[i].snapshot \in Rids /\ MessageOf(queue'[i].target) \in Messages
  BY <1>1, IdsAre DEF QueueRow
<1>3. Own(queue'[i].snapshot, MessageOf(queue'[i].target))
  <2>1. CASE /\ i \in DOMAIN queue
             /\ queue'[i].target = queue[i].target
             /\ queue'[i].snapshot = queue[i].snapshot
    BY <2>1 DEF IdInv, QueueIds
  <2>2. CASE \E r \in Rows : queue'[i].target = r /\ queue'[i].snapshot = local[r].rid
    BY <2>2 DEF IdInv, LocalIds
  <2> QED
    BY <2>1, <2>2 DEF QueueMoves
<1> QED
  BY <1>2, <1>3, IdsStay DEF Own

LEMMA FetchIdsStep ==
    ASSUME TypeInv, TypeInv', IdInv, ServerMoves, FetchMoves
    PROVE  FetchIds'
<1> SUFFICES ASSUME NEW b \in Mailboxes, NEW c \in passes'[b].listing
             PROVE  BelongsTo(c.rid, c.msg, server', uidNext')
  BY DEF FetchIds, Own
<1>1. c.rid \in Rids /\ c.msg \in Messages
  <2>1. c \in FetchedRows
    BY DEF TypeInv, SyncType, PassShapes
  <2> QED
    BY <2>1 DEF FetchedRows
<1>2. Own(c.rid, c.msg)
  BY ListedIsOwn DEF IdInv, FetchIds, FetchMoves
<1> QED
  BY <1>1, <1>2, IdsStay DEF Own

\* An action that leaves the server, the drainer's step, the local rows, the
\* queue or the listings alone.
LEMMA LocalAlone == ASSUME UNCHANGED local PROVE LocalMoves
BY DEF LocalMoves
LEMMA QueueAlone ==
    ASSUME Keeps(queue, queue'), DOMAIN queue' = DOMAIN queue
    PROVE  QueueMoves
BY DEF Keeps, QueueMoves
LEMMA QueueSame == ASSUME UNCHANGED queue PROVE QueueMoves
BY DEF QueueMoves
LEMMA FetchAlone == ASSUME UNCHANGED passes PROVE FetchMoves
BY DEF FetchMoves

UserMoves ==
    \/ \E r \in Rows : UserStep(r)
    \/ \E i \in DOMAIN queue : BackoffElapses(i)
    \/ \E b \in Mailboxes : SyncStep(b)
    \/ UNCHANGED vars

\* What happens beside the drainer.
LEMMA BesideTheDrainer ==
    ASSUME TypeInv, UserMoves
    PROVE  UNCHANGED <<server_vars, pass_vars>> /\ LocalMoves /\ QueueMoves /\ FetchMoves
<1>1. ASSUME NEW r \in Rows, NEW f \in Flags, ChangeFlag(r, f)
      PROVE  UNCHANGED <<server_vars, pass_vars>> /\ LocalMoves /\ QueueMoves /\ FetchMoves
  <2>1. UNCHANGED <<server_vars, pass_vars, passes>>
    BY <1>1 DEF ChangeFlag
  <2>2. FlagOp("SetFlags", {f}) \in Ops /\ FlagOp("ClearFlags", {f}) \in Ops
    BY DEF Ops, FlagKinds
  <2>3. \E op \in Ops : Enqueue(r, op)
    BY <1>1, <2>2 DEF ChangeFlag
  <2>4. QueueMoves
    BY <2>3, EnqueuedRow DEF QueueMoves, Keeps
  <2>5. \E F : local' = [local EXCEPT ![r].flags = F]
    BY <1>1 DEF ChangeFlag
  <2>6. \A q \in Rows : local'[q].rid = local[q].rid
    <3>1. PICK F : local' = [local EXCEPT ![r].flags = F]
      BY <2>5
    <3>2. local[r] \in Whole
      BY <1>1, PresentRow DEF ChangeFlag, TypeInv, Whole
    <3>3. [local[r] EXCEPT !.flags = F].rid = local[r].rid
      BY <3>2 DEF Whole
    <3> QED
      BY <3>1, <3>3 DEF TypeInv
  <2> QED
    BY <2>1, <2>4, <2>6, FetchAlone DEF LocalMoves
<1>2. ASSUME NEW r \in Rows, NEW to \in Mailboxes, Relocate(r, to)
      PROVE  UNCHANGED <<server_vars, pass_vars>> /\ LocalMoves /\ QueueMoves /\ FetchMoves
  <2>1. UNCHANGED <<server_vars, pass_vars, passes>>
    BY <1>2 DEF Relocate
  <2>2. local[r] \in Whole
    BY <1>2, PresentRow DEF Relocate, TypeInv, Whole
  <2>3. \E kind \in MoveKinds : Enqueue(r, MoveOp(kind, local[r].box, to))
    BY <1>2 DEF Relocate, MoveKinds
  <2>4. \A kind \in MoveKinds : MoveOp(kind, local[r].box, to) \in Ops
    BY <2>2 DEF Ops, Whole
  <2>5. QueueMoves
    BY <2>3, <2>4, EnqueuedRow DEF QueueMoves, Keeps
  <2>6. [[local[r] EXCEPT !.box = to] EXCEPT !.rid = NoRid].rid = NoRid
    BY <2>2 DEF Whole
  <2>7. local' = [local EXCEPT ![r] = [[local[r] EXCEPT !.box = to] EXCEPT !.rid = NoRid]]
    BY <1>2, <2>2 DEF Relocate
  <2>8. LocalMoves
    BY <2>6, <2>7 DEF LocalMoves, TypeInv
  <2> QED
    BY <2>1, <2>5, <2>8, FetchAlone
<1>3. ASSUME NEW i \in DOMAIN queue, BackoffElapses(i)
      PROVE  UNCHANGED <<server_vars, pass_vars>> /\ LocalMoves /\ QueueMoves /\ FetchMoves
  BY <1>3, BackoffType, LocalAlone, QueueAlone, FetchAlone DEF BackoffElapses
<1>4. ASSUME NEW b \in Mailboxes, SyncFetch(b)
      PROVE  UNCHANGED <<server_vars, pass_vars>> /\ LocalMoves /\ QueueMoves /\ FetchMoves
  <2>1. UNCHANGED <<server_vars, local, queue, pass_vars>>
    BY <1>4 DEF SyncFetch
  <2> DEFINE x == [known |-> Held(b), listing |-> Listing(b), stage |-> "store"]
  <2>2. passes' = [passes EXCEPT ![b] = x] /\ x.listing = Listing(b)
    BY <1>4 DEF SyncFetch
  <2> HIDE DEF x
  <2>3. FetchMoves
    BY <2>2 DEF FetchMoves, TypeInv, SyncType
  <2> QED
    BY <2>1, <2>3, LocalAlone, QueueSame
<1>5. ASSUME NEW b \in Mailboxes, SyncStore(b)
      PROVE  UNCHANGED <<server_vars, pass_vars>> /\ LocalMoves /\ QueueMoves /\ FetchMoves
  <2>1. UNCHANGED <<server_vars, queue, pass_vars>>
    BY <1>5 DEF SyncStore
  <2> DEFINE news == {c \in passes[b].listing : ~Shadowed(c)}
             pick(r) == CHOOSE c \in news : r \in RowFor(c)
             new(r) == [box |-> b, rid |-> pick(r).rid, flags |-> Merged(r, pick(r).flags)]
  <2>2. local' = [r \in Rows |-> IF \E c \in news : r \in RowFor(c) THEN new(r) ELSE local[r]]
    BY <1>5 DEF SyncStore
  <2>3. \A r : (\E c \in news : r \in RowFor(c)) => /\ pick(r) \in passes[b].listing
                                                    /\ r \in RowFor(pick(r))
    OBVIOUS
  <2>4. \A r : new(r).rid = pick(r).rid
    OBVIOUS
  <2>5. \A c, r : r \in RowFor(c) => MessageOf(r) = c.msg
    BY DEF RowFor, MessageOf
  <2> HIDE DEF news, pick, new
  <2>6. LocalMoves
    BY <2>2, <2>3, <2>4, <2>5 DEF LocalMoves
  <2>7. FetchMoves
    <3>1. passes' = [passes EXCEPT ![b] = [passes[b] EXCEPT !.stage = "reconcile"]]
      BY <1>5 DEF SyncStore
    <3>2. passes[b] \in PassShapes
      BY DEF TypeInv, SyncType
    <3>3. [passes[b] EXCEPT !.stage = "reconcile"].listing = passes[b].listing
      BY <3>2 DEF PassShapes
    <3> QED
      BY <3>1, <3>3 DEF FetchMoves, TypeInv, SyncType
  <2> QED
    BY <2>1, <2>6, <2>7, QueueSame
<1>6. ASSUME NEW b \in Mailboxes, SyncReconcile(b)
      PROVE  UNCHANGED <<server_vars, pass_vars>> /\ LocalMoves /\ QueueMoves /\ FetchMoves
  <2>1. UNCHANGED <<server_vars, queue, pass_vars>>
    BY <1>6 DEF SyncReconcile
  <2>2. Deleted.rid = NoRid /\ \A r \in Rows : local'[r] \in {Deleted, local[r]}
    BY <1>6, SyncReconcileType DEF Deleted
  <2>3. LocalMoves
    BY <2>2 DEF LocalMoves
  <2>4. passes' = [passes EXCEPT ![b] = NoPass] /\ NoPass.listing = {}
    BY <1>6 DEF SyncReconcile, NoPass
  <2>5. FetchMoves
    BY <2>4 DEF FetchMoves, TypeInv, SyncType
  <2> QED
    BY <2>1, <2>3, <2>5, QueueSame
<1>7. CASE UNCHANGED vars
  BY <1>7, LocalAlone, QueueSame, FetchAlone DEF vars
<1> QED
  BY <1>1, <1>2, <1>3, <1>4, <1>5, <1>6, <1>7 DEF UserMoves, UserStep, SyncStep

\* The drainer's actions, but for what the server does.
DrainMoves == \/ StartPass \/ SettleFolded \/ EndPass \/ Resolve \/ Adopt \/ SettleRow
              \/ PassError \/ Crash

LEMMA BesideTheServer ==
    ASSUME TypeInv, DrainMoves
    PROVE  /\ UNCHANGED server_vars /\ LocalMoves /\ QueueMoves /\ FetchMoves
           /\ pc' # "adopt"
           /\ pc' = "ready" => Resolve
<1>1. CASE StartPass
  BY <1>1, LocalAlone, QueueSame, FetchAlone DEF StartPass
<1>2. CASE SettleFolded
  <2>1. pc' # "adopt" /\ pc' # "ready"
    BY <1>2 DEF SettleFolded
  <2> QED
    BY <1>2, <2>1, SettleFoldedType, LocalAlone, QueueAlone, FetchAlone DEF SettleFolded
<1>3. CASE EndPass
  BY <1>3, LocalAlone, QueueSame, FetchAlone DEF EndPass, StopPass
<1>4. CASE Resolve
  <2>1. pc' # "adopt"
    BY <1>4 DEF Resolve, Decide
  <2> QED
    BY <1>4, <2>1, LocalAlone, QueueSame, FetchAlone DEF Resolve
<1>5. CASE Adopt
  <2>1. /\ UNCHANGED <<server_vars, queue, passes>> /\ pc = "adopt" /\ pc' = "settle"
    BY <1>5 DEF Adopt
  <2>2. LocalMoves
    <3> DEFINE r == step.target
               to == step.op.to
    <3>1. CASE local[r].box = to /\ local[r].rid = NoRid
      <4>1. r \in Rows /\ step.op \in Ops /\ step.op.kind \in MoveKinds
        BY <2>1 DEF TypeInv, PassType, StepFits, Busy
      <4>2. to \in Mailboxes
        BY <4>1, OpIs
      <4>3. local[r] \in Whole
        BY <3>1, <4>1, <4>2, PresentRow DEF TypeInv, Present, Whole
      <4>4. [local[r] EXCEPT !.rid = Landed(to)].rid = Landed(to)
        BY <4>3 DEF Whole
      <4>5. local' = [local EXCEPT ![r] = [local[r] EXCEPT !.rid = Landed(to)]]
        BY <1>5, <3>1 DEF Adopt, Landed
      <4> QED
        BY <2>1, <4>1, <4>4, <4>5 DEF LocalMoves, TypeInv
    <3>2. CASE ~(local[r].box = to /\ local[r].rid = NoRid)
      BY <1>5, <3>2, LocalAlone DEF Adopt
    <3> QED
      BY <3>1, <3>2
  <2> QED
    BY <2>1, <2>2, QueueSame, FetchAlone
<1>6. CASE SettleRow
  <2>1. pc' # "adopt" /\ pc' # "ready"
    BY <1>6 DEF SettleRow
  <2> QED
    BY <1>6, <2>1, SettleRowType, LocalAlone, QueueAlone, FetchAlone DEF SettleRow
<1>7. CASE PassError
  BY <1>7, LocalAlone, QueueSame, FetchAlone DEF PassError, Interrupt, StopPass
<1>8. CASE Crash
  <2>1. passes' = [b \in Mailboxes |-> NoPass] /\ NoPass.listing = {}
    BY <1>8 DEF Crash, NoPass
  <2>2. FetchMoves
    BY <2>1 DEF FetchMoves
  <2> QED
    BY <1>8, <2>2, LocalAlone, QueueSame DEF Crash, Interrupt, StopPass
<1> QED
  BY <1>1, <1>2, <1>3, <1>4, <1>5, <1>6, <1>7, <1>8 DEF DrainMoves

LEMMA ServesIt ==
    ASSUME TypeInv, ServeActions
    PROVE  /\ ServerMoves /\ LocalMoves /\ QueueMoves /\ FetchMoves
           /\ pc = "ready" /\ step.op \in Ops /\ UNCHANGED step
           /\ pc' # "ready"
           /\ pc' = "adopt" => Move /\ Named # {}
           /\ ~UNCHANGED server_vars => ~StaleAddress /\ Serve
<1>1. pc = "ready" /\ step.op \in Ops /\ UNCHANGED <<step, local, queue, passes>>
  BY DEF ServeActions, RefuseStale, Store, Move, Unserved, ReplyLost, TypeInv, PassType,
         StepFits, Busy
<1>2. LocalMoves /\ QueueMoves /\ FetchMoves
  BY <1>1, LocalAlone, QueueSame, FetchAlone
<1>3. ServerMoves /\ (~UNCHANGED server_vars => ~StaleAddress /\ Serve)
  BY <1>1 DEF ServeActions, RefuseStale, Store, Move, Unserved, ReplyLost, ServerMoves
<1>4. pc' # "ready" /\ (pc' = "adopt" => Move /\ Named # {})
  BY DEF ServeActions, RefuseStale, Store, Move, Unserved, ReplyLost, Decide
<1> QED
  BY <1>1, <1>2, <1>3, <1>4

\* The id a move is answered with names the message that was moved.
LEMMA LandedIsOwn ==
    ASSUME TypeInv, TypeInv', IdInv, pc = "ready", Move, Named # {}
    PROVE  BelongsTo([box |-> step.op.to, uid |-> uidNext'[step.op.to] - 1],
                     MessageOf(step.target), server', uidNext')
<1> DEFINE to == step.op.to
<1>1. step.op \in Ops /\ Serve /\ ~StaleAddress /\ step.op.kind \in MoveKinds
  BY DEF Move, TypeInv, PassType, StepFits, Busy
<1>2. PICK m \in Messages : Named = {m} /\ Lands(m, to) /\ to \in Mailboxes
  BY <1>1, ServeIs
<1>3. m = MessageOf(step.target)
  BY <1>1, <1>2, NamedIsOwn DEF IdInv
<1>4. uidNext[to] \in Nat /\ uidNext'[to] = uidNext[to] + 1
  BY <1>2 DEF Lands, TypeInv, ServerType
<1>5. uidNext'[to] - 1 = uidNext[to] /\ uidNext[to] < uidNext'[to]
  BY <1>4
<1>6. \A n \in Messages : n # m => ~(server'[n].box = to /\ server'[n].uid = uidNext[to])
  <2> TAKE n \in Messages
  <2> HAVE n # m
  <2>1. server'[n] = server[n] /\ server[n].uid \in Nat /\ server[n].uid < uidNext[server[n].box]
    BY <1>2 DEF Lands, TypeInv, ServerType, ServerRows
  <2> QED
    BY <1>4, <2>1
<1> DEFINE x == [box |-> to, uid |-> uidNext'[to] - 1]
<1>7. x.box = to /\ x.uid = uidNext[to]
  BY <1>5
<1> HIDE DEF x
<1>8. BelongsTo(x, m, server', uidNext')
  BY <1>5, <1>6, <1>7 DEF BelongsTo
<1> QED
  BY <1>3, <1>8 DEF x

LEMMA IdStep ==
    ASSUME TypeInv, TypeInv', IdInv, [Next]_vars
    PROVE  IdInv'
<1>1. UserMoves \/ DrainMoves \/ ServeActions
  BY DEF Next, UserMoves, DrainMoves, ServeActions, DrainerStep, ServeStep
<1>2. ServerMoves /\ LocalMoves /\ QueueMoves /\ FetchMoves
  BY <1>1, BesideTheDrainer, BesideTheServer, ServesIt DEF ServerMoves
<1>3. pc = "adopt" => step.op.to \in Mailboxes
  BY OpIs DEF TypeInv, PassType, StepFits, Busy
<1>4. LocalIds' /\ QueueIds' /\ FetchIds'
  BY <1>2, <1>3, LocalIdsStep, QueueIdsStep, FetchIdsStep
<1>5. AddressId'
  <2>1. CASE UserMoves
    BY <2>1, BesideTheDrainer DEF AddressId, IdInv, Own, pass_vars, server_vars
  <2>2. CASE ServeActions
    BY <2>2, ServesIt DEF AddressId
  <2>3. CASE DrainMoves
    <3> SUFFICES ASSUME pc' = "ready"
                 PROVE  BelongsTo(address'.rid, MessageOf(step'.target), server', uidNext')
      BY DEF AddressId, Own
    <3> DEFINE s == NextStep
    <3>1. Resolve /\ UNCHANGED server_vars
      BY <2>3, BesideTheServer
    <3>2. /\ s \in plan /\ step' = s
          /\ Present(s.target) /\ AddressOf(s).rid # NoRid /\ address' = AddressOf(s)
      BY <3>1, NextStepIs DEF Resolve, Decide
    <3>3. s.target \in Rows
      BY <3>2 DEF TypeInv, PassType, StepFits
    <3>4. Own(AddressOf(s).rid, MessageOf(s.target))
      BY <3>2, <3>3, AddressIs DEF IdInv, LocalIds, QueueIds
    <3> QED
      BY <3>1, <3>2, <3>4 DEF Own, server_vars
  <2> QED
    BY <1>1, <2>1, <2>2, <2>3
<1>6. LandedId'
  <2>1. CASE UserMoves
    BY <2>1, BesideTheDrainer DEF LandedId, Landed, IdInv, Own, pass_vars, server_vars
  <2>2. CASE DrainMoves
    BY <2>2, BesideTheServer DEF LandedId
  <2>3. CASE ServeActions
    BY <2>3, ServesIt, LandedIsOwn DEF LandedId, Landed, Own
  <2> QED
    BY <1>1, <2>1, <2>2, <2>3
<1> QED
  BY <1>4, <1>5, <1>6 DEF IdInv

LEMMA InitIds ==
    ASSUME Init
    PROVE  IdInv
<1>1. TypeInv
  BY InitType
<1>2. \A r \in Rows : local[r].rid # NoRid => /\ local[r].rid = ServerRid(MessageOf(r))
                                              /\ MessageOf(r) \in Messages
  BY IdsAre DEF Init, MessageOf, Absent
<1>3. \A m \in Messages : Own(ServerRid(m), m)
  <2> TAKE m \in Messages
  <2>1. ServerRid(m).box = server[m].box /\ ServerRid(m).uid = server[m].uid
    BY DEF ServerRid
  <2> QED
    BY <1>1, <2>1 DEF TypeInv, ServerType, Own, BelongsTo
<1>4. LocalIds
  BY <1>2, <1>3 DEF LocalIds
<1>5. QueueIds
  BY DEF Init, QueueIds
<1>6. FetchIds
  BY DEF Init, FetchIds, NoPass
<1>7. AddressId /\ LandedId
  BY DEF Init, AddressId, LandedId
<1> QED
  BY <1>4, <1>5, <1>6, <1>7 DEF IdInv

\* No step of the queue changes, on the server, a message other than its own:
\* the id it acts on came from a row, a snapshot or an answer that was about
\* this message, a mailbox never gives a UID twice, and wire_set (drain.rs)
\* refuses an id whose generation is not the selected mailbox's.
THEOREM OnlyItsMessage == Spec => TouchesItsMessage
<1> DEFINE Touch == \A m \in Messages : server'[m] # server[m] => m = MessageOf(step.target)
<1>1. Init => TypeInv /\ IdInv
  BY InitType, InitIds
<1>2. TypeInv /\ IdInv /\ [Next]_vars => TypeInv' /\ IdInv'
  BY StepType, IdStep
<1>3. TypeInv /\ IdInv /\ [Next]_vars => [Touch]_vars
  <2> SUFFICES ASSUME TypeInv, IdInv, [Next]_vars, NEW m \in Messages, server'[m] # server[m]
               PROVE  m = MessageOf(step.target)
    OBVIOUS
  <2>1. ~UNCHANGED server_vars
    BY DEF server_vars
  <2>2. UserMoves \/ DrainMoves \/ ServeActions
    BY DEF Next, UserMoves, DrainMoves, ServeActions, DrainerStep, ServeStep
  <2>3. ServeActions
    BY <2>1, <2>2, BesideTheDrainer, BesideTheServer
  <2>4. pc = "ready" /\ step.op \in Ops /\ ~StaleAddress /\ Serve
    BY <2>1, <2>3, ServesIt
  <2>5. m \in Named
    BY <2>4, ServeIs
  <2> QED
    BY <2>4, <2>5, NamedIsOwn DEF IdInv
<1> QED
  BY <1>1, <1>2, <1>3, PTL DEF Spec, TouchesItsMessage

-----------------------------------------------------------------------------
(* What the row shows while changes wait: the invariant.                   *)

Deferred(i) == queue[i].attempts > 0

\* Requests that can share a step: settings, clearings, and moves.
ClassOf(op) == IF op.kind \in MoveKinds THEN "Moves" ELSE op.kind
Class(i)    == ClassOf(queue[i].op)

\* Of the rows q: those in S of one kind or of both, in queue order.
Touches(q, i, f)      == q[i].op.kind \in FlagKinds /\ f \in q[i].op.flags
LastBefore(S, i, j)   == i \in S /\ i < j /\ \A k \in S : ~(i < k /\ k < j)
Alternating(S, q)     == \A i, j \in S : LastBefore(S, i, j) => q[i].op.kind # q[j].op.kind

\* With the rows of S standing and those of O cancelled out: j is the last that
\* cancelled before the next that stands, and all that cancelled between two that
\* stand come to the first of the two.
EndsRun(S, O, j)      == \A k \in O : k > j => \E l \in S : j < l /\ l < k
ComesTo(S, O, q)      == \A j \in O : \A i \in S :
    LastBefore(S, i, j) /\ EndsRun(S, O, j) => q[i].op.kind = q[j].op.kind

\* The changes C of a flag, of which those in O cancel out.
Balanced(C, O, q)     == Alternating(C \ O, q) /\ ComesTo(C \ O, C \cap O, q)

\* The unsettled changes of a flag.
Changers(r, f) == {i \in Queued(r) : Touches(queue, i, f)}

OneFlagEach == \A i \in DOMAIN queue :
    queue[i].op.kind \in FlagKinds => \E f \in Flags : queue[i].op.flags = {f}
NotDueIsDeferred == \A i \in DOMAIN queue : Pending(i) /\ ~queue[i].due => Deferred(i)

\* A planned step has unsettled rows of one class, its own; a row between them that
\* is not its own has been deferred.
StepKeeps(s) ==
    /\ s.rows \subseteq Queued(s.target) \ folded
    /\ \A i, j \in s.rows : Class(i) = Class(j)
    /\ \A h, j \in s.rows : \A i \in Queued(s.target) \ (s.rows \cup folded) :
          h < i /\ i < j => Deferred(i)
PlanFits ==
    /\ pc # "fold" => folded = {}
    /\ \A i \in folded : Pending(i)
    /\ \A s \in plan : StepKeeps(s)
    /\ \A s, t \in plan : s # t => s.rows \cap t.rows = {}
    /\ pc \in Busy => \A s \in plan : s.rows \cap step.rows = {}

\* The deferred rows of a message are its first ones, and of one class.
DeferredFirst(r) == \A i, j \in Queued(r) : Deferred(j) =>
    /\ i < j => Deferred(i)
    /\ Deferred(i) => Class(i) = Class(j)

\* The step being run is of that class, and what comes before its rows is deferred.
RunsFirst(r) ==
    /\ step.rows \subseteq Queued(r)
    /\ \A j \in step.rows : \A i \in Queued(r) \ step.rows : i < j => Deferred(i)
    /\ \A j \in step.rows : \A i \in Queued(r) :
          i \in step.rows \/ Deferred(i) => Class(i) = Class(j)

\* The last of the changes shows.
IsLast(C, i) == i \in C /\ \A j \in C : ~(i < j)
Shows(r, f) == Present(r) => \A i \in Changers(r, f) :
    IsLast(Changers(r, f), i) => (f \in local[r].flags <=> queue[i].op.kind = "SetFlags")

FlagFits(r, f) == Balanced(Changers(r, f), folded, queue) /\ Shows(r, f)
RowFits(r) == /\ DeferredFirst(r)
              /\ pc \in Busy /\ step.target = r => RunsFirst(r)
              /\ \A f \in Flags : FlagFits(r, f)
RowsFit == \A r \in Rows : MessageOf(r) \notin astray => RowFits(r)

ShowInv == OneFlagEach /\ NotDueIsDeferred /\ PlanFits /\ RowsFit
(* What a fold does to the changes of one flag.                            *)

\* The rows of a step ask for what it does: settings or clearings of its flags, or moves.
StepRuns(s, q) == \A x \in s.rows :
    /\ s.op.kind \in FlagKinds => /\ q[x].op.kind = s.op.kind
                                  /\ q[x].op.flags # {}
                                  /\ q[x].op.flags \subseteq s.op.flags
    /\ s.op.kind \in MoveKinds => q[x].op.kind \in MoveKinds
InOrder(steps) == \A j, k \in 1 .. Len(steps) : j < k =>
    \A x \in steps[j].rows, y \in steps[k].rows : x < y
FoldRuns(fold, q) == /\ InOrder(fold.steps)
                      /\ \A k \in 1 .. Len(fold.steps) : StepRuns(fold.steps[k], q)

LEMMA KindsApart == FlagKinds \cap MoveKinds = {}
BY DEF FlagKinds, MoveKinds

LEMMA MergeCancels ==
    ASSUME NEW I, NEW M, NEW F, NEW last \in StepSet(I, M, F), NEW row \in RowSet(I, M, F),
           NEW q, StepRuns(last, q), row.op \in SingleOps(M, F),
           Merge(last.op, row.op) = Cancelled
    PROVE  \/ last.op.kind \in MoveKinds /\ row.op.kind \in MoveKinds
           \/ /\ last.op.kind \in FlagKinds /\ row.op.kind \in FlagKinds
              /\ last.op.kind # row.op.kind /\ last.op.flags = row.op.flags
<1> DEFINE e == last.op
           l == row.op
<1>1. last.rows # {} /\ (l.kind \in FlagKinds => \E y : l.flags = {y})
  BY DEF StepSet, SingleOps
<1>2. CASE e.kind \in FlagKinds /\ l.kind \in FlagKinds
  <2>1. e.kind \notin MoveKinds
    BY <1>2, KindsApart
  <2>2. PICK r \in last.rows : TRUE
    BY <1>1
  <2>3. e.flags # {}
    BY <1>2, <2>2 DEF StepRuns
  <2>4. PICK y : l.flags = {y}
    BY <1>1, <1>2
  <2>5. e.flags \subseteq l.flags => e.flags = l.flags
    BY <2>3, <2>4
  <2>6. l.kind # "Cancelled" /\ FlagOp(l.kind, e.flags \cup l.flags).kind = l.kind
    BY <1>2 DEF FlagOp, FlagKinds
  <2>7. Cancelled.kind = "Cancelled" /\ Cancelled # Separate
    BY DEF Cancelled, Separate
  <2> HIDE DEF e, l
  <2>8. MergeFlags(e, l) = Cancelled
    BY <1>2, <2>1 DEF Merge, e, l
  <2>9. e.kind # l.kind
    BY <2>6, <2>7, <2>8 DEF MergeFlags
  <2>10. e.flags \subseteq l.flags
    BY <2>7, <2>8, <2>9 DEF MergeFlags
  <2> QED
    BY <1>2, <2>5, <2>9, <2>10 DEF e, l
<1>3. CASE e.kind \in MoveKinds /\ l.kind \in MoveKinds
  BY <1>3
<1>4. CASE ~(e.kind \in FlagKinds /\ l.kind \in FlagKinds) /\ ~(e.kind \in MoveKinds /\ l.kind \in MoveKinds)
  BY <1>4 DEF Merge, Separate, Cancelled
<1> QED
  BY <1>2, <1>3, <1>4

LEMMA MergeRuns ==
    ASSUME NEW I, NEW M, NEW F, NEW last \in StepSet(I, M, F), NEW row \in RowSet(I, M, F),
           NEW q, StepRuns(last, q), row.op = q[row.id].op, row.op \in SingleOps(M, F),
           Merge(last.op, row.op) \notin {Separate, Cancelled}
    PROVE  StepRuns([op |-> Merge(last.op, row.op), rows |-> Both(last, row)], q)
<1> DEFINE e == last.op
           l == row.op
           x == [op |-> Merge(e, l), rows |-> Both(last, row)]
<1>1. l.kind \in FlagKinds => l.flags # {}
  BY DEF SingleOps
<1>2. CASE e.kind \in FlagKinds /\ l.kind \in FlagKinds
  <2>1. e.kind \notin MoveKinds
    BY <1>2, KindsApart
  <2> HIDE DEF e, l
  <2>2. Merge(e, l) = MergeFlags(e, l)
    BY <1>2, <2>1 DEF Merge
  <2>3. PICK r \in last.rows : TRUE
    BY DEF StepSet
  <2>4. e.flags # {}
    BY <1>2, <2>3 DEF StepRuns, e
  <2>5. l.kind \in FlagKinds => \E y : l.flags = {y}
    BY DEF SingleOps, l
  <2>6. e.kind = l.kind
    <3> SUFFICES ASSUME e.kind # l.kind PROVE FALSE
      OBVIOUS
    <3>1. PICK y : l.flags = {y}
      BY <1>2, <2>5
    <3>2. e.flags \subseteq l.flags => e.flags = l.flags
      BY <2>4, <3>1
    <3>3. Merge(e, l) \in {Separate, Cancelled}
      BY <2>2, <3>2 DEF MergeFlags
    <3> QED
      BY <3>3 DEF e, l
  <2>7. Merge(e, l) = FlagOp(l.kind, e.flags \cup l.flags)
    BY <2>2, <2>6 DEF MergeFlags
  <2>8. x.op.kind = l.kind /\ x.op.flags = e.flags \cup l.flags /\ x.rows = last.rows \cup {row.id}
    BY <2>7 DEF FlagOp, Both
  <2> HIDE DEF x
  <2> USE DEF e, l
  <2>9. StepRuns(x, q)
    BY <1>1, <1>2, <2>6, <2>8, KindsApart DEF StepRuns
  <2> QED
    BY <2>9 DEF x
<1>3. CASE e.kind \in MoveKinds /\ l.kind \in MoveKinds
  <2>1. Merge(e, l) = MergeMoves(e, l)
    BY <1>3, KindsApart DEF Merge
  <2>2. Merge(e, l).kind \in MoveKinds
    BY <1>3, <2>1 DEF MergeMoves, MoveOp, MoveKinds
  <2>3. x.op = Merge(e, l) /\ x.rows = last.rows \cup {row.id}
    BY DEF Both
  <2> HIDE DEF x
  <2>4. StepRuns(x, q)
    BY <1>3, <2>2, <2>3, KindsApart DEF StepRuns
  <2> QED
    BY <2>4 DEF x
<1>4. CASE ~(e.kind \in FlagKinds /\ l.kind \in FlagKinds) /\ ~(e.kind \in MoveKinds /\ l.kind \in MoveKinds)
  BY <1>4 DEF Merge
<1> QED
  BY <1>2, <1>3, <1>4

\* A row pushed comes after all before it.
LEMMA PushRuns ==
    ASSUME NEW I, NEW M, NEW F, NEW f \in FoldsOver(I, M, F), NEW row \in RowSet(I, M, F),
           NEW g, g = Push(f, row), NEW q, row.op = q[row.id].op, row.op \in SingleOps(M, F),
           \A k \in 1 .. Len(f.steps) : \A x \in f.steps[k].rows : x < row.id,
           FoldRuns(f, q)
    PROVE  FoldRuns(g, q)
<1> DEFINE n == Len(f.steps)
           last == f.steps[n]
<1>1. /\ n \in Nat
      /\ \A k \in 1 .. n : f.steps[k] \in StepSet(I, M, F)
      /\ g \in FoldsOver(I, M, F)
      /\ \/ PushKeepsApart(f, g, row)
         \/ n # 0 /\ PushCancels(f, g, row, last)
         \/ n # 0 /\ PushMerges(f, g, row, last)
  <2>1. f.steps \in Seq(StepSet(I, M, F))
    BY DEF FoldsOver
  <2> QED
    BY <2>1, PushIs, LenProperties, ElementOfSeq
<1> HIDE DEF n, last
<1>2. CASE PushKeepsApart(f, g, row)
  <2>1. /\ Len(g.steps) = n + 1 /\ \A k \in 1 .. n : g.steps[k] = f.steps[k]
        /\ g.steps[n + 1] = Alone(row)
    BY <1>2 DEF PushKeepsApart, Grown, n
  <2>2. Alone(row).rows = {row.id} /\ Alone(row).op = row.op
    BY DEF Alone
  <2>3. \A k : k \in 1 .. n + 1 <=> k \in 1 .. n \/ k = n + 1
    BY <1>1
  <2>4. \A j, k \in 1 .. n + 1 : j < k => j \in 1 .. n
    BY <1>1
  <2>5. InOrder(g.steps)
    <3> SUFFICES ASSUME NEW j \in 1 .. n + 1, NEW k \in 1 .. n + 1, j < k,
                        NEW a \in g.steps[j].rows, NEW b \in g.steps[k].rows
                 PROVE  a < b
      BY <2>1 DEF InOrder
    <3>1. j \in 1 .. n /\ a \in f.steps[j].rows
      BY <2>1, <2>4
    <3>2. CASE k \in 1 .. n
      BY <2>1, <3>1, <3>2 DEF FoldRuns, InOrder, n
    <3>3. CASE k = n + 1
      BY <2>1, <2>2, <3>1, <3>3 DEF n
    <3> QED
      BY <2>3, <3>2, <3>3
  <2>6. StepRuns(Alone(row), q)
    BY <2>2 DEF StepRuns, SingleOps
  <2> QED
    BY <2>1, <2>3, <2>5, <2>6 DEF FoldRuns, n
<1>3. CASE n # 0 /\ PushCancels(f, g, row, last)
  <2>1. Len(g.steps) = n - 1 /\ \A k \in 1 .. n - 1 : g.steps[k] = f.steps[k]
    BY <1>3 DEF PushCancels, Shrunk, n
  <2>2. \A k \in 1 .. n - 1 : k \in 1 .. n
    BY <1>1
  <2> QED
    BY <2>1, <2>2 DEF FoldRuns, InOrder, n
<1>4. CASE n # 0 /\ PushMerges(f, g, row, last)
  <2> DEFINE x == [op |-> Merge(last.op, row.op), rows |-> Both(last, row)]
  <2>1. /\ Len(g.steps) = n /\ \A k \in 1 .. n - 1 : g.steps[k] = f.steps[k]
        /\ g.steps[n] = x
    BY <1>4 DEF PushMerges, Replaced, n
  <2>2. x.rows = last.rows \cup {row.id}
    BY DEF Both
  <2>3. \A k : k \in 1 .. n <=> k \in 1 .. n - 1 \/ k = n
    BY <1>1, <1>4
  <2>4. \A j, k \in 1 .. n : j < k => j \in 1 .. n - 1
    BY <1>1
  <2>5. last \in StepSet(I, M, F) /\ StepRuns(last, q)
    BY <1>1, <2>3 DEF FoldRuns, n, last
  <2>6. StepRuns(x, q)
    BY <1>4, <2>5, MergeRuns DEF PushMerges
  <2> HIDE DEF x
  <2>7. InOrder(g.steps)
    <3> SUFFICES ASSUME NEW j \in 1 .. n, NEW k \in 1 .. n, j < k,
                        NEW a \in g.steps[j].rows, NEW b \in g.steps[k].rows
                 PROVE  a < b
      BY <2>1 DEF InOrder
    <3>1. j \in 1 .. n - 1 /\ a \in f.steps[j].rows
      BY <2>1, <2>4
    <3>2. CASE k \in 1 .. n - 1
      BY <2>1, <2>3, <3>1, <3>2 DEF FoldRuns, InOrder, n
    <3>3. CASE k = n
      <4>1. b \in last.rows \/ b = row.id
        BY <2>1, <2>2, <3>3
      <4>2. \A y \in last.rows : a < y
        BY <2>3, <3>1, <3>3 DEF FoldRuns, InOrder, n, last
      <4> QED
        BY <2>3, <3>1, <4>1, <4>2 DEF n
    <3> QED
      BY <2>3, <3>2, <3>3
  <2>8. \A k \in 1 .. n : StepRuns(g.steps[k], q)
    BY <2>1, <2>3, <2>6 DEF FoldRuns, n
  <2> QED
    BY <2>1, <2>7, <2>8 DEF FoldRuns
<1> QED
  BY <1>1, <1>2, <1>3, <1>4

-----------------------------------------------------------------------------
(* The changes of one flag: one more, one that cancels the last that stands. *)

LEMMA LastExists ==
    ASSUME NEW C \in SUBSET Nat, C # {}, NEW n \in Nat, \A i \in C : i <= n
    PROVE  \E m : IsLast(C, m)
<1>1. PICK m \in C : \A i \in C : i <= m
  BY GreatestExists
<1>2. \A i \in C : ~(m < i)
  BY <1>1
<1> QED
  BY <1>1, <1>2 DEF IsLast

LEMMA LastBelow ==
    ASSUME NEW S \in SUBSET Nat, NEW j \in Nat, NEW h \in S, h < j
    PROVE  \E i \in S : LastBefore(S, i, j)
<1> DEFINE T == {k \in S : k < j}
<1>1. T \in SUBSET Nat /\ T # {} /\ \A i \in T : i <= j
  <2>1. h \in T /\ \A k \in T : k \in Nat /\ k < j
    OBVIOUS
  <2>2. \A k \in T : k <= j
    BY <2>1
  <2> QED
    BY <2>1, <2>2
<1>2. PICK m \in T : \A i \in T : i <= m
  BY <1>1, GreatestExists
<1>3. \A k \in S : ~(m < k /\ k < j)
  BY <1>2
<1> QED
  BY <1>2, <1>3 DEF LastBefore

\* The same requests, seen in another queue.
LEMMA BalancedSame ==
    ASSUME NEW C, NEW O, NEW P, NEW q, NEW p, Balanced(C, O, q), C \ P = C \ O,
           \A i \in C : p[i].op = q[i].op
    PROVE  Balanced(C, P, p)
<1>1. C \cap P = C \cap O
  OBVIOUS
<1> DEFINE S == C \ O
           D == C \cap O
<1>2. (\A i \in S : i \in C) /\ \A i \in D : i \in C
  OBVIOUS
<1>3. Alternating(S, q) /\ ComesTo(S, D, q)
  BY DEF Balanced
<1> HIDE DEF S, D
<1>4. Alternating(S, p)
  <2> SUFFICES ASSUME NEW i \in S, NEW j \in S, LastBefore(S, i, j)
               PROVE  p[i].op.kind # p[j].op.kind
    BY DEF Alternating
  <2>1. q[i].op.kind # q[j].op.kind
    BY <1>3 DEF Alternating
  <2> QED
    BY <1>2, <2>1
<1>5. ComesTo(S, D, p)
  <2> SUFFICES ASSUME NEW j \in D, NEW i \in S, LastBefore(S, i, j), EndsRun(S, D, j)
               PROVE  p[i].op.kind = p[j].op.kind
    BY DEF ComesTo
  <2>1. q[i].op.kind = q[j].op.kind
    BY <1>3 DEF ComesTo
  <2> QED
    BY <1>2, <2>1
<1> QED
  BY <1>1, <1>4, <1>5 DEF Balanced, S, D

\* A change that comes after all others, and undoes the last, stands.
LEMMA ChangeStands ==
    ASSUME NEW C \in SUBSET Nat, NEW O, NEW q, Balanced(C, O, q),
           NEW n \in Nat, n \notin O, \A i \in C : i < n,
           \A m : IsLast(C, m) => q[m].op.kind # q[n].op.kind
    PROVE  Balanced(C \cup {n}, O, q)
<1> DEFINE S == C \ O
           T == (C \cup {n}) \ O
           D == C \cap O
           kind(i) == q[i].op.kind
<1>1. /\ T = S \cup {n} /\ (C \cup {n}) \cap O = D
      /\ S \subseteq C /\ D \subseteq C /\ C = S \cup D /\ S \cap D = {}
  OBVIOUS
<1>2. \A i \in C : i \in Nat /\ i < n /\ ~(n < i) /\ i # n
  OBVIOUS
<1>3. Alternating(S, q) /\ ComesTo(S, D, q)
  BY DEF Balanced
<1> HIDE DEF S, T, D
<1>4. Alternating(T, q)
  <2> SUFFICES ASSUME NEW i \in T, NEW j \in T, LastBefore(T, i, j)
               PROVE  kind(i) # kind(j)
    BY DEF Alternating
  <2>1. i < j /\ i \in S
    BY <1>1, <1>2 DEF LastBefore
  <2>2. CASE j \in S
    <3>1. LastBefore(S, i, j)
      BY <1>1, <2>1 DEF LastBefore
    <3> QED
      BY <1>3, <2>1, <2>2, <3>1 DEF Alternating
  <2>3. CASE j = n
    <3>1. PICK m : IsLast(C, m)
      <4>1. C # {} /\ \A k \in C : k <= n
        BY <1>1, <1>2, <2>1
      <4> QED
        BY <4>1, LastExists
    <3>2. m \in C /\ m \in Nat /\ m < n /\ \A k \in C : ~(m < k)
      BY <1>2, <3>1 DEF IsLast
    <3>3. kind(m) # kind(n)
      BY <3>1
    <3>4. i \in C /\ i \in Nat /\ i <= m
      BY <1>1, <1>2, <2>1, <3>2
    <3>5. CASE m \in S
      <4>1. ~(i < m)
        BY <1>1, <2>3, <3>2, <3>5 DEF LastBefore
      <4>2. i = m
        BY <3>2, <3>4, <4>1
      <4> QED
        BY <2>3, <3>3, <4>2
    <3>6. CASE m \in D
      <4>1. i # m /\ i < m
        BY <1>1, <2>1, <3>2, <3>4, <3>6
      <4>2. \A k \in S : ~(i < k /\ k < m)
        <5> TAKE k \in S
        <5>1. k \in C /\ k < n /\ k \in T
          BY <1>1, <1>2
        <5> QED
          BY <2>3, <5>1 DEF LastBefore
      <4>3. LastBefore(S, i, m)
        BY <2>1, <4>1, <4>2 DEF LastBefore
      <4>4. EndsRun(S, D, m)
        BY <1>1, <3>2 DEF EndsRun
      <4>5. kind(i) = kind(m)
        BY <1>3, <2>1, <3>6, <4>3, <4>4 DEF ComesTo
      <4> QED
        BY <2>3, <3>3, <4>5
    <3> QED
      BY <1>1, <3>2, <3>5, <3>6
  <2> QED
    BY <1>1, <2>2, <2>3
<1>5. ComesTo(T, D, q)
  <2> SUFFICES ASSUME NEW j \in D, NEW i \in T, LastBefore(T, i, j), EndsRun(T, D, j)
               PROVE  kind(i) = kind(j)
    BY DEF ComesTo
  <2>1. i \in S /\ LastBefore(S, i, j)
    BY <1>1, <1>2 DEF LastBefore
  <2>2. EndsRun(S, D, j)
    <3> SUFFICES ASSUME NEW k \in D, k > j PROVE \E l \in S : j < l /\ l < k
      BY DEF EndsRun
    <3>1. PICK l \in T : j < l /\ l < k
      BY DEF EndsRun
    <3>2. l \in S
      BY <1>1, <1>2, <3>1
    <3> QED
      BY <3>1, <3>2
  <2> QED
    BY <1>3, <2>1, <2>2 DEF ComesTo
<1> QED
  BY <1>1, <1>4, <1>5 DEF Balanced, T

\* A change that comes after all others and cancels with the last that stands.
LEMMA ChangeCancels ==
    ASSUME NEW C \in SUBSET Nat, NEW O, NEW P, NEW q, Balanced(C, O, q),
           NEW n \in Nat, n \in P, \A i \in C : i < n,
           NEW z \in C \ O, \A i \in C \ O : i <= z, C \ P = (C \ O) \ {z},
           q[z].op.kind # q[n].op.kind,
           \A i \in C \cup {n} : q[i].op.kind \in FlagKinds
    PROVE  Balanced(C \cup {n}, P, q)
<1> DEFINE S == C \ O
           T == S \ {z}
           D == C \cap O
           E == D \cup {z, n}
           kind(i) == q[i].op.kind
<1>1. /\ (C \cup {n}) \ P = T /\ (C \cup {n}) \cap P = E
      /\ S \subseteq C /\ T \subseteq S /\ z \in S /\ z \notin T
      /\ D \subseteq C /\ S \cap D = {}
  OBVIOUS
<1>2. \A i \in C : i \in Nat /\ i < n /\ ~(n < i) /\ i # n
  OBVIOUS
<1>3. Alternating(S, q) /\ ComesTo(S, D, q)
  BY DEF Balanced
<1>4. z \in Nat /\ z < n /\ \A i \in T : i \in Nat /\ i < z /\ ~(z < i)
  <2>1. \A i \in T : i \in Nat /\ i <= z /\ i # z
    OBVIOUS
  <2> QED
    BY <1>2, <2>1
<1>5. E = D \cup {z, n}
  OBVIOUS
<1> HIDE DEF S, T, D, E
<1>6. Alternating(T, q)
  <2> SUFFICES ASSUME NEW i \in T, NEW j \in T, LastBefore(T, i, j)
               PROVE  kind(i) # kind(j)
    BY DEF Alternating
  <2>1. \A k \in S : k \in T \/ k = z
    BY DEF T
  <2>2. LastBefore(S, i, j)
    BY <1>1, <1>4, <2>1 DEF LastBefore
  <2> QED
    BY <1>1, <1>3, <2>2 DEF Alternating
<1>7. ComesTo(T, E, q)
  <2> SUFFICES ASSUME NEW j \in E, NEW i \in T, LastBefore(T, i, j), EndsRun(T, E, j)
               PROVE  kind(i) = kind(j)
    BY DEF ComesTo
  <2>1. \A k \in S : k \in T \/ k = z
    BY DEF T
  <2>2. CASE j = n
    <3>1. LastBefore(S, i, z)
      <4>1. i \in S /\ i < z
        BY <1>1, <1>4
      <4>2. \A k \in S : ~(i < k /\ k < z)
        <5> TAKE k \in S
        <5>1. CASE k = z
          BY <1>4, <5>1
        <5>2. CASE k \in T
          <6>1. k < n
            BY <1>1, <1>2, <5>2
          <6> QED
            BY <2>2, <5>2, <6>1 DEF LastBefore
        <5> QED
          BY <2>1, <5>1, <5>2
      <4> QED
        BY <4>1, <4>2 DEF LastBefore
    <3>2. kind(i) # kind(z)
      BY <1>1, <1>3, <3>1 DEF Alternating
    <3>3. kind(i) \in FlagKinds /\ kind(z) \in FlagKinds /\ kind(n) \in FlagKinds /\ kind(z) # kind(n)
      BY <1>1
    <3> QED
      BY <2>2, <3>2, <3>3 DEF FlagKinds
  <2>3. CASE j # n
    <3>1. n > j /\ j \in Nat
      BY <1>1, <1>2, <1>5, <2>3
    <3>2. PICK l \in T : j < l /\ l < n
      BY <1>5, <3>1 DEF EndsRun
    <3>3. j < z /\ j \in D
      BY <1>4, <1>5, <2>3, <3>1, <3>2
    <3>4. LastBefore(S, i, j)
      BY <1>1, <1>4, <2>1, <3>1, <3>3 DEF LastBefore
    <3>5. EndsRun(S, D, j)
      BY <1>1, <1>5 DEF EndsRun
    <3> QED
      BY <1>1, <1>3, <3>3, <3>4, <3>5 DEF ComesTo
  <2> QED
    BY <2>2, <2>3
<1> QED
  BY <1>1, <1>6, <1>7 DEF Balanced

-----------------------------------------------------------------------------
(* A fold leaves the changes of a flag balanced.                           *)

\* The rows of the last step, if they touch the flag, are one: two of one kind would
\* have another between them.
LEMMA OneStands ==
    ASSUME NEW S \in SUBSET Nat, NEW q, Alternating(S, q),
           NEW R \in SUBSET S, R # {}, NEW n \in Nat, \A i \in R : i <= n,
           \A i, j \in R : q[i].op.kind = q[j].op.kind,
           \A i \in S \ R : \A j \in R : i < j
    PROVE  \E z \in S : R = {z} /\ \A i \in S : i <= z
<1>1. PICK z \in R : \A i \in R : i <= z
  <2>1. R \in SUBSET Nat
    OBVIOUS
  <2> QED
    BY <2>1, GreatestExists
<1>2. \A a \in R : a = z
  <2> SUFFICES ASSUME NEW a \in R, a # z PROVE FALSE
    OBVIOUS
  <2>1. a \in S /\ z \in S /\ z \in Nat /\ a < z
    BY <1>1
  <2>2. PICK i \in S : LastBefore(S, i, z)
    BY <2>1, LastBelow
  <2>3. i \in R
    <3>1. ~(i < a)
      BY <2>1, <2>2 DEF LastBefore
    <3> QED
      BY <3>1
  <2>4. q[i].op.kind # q[z].op.kind
    BY <2>1, <2>2 DEF Alternating
  <2> QED
    BY <1>1, <2>3, <2>4
<1>3. R = {z}
  BY <1>2
<1>4. \A i \in S : i <= z
  <2> TAKE i \in S
  <2>1. i \in Nat /\ z \in Nat
    OBVIOUS
  <2>2. i \in R \/ i < z
    BY <1>1
  <2> QED
    BY <1>1, <2>1, <2>2
<1> QED
  BY <1>1, <1>3, <1>4

\* Of the changes C the rows folded so far are among, those that no fold settles yet
\* come first.
LEMMA PushBalances ==
    ASSUME NEW I, NEW M, NEW F, NEW f \in FoldsOver(I, M, F), NEW row \in RowSet(I, M, F),
           NEW g, g = Push(f, row),
           NEW q, row.op = q[row.id].op, row.op \in SingleOps(M, F),
           FoldRuns(f, q), SettlesOnce(f), ~Settles(f, row.id), row.id \in Nat,
           NEW C \in SUBSET Nat, NEW x, \A i \in C : Touches(q, i, x),
           \A i : Settles(f, i) /\ Touches(q, i, x) => i \in C,
           \A i, j \in C : ~Settles(f, i) /\ Settles(f, j) => i < j,
           Balanced(C, f.obsolete, q)
    PROVE  /\ ~Touches(q, row.id, x) => Balanced(C, g.obsolete, q)
           /\ /\ Touches(q, row.id, x)
              /\ \A i \in C : i < row.id
              /\ \A m : IsLast(C, m) => q[m].op.kind # q[row.id].op.kind
              => Balanced(C \cup {row.id}, g.obsolete, q)
<1> DEFINE n == Len(f.steps)
           last == f.steps[n]
           id == row.id
           O == f.obsolete
           P == g.obsolete
           R == last.rows
           Undoes == /\ \A i \in C : i < id
                     /\ \A m : IsLast(C, m) => q[m].op.kind # q[id].op.kind
<1>1. /\ n \in Nat
      /\ \A k \in 1 .. n : f.steps[k] \in StepSet(I, M, F)
      /\ \/ PushKeepsApart(f, g, row)
         \/ n # 0 /\ PushCancels(f, g, row, last)
         \/ n # 0 /\ PushMerges(f, g, row, last)
  <2>1. f.steps \in Seq(StepSet(I, M, F))
    BY DEF FoldsOver
  <2> QED
    BY <2>1, PushIs, LenProperties, ElementOfSeq
<1>2. id \notin O
  BY DEF Settles
<1>3. CASE PushKeepsApart(f, g, row) \/ (n # 0 /\ PushMerges(f, g, row, last))
  <2>1. P = O
    BY <1>3 DEF PushKeepsApart, PushMerges
  <2>2. Undoes => Balanced(C \cup {id}, O, q)
    BY <1>2, ChangeStands
  <2> QED
    BY <2>1, <2>2
<1>4. CASE n # 0 /\ PushCancels(f, g, row, last)
  <2>1. /\ Merge(last.op, row.op) = Cancelled
        /\ P = O \cup (R \cup {id})
        /\ n \in 1 .. n
    BY <1>1, <1>4 DEF PushCancels, Both
  <2>2. last \in StepSet(I, M, F) /\ StepRuns(last, q)
    BY <1>1, <2>1 DEF FoldRuns
  <2>3. \/ last.op.kind \in MoveKinds /\ row.op.kind \in MoveKinds
        \/ /\ last.op.kind \in FlagKinds /\ row.op.kind \in FlagKinds
           /\ last.op.kind # row.op.kind /\ last.op.flags = row.op.flags
    BY <2>1, <2>2, MergeCancels
  <2>4. \A i \in R : Settles(f, i) /\ i \notin O
    BY <1>1, <2>1 DEF Settles, SettledBy, SettlesOnce
  <2>5. ASSUME ~Touches(q, id, x) PROVE Balanced(C, P, q)
    <3>1. \A i \in R : ~Touches(q, i, x)
      <4> TAKE i \in R
      <4>1. CASE last.op.kind \in MoveKinds
        BY <2>2, <4>1, KindsApart DEF StepRuns, Touches
      <4>2. CASE last.op.kind \in FlagKinds
        <5>1. row.op.kind \in FlagKinds /\ last.op.flags = row.op.flags
          BY <2>3, <4>2, KindsApart
        <5>2. x \notin row.op.flags
          BY <2>5, <5>1 DEF Touches
        <5>3. q[i].op.flags \subseteq row.op.flags
          BY <2>2, <4>2, <5>1 DEF StepRuns
        <5> QED
          BY <5>2, <5>3 DEF Touches
      <4> QED
        BY <2>3, <4>1, <4>2
    <3>2. C \ P = C \ O
      BY <2>1, <2>5, <3>1
    <3> QED
      BY <3>2, BalancedSame
  <2>6. ASSUME Touches(q, id, x), Undoes PROVE Balanced(C \cup {id}, P, q)
    <3>1. /\ last.op.kind \in FlagKinds /\ row.op.kind \in FlagKinds
          /\ last.op.kind # row.op.kind /\ last.op.flags = row.op.flags
      BY <2>3, <2>6, KindsApart DEF Touches
    <3>2. PICK y : row.op.flags = {y}
      BY <3>1 DEF SingleOps
    <3>3. \A i \in R : q[i].op.kind = last.op.kind /\ Touches(q, i, x)
      <4> TAKE i \in R
      <4>1. /\ q[i].op.kind = last.op.kind /\ q[i].op.flags # {}
            /\ q[i].op.flags \subseteq {y}
        BY <2>2, <3>1, <3>2 DEF StepRuns
      <4>2. x \in {y} /\ q[i].op.flags = {y}
        BY <2>6, <3>2, <4>1 DEF Touches
      <4> QED
        BY <3>1, <4>1, <4>2 DEF Touches
    <3>4. R \subseteq C \ O
      BY <2>4, <3>3
    <3>5. \A i \in (C \ O) \ R : \A j \in R : i < j
      <4> SUFFICES ASSUME NEW i \in (C \ O) \ R, NEW j \in R PROVE i < j
        OBVIOUS
      <4>1. j \in C /\ Settles(f, j)
        BY <2>4, <3>4
      <4>2. CASE ~Settles(f, i)
        BY <4>1, <4>2
      <4>3. CASE Settles(f, i)
        <5>1. PICK k \in 1 .. n : i \in f.steps[k].rows
          BY <4>3 DEF Settles, SettledBy
        <5>2. k < n
          BY <1>1, <5>1
        <5> QED
          BY <2>1, <5>1, <5>2 DEF FoldRuns, InOrder
      <4> QED
        BY <4>2, <4>3
    <3>6. PICK z \in C \ O : R = {z} /\ \A i \in C \ O : i <= z
      <4> DEFINE S == C \ O
      <4>1. R # {}
        BY <2>2 DEF StepSet
      <4>2. S \in SUBSET Nat /\ R \in SUBSET S
        BY <3>4
      <4>3. Alternating(S, q)
        BY DEF Balanced
      <4>4. \A i \in R : i <= id
        <5> TAKE i \in R
        <5>1. i \in Nat /\ i < id
          BY <2>6, <3>4
        <5> QED
          BY <5>1
      <4>5. \A i, j \in R : q[i].op.kind = q[j].op.kind
        BY <3>3
      <4>6. id \in Nat /\ \A i \in S \ R : \A j \in R : i < j
        BY <3>5
      <4> HIDE DEF S, R, id
      <4>7. \E z \in S : R = {z} /\ \A i \in S : i <= z
        BY <4>1, <4>2, <4>3, <4>4, <4>5, <4>6, OneStands, ZenonT(60)
      <4> QED
        BY <4>7 DEF S
    <3>7. id \notin C
      BY <2>6
    <3>8. C \ P = (C \ O) \ {z} /\ id \in P
      BY <2>1, <3>6, <3>7
    <3>9. \A i \in C \cup {id} : q[i].op.kind \in FlagKinds
      BY <2>6 DEF Touches
    <3>10. q[z].op.kind # q[id].op.kind
      BY <3>1, <3>3, <3>6
    <3> HIDE DEF O, P, R, id
    <3> QED
      BY <2>6, <3>6, <3>8, <3>9, <3>10, ChangeCancels DEF O, id
  <2> QED
    BY <2>5, <2>6
<1> QED
  BY <1>1, <1>3, <1>4

\* A batch of rows of the queue q, in queue order.
TakenFrom(batch, q, M, F) ==
    /\ \A j, k \in 1 .. Len(batch) : j < k => batch[j].id < batch[k].id
    /\ \A k \in 1 .. Len(batch) : /\ batch[k].op = q[batch[k].id].op
                                  /\ batch[k].op \in SingleOps(M, F)

LEMMA FoldRunsInOrder ==
    ASSUME NEW I \in SUBSET Nat, NEW M, NEW F, NEW batch \in Batches(I, M, F), NEW q,
           TakenFrom(batch, q, M, F), NEW f, IsFold(f, batch, Len(batch))
    PROVE  \A k \in 0 .. Len(batch) : FoldRuns(f[k], q)
<1> DEFINE n == Len(batch)
           S == {k \in 0 .. n : FoldRuns(f[k], q)}
<1>1. n \in Nat /\ \A k \in 1 .. n : batch[k] \in RowSet(I, M, F)
  BY DEF Batches
<1>2. f[0] = EmptyFold /\ \A k \in 1 .. n : f[k] = Push(f[k - 1], batch[k])
  BY <1>1 DEF IsFold
<1>3. \A k \in 0 .. n : f[k] \in FoldsOver(I, M, F) /\ SettlesJust(f[k], Ids(batch, k))
  BY FoldSettles
<1>4. 0 \in S
  <2>1. Len(EmptyFold.steps) = 0
    BY DEF EmptyFold
  <2>2. FoldRuns(EmptyFold, q)
    BY <2>1 DEF FoldRuns, InOrder
  <2> QED
    BY <1>1, <1>2, <2>2
<1>5. \A k \in 1 .. n : k - 1 \in S => k \in S
  <2> SUFFICES ASSUME NEW k \in 1 .. n, k - 1 \in S PROVE k \in S
    OBVIOUS
  <2>1. /\ k - 1 \in 0 .. n
        /\ f[k - 1] \in FoldsOver(I, M, F) /\ SettlesJust(f[k - 1], Ids(batch, k - 1))
        /\ FoldRuns(f[k - 1], q)
    BY <1>1, <1>3
  <2>2. \A i \in Ids(batch, k - 1) : i < batch[k].id
    <3> SUFFICES ASSUME NEW j \in 1 .. k - 1 PROVE batch[j].id < batch[k].id
      BY DEF Ids
    <3>1. j \in 1 .. n /\ j < k
      BY <1>1
    <3> QED
      BY <3>1 DEF TakenFrom
  <2>3. \A j \in 1 .. Len(f[k - 1].steps) : \A i \in f[k - 1].steps[j].rows : i < batch[k].id
    BY <2>1, <2>2 DEF SettlesJust, Settles, SettledBy
  <2>4. /\ batch[k].op = q[batch[k].id].op /\ batch[k].op \in SingleOps(M, F)
        /\ batch[k] \in RowSet(I, M, F) /\ f[k] = Push(f[k - 1], batch[k])
    BY <1>1, <1>2 DEF TakenFrom
  <2>5. FoldRuns(f[k], q)
    BY <2>1, <2>3, <2>4, PushRuns
  <2> QED
    BY <1>1, <2>5
<1> HIDE DEF S
<1>6. \A k \in 0 .. n : k \in S
  BY <1>1, <1>4, <1>5, InductionUpTo
<1> QED
  BY <1>6 DEF S

\* The changes C of a flag: those of the batch, and some that are not in it and come
\* before them.
Spans(C, batch, q, x) ==
    /\ \A i \in C : Touches(q, i, x)
    /\ \A i \in Ids(batch, Len(batch)) : Touches(q, i, x) => i \in C
    /\ \A i \in C \ Ids(batch, Len(batch)) : \A j \in C \cap Ids(batch, Len(batch)) : i < j

\* Those before the batch and those of its first k rows.
Reached(C, batch, k) == {i \in C : i \in Ids(batch, k) \/ i \notin Ids(batch, Len(batch))}

ReachesNext(C, batch, q, x, k, id, D) ==
    /\ id \in Nat /\ id \notin Ids(batch, k - 1)
    /\ \A i \in Ids(batch, k - 1) : i \in Ids(batch, Len(batch)) /\ i < id
    /\ Touches(q, id, x) => /\ Reached(C, batch, k) = D \cup {id}
                            /\ \A i \in D : i < id
                            /\ \A i \in C : i \notin D => ~(i < id)
                            /\ id \in C
    /\ ~Touches(q, id, x) => Reached(C, batch, k) = D

LEMMA ReachedNext ==
    ASSUME NEW I \in SUBSET Nat, NEW M, NEW F, NEW batch \in Batches(I, M, F), NEW q,
           TakenFrom(batch, q, M, F), NEW C \in SUBSET Nat, NEW x, Spans(C, batch, q, x),
           NEW k \in 1 .. Len(batch), NEW id, id = batch[k].id,
           NEW D, D = Reached(C, batch, k - 1)
    PROVE  ReachesNext(C, batch, q, x, k, id, D)
<1> DEFINE n == Len(batch)
<1>1. n \in Nat /\ \A j \in 1 .. n : batch[j] \in RowSet(I, M, F)
  BY DEF Batches
<1>2. \A j \in 1 .. n : batch[j].id \in Nat
  BY <1>1 DEF RowSet
<1>3. \A j \in 1 .. k - 1 : j \in 1 .. n /\ j < k
  BY <1>1
<1>4. \A i \in Ids(batch, k - 1) : i \in Ids(batch, n) /\ i < id /\ i # id
  <2> SUFFICES ASSUME NEW j \in 1 .. k - 1
               PROVE  batch[j].id \in Ids(batch, n) /\ batch[j].id < id /\ batch[j].id # id
    BY DEF Ids
  <2>1. batch[j].id < id
    BY <1>3 DEF TakenFrom
  <2> QED
    BY <1>2, <1>3, <2>1 DEF Ids
<1>5. \A i : i \in Ids(batch, k) <=> i \in Ids(batch, k - 1) \/ i = id
  <2>1. \A j : j \in 1 .. k <=> j \in 1 .. k - 1 \/ j = k
    BY <1>1
  <2> QED
    BY <2>1 DEF Ids
<1>6. id \in Ids(batch, n) /\ id \in Nat
  BY <1>2 DEF Ids
<1>7. ASSUME Touches(q, id, x)
      PROVE  /\ Reached(C, batch, k) = D \cup {id} /\ id \in C
             /\ \A i \in D : i < id
             /\ \A i \in C : i \notin D => ~(i < id)
  <2>1. id \in C
    BY <1>6, <1>7 DEF Spans
  <2>2. Reached(C, batch, k) = D \cup {id}
    BY <1>5, <2>1 DEF Reached
  <2>3. \A i \in D : i < id
    <3> TAKE i \in D
    <3>1. i \in Ids(batch, k - 1) \/ i \in C \ Ids(batch, n)
      BY DEF Reached
    <3> QED
      BY <1>4, <1>6, <2>1, <3>1 DEF Spans
  <2>4. \A i \in C : i \notin D => ~(i < id)
    <3> SUFFICES ASSUME NEW i \in C, i \notin D PROVE ~(i < id)
      OBVIOUS
    <3>1. i \in Ids(batch, n) /\ i \notin Ids(batch, k - 1)
      BY DEF Reached
    <3>2. PICK j \in 1 .. n : i = batch[j].id
      BY <3>1 DEF Ids
    <3>3. j \notin 1 .. k - 1
      BY <3>1, <3>2 DEF Ids
    <3>4. j = k \/ k < j
      BY <1>1, <3>3
    <3>5. k < j => id < i
      BY <3>2 DEF TakenFrom
    <3> QED
      BY <1>2, <3>2, <3>4, <3>5
  <2> QED
    BY <2>1, <2>2, <2>3, <2>4
<1>8. ASSUME ~Touches(q, id, x) PROVE Reached(C, batch, k) = D
  <2>1. id \notin C
    BY <1>8 DEF Spans
  <2> QED
    BY <1>5, <2>1 DEF Reached
<1> QED
  BY <1>4, <1>6, <1>7, <1>8 DEF ReachesNext

LEMMA FoldBalances ==
    ASSUME NEW I \in SUBSET Nat, NEW M, NEW F, NEW batch \in Batches(I, M, F), NEW q,
           TakenFrom(batch, q, M, F), NEW C \in SUBSET Nat, NEW x, Spans(C, batch, q, x),
           Alternating(C, q)
    PROVE  Balanced(C, Coalesced(batch).obsolete, q)
<1> DEFINE n == Len(batch)
<1>1. n \in Nat /\ \A k \in 1 .. n : batch[k] \in RowSet(I, M, F)
  BY DEF Batches
<1>2. PICK f : IsFold(f, batch, n) /\ Coalesced(batch) = f[n]
  BY <1>1, CoalescedIs
<1> DEFINE S == {k \in 0 .. n : Balanced(Reached(C, batch, k), f[k].obsolete, q)}
<1>3. f[0] = EmptyFold /\ \A k \in 1 .. n : f[k] = Push(f[k - 1], batch[k])
  BY <1>1, <1>2 DEF IsFold
<1>4. /\ \A k \in 0 .. n : /\ f[k] \in FoldsOver(I, M, F)
                           /\ SettlesJust(f[k], Ids(batch, k))
                           /\ SettlesOnce(f[k])
      /\ \A k \in 0 .. n : FoldRuns(f[k], q)
  BY <1>2, FoldSettles, FoldRunsInOrder
<1>5. 0 \in S
  <2> DEFINE B == Reached(C, batch, 0)
  <2>1. B = {i \in C : i \notin Ids(batch, n)}
    BY DEF Reached, Ids
  <2>2. Alternating(B, q)
    <3> SUFFICES ASSUME NEW i \in B, NEW j \in B, LastBefore(B, i, j)
                 PROVE  q[i].op.kind # q[j].op.kind
      BY DEF Alternating
    <3>1. i \in C /\ j \in C /\ j \in Nat /\ j \notin Ids(batch, n)
      BY <2>1
    <3>2. \A k \in C : ~(i < k /\ k < j)
      <4> TAKE k \in C
      <4>1. CASE k \in B
        BY <4>1 DEF LastBefore
      <4>2. CASE k \notin B
        <5>1. k \in Ids(batch, n) /\ k \in Nat
          BY <2>1, <4>2
        <5>2. j < k
          BY <3>1, <5>1 DEF Spans
        <5> QED
          BY <3>1, <5>1, <5>2
      <4> QED
        BY <4>1, <4>2
    <3>3. LastBefore(C, i, j)
      BY <3>1, <3>2 DEF LastBefore
    <3> QED
      BY <3>1, <3>3 DEF Alternating
  <2>3. f[0].obsolete = {}
    BY <1>3 DEF EmptyFold
  <2>4. B \ {} = B /\ B \cap {} = {}
    OBVIOUS
  <2> HIDE DEF B
  <2>5. Balanced(B, {}, q)
    BY <2>2, <2>4 DEF Balanced, ComesTo
  <2>6. Balanced(Reached(C, batch, 0), f[0].obsolete, q)
    BY <2>3, <2>5 DEF B
  <2> QED
    BY <1>1, <2>6
<1>6. \A k \in 1 .. n : k - 1 \in S => k \in S
  <2> SUFFICES ASSUME NEW k \in 1 .. n, k - 1 \in S PROVE k \in S
    OBVIOUS
  <2> DEFINE row == batch[k]
             id  == row.id
             h   == f[k - 1]
             D   == Reached(C, batch, k - 1)
  <2>1. /\ h \in FoldsOver(I, M, F) /\ SettlesOnce(h) /\ FoldRuns(h, q)
        /\ \A i : Settles(h, i) <=> i \in Ids(batch, k - 1)
        /\ Balanced(D, h.obsolete, q)
        /\ f[k] = Push(h, row)
        /\ row \in RowSet(I, M, F)
    <3>1. k - 1 \in 0 .. n
      BY <1>1
    <3> QED
      BY <1>1, <1>3, <1>4, <3>1 DEF SettlesJust
  <2>2. row.op = q[id].op /\ row.op \in SingleOps(M, F)
    BY DEF TakenFrom
  <2>3. /\ id \in Nat /\ id \notin Ids(batch, k - 1)
        /\ \A i \in Ids(batch, k - 1) : i \in Ids(batch, n) /\ i < id
        /\ Touches(q, id, x) => /\ Reached(C, batch, k) = D \cup {id}
                                /\ \A i \in D : i < id
                                /\ \A i \in C : i \notin D => ~(i < id)
                                /\ id \in C
        /\ ~Touches(q, id, x) => Reached(C, batch, k) = D
    <3> HIDE DEF D, id
    <3>1. id = batch[k].id /\ D = Reached(C, batch, k - 1)
      BY DEF D, id
    <3>2. ReachesNext(C, batch, q, x, k, id, D)
      BY <3>1, ReachedNext
    <3> QED
      BY <3>2 DEF ReachesNext
  <2>4. D \in SUBSET Nat /\ D \subseteq C /\ \A i \in D : Touches(q, i, x)
    BY DEF Reached, Spans
  <2>5. \A i : Settles(h, i) /\ Touches(q, i, x) => i \in D
    BY <2>1, <2>3 DEF Reached, Spans
  <2>6. \A i, j \in D : ~Settles(h, i) /\ Settles(h, j) => i < j
    <3> SUFFICES ASSUME NEW i \in D, NEW j \in D, ~Settles(h, i), Settles(h, j) PROVE i < j
      OBVIOUS
    <3>1. i \in C /\ i \notin Ids(batch, n)
      BY <2>1 DEF Reached
    <3>2. j \in C /\ j \in Ids(batch, n)
      BY <2>1, <2>3, <2>4
    <3> QED
      BY <3>1, <3>2 DEF Spans
  <2>7. Touches(q, id, x) => \A m : IsLast(D, m) => q[m].op.kind # q[id].op.kind
    <3> SUFFICES ASSUME Touches(q, id, x), NEW m, IsLast(D, m)
                 PROVE  q[m].op.kind # q[id].op.kind
      OBVIOUS
    <3>1. m \in D /\ m \in C /\ m < id /\ id \in C
      BY <2>3, <2>4 DEF IsLast
    <3>2. \A i \in C : ~(m < i /\ i < id)
      BY <2>3 DEF IsLast
    <3> QED
      BY <3>1, <3>2 DEF LastBefore, Alternating
  <2>8. ~Settles(h, id)
    BY <2>1, <2>3
  <2> HIDE DEF row, id, h, D
  <2>9. /\ ~Touches(q, id, x) => Balanced(D, f[k].obsolete, q)
        /\ Touches(q, id, x) => Balanced(D \cup {id}, f[k].obsolete, q)
    <3>1. row.id \in Nat /\ row.op = q[row.id].op /\ ~Settles(h, row.id)
      BY <2>2, <2>3, <2>8 DEF id
    <3>2. /\ ~Touches(q, row.id, x) => Balanced(D, f[k].obsolete, q)
          /\ /\ Touches(q, row.id, x)
             /\ \A i \in D : i < row.id
             /\ \A m : IsLast(D, m) => q[m].op.kind # q[row.id].op.kind
             => Balanced(D \cup {row.id}, f[k].obsolete, q)
      BY <2>1, <2>2, <2>4, <2>5, <2>6, <3>1, PushBalances
    <3> QED
      BY <2>3, <2>7, <3>2 DEF id
  <2>10. Balanced(Reached(C, batch, k), f[k].obsolete, q)
    BY <2>3, <2>9
  <2> QED
    BY <1>1, <2>10
<1> HIDE DEF S
<1>7. n \in S
  <2>1. \A k \in 0 .. n : k \in S
    BY <1>1, <1>5, <1>6, InductionUpTo
  <2> QED
    BY <1>1, <2>1
<1>8. Reached(C, batch, n) = C
  BY DEF Reached
<1> QED
  BY <1>2, <1>7, <1>8 DEF S

-----------------------------------------------------------------------------
(* The batch of one message.                                               *)

\* The rows of a batch are the due ones of the message, in queue order.
IsBatchOf(batch, r) ==
    /\ batch \in Batches(DOMAIN queue, Mailboxes, Flags)
    /\ TakenFrom(batch, queue, Mailboxes, Flags)
    /\ Ids(batch, Len(batch)) = {i \in Due : queue[i].target = r}
    /\ BatchOf(r) = Coalesced(batch)

LEMMA BatchExists ==
    ASSUME QueueType, OneFlagEach, NEW r \in Rows
    PROVE  \E batch : IsBatchOf(batch, r)
<1> DEFINE mine == {i \in Due : queue[i].target = r}
           n == Cardinality(mine)
           rank(i) == Cardinality({j \in mine : j <= i})
           pick(k) == CHOOSE i \in mine : rank(i) = k
           batch == [k \in 1 .. n |-> LET i == CHOOSE i \in mine :
                                               Cardinality({j \in mine : j <= i}) = k
                                      IN  [id |-> i, op |-> queue[i].op]]
           I == DOMAIN queue
<1>1. mine \in SUBSET Nat /\ mine \subseteq DOMAIN queue /\ IsFiniteSet(mine)
  BY QueueIs, FS_Subset DEF Due
<1>2. /\ n \in Nat
      /\ \A k \in 1 .. n : pick(k) \in mine /\ rank(pick(k)) = k
  BY <1>1, MineIs
<1>3. BatchOf(r) = Coalesced(batch)
  BY DEF BatchOf
<1>4. batch = [k \in 1 .. n |-> [id |-> pick(k), op |-> queue[pick(k)].op]]
  OBVIOUS
<1>5. \A i \in mine : queue[i].op \in OpSet(Mailboxes, Flags) /\ queue[i].op \in SingleOps(Mailboxes, Flags)
  <2> TAKE i \in mine
  <2>1. queue[i].op \in OpSet(Mailboxes, Flags)
    BY <1>1, QueueIs, OpsAre DEF QueueRow
  <2> QED
    BY <1>1, <2>1 DEF OneFlagEach, SingleOps
<1>6. /\ \A i \in mine : rank(i) \in 1 .. n
      /\ \A i, j \in mine : i < j => rank(i) < rank(j)
  BY <1>1, RanksRise
<1> HIDE DEF batch, pick, rank, mine
<1>7. \A k \in 1 .. n : batch[k].id = pick(k) /\ batch[k].op = queue[pick(k)].op
  BY <1>4
<1>8. \A k \in 1 .. n : batch[k] \in RowSet(I, Mailboxes, Flags)
  BY <1>1, <1>2, <1>4, <1>5 DEF RowSet
<1>9. batch \in Seq(RowSet(I, Mailboxes, Flags)) /\ Len(batch) = n
  BY <1>2, <1>4, <1>8
<1>10. \A j, k \in 1 .. n : pick(j) = pick(k) => j = k
  BY <1>2
<1>11. batch \in Batches(I, Mailboxes, Flags)
  BY <1>7, <1>9, <1>10 DEF Batches
<1>12. \A i, j \in mine : rank(i) < rank(j) => i < j
  <2> TAKE i, j \in mine
  <2>1. i \in Nat /\ j \in Nat /\ rank(i) \in Nat /\ rank(j) \in Nat
    BY <1>1, <1>2, <1>6
  <2>2. j < i => rank(j) < rank(i)
    BY <1>6
  <2> QED
    BY <2>1, <2>2
<1>13. TakenFrom(batch, queue, Mailboxes, Flags)
  <2>1. \A j, k \in 1 .. n : j < k => pick(j) < pick(k)
    BY <1>2, <1>12
  <2> QED
    BY <1>2, <1>5, <1>7, <1>9, <2>1 DEF TakenFrom
<1>14. Ids(batch, n) = mine
  <2>1. \A i \in Ids(batch, n) : i \in mine
    BY <1>2, <1>7 DEF Ids
  <2>2. \A i \in mine : i \in Ids(batch, n)
    <3> TAKE i \in mine
    <3>1. rank(i) \in 1 .. n
      BY <1>6
    <3>2. PICK k \in 1 .. n : k = rank(i)
      BY <3>1
    <3>3. pick(k) \in mine /\ rank(pick(k)) = rank(i)
      BY <1>2, <3>2
    <3>4. pick(k) = i
      <4>1. pick(k) \in Nat /\ i \in Nat
        BY <1>1, <3>3
      <4>2. rank(i) \in Nat
        BY <1>2, <3>1
      <4>3. ~(pick(k) < i) /\ ~(i < pick(k))
        BY <1>6, <3>3, <4>2
      <4> QED
        BY <4>1, <4>3
    <3> QED
      BY <1>7, <3>4 DEF Ids
  <2> QED
    BY <2>1, <2>2
<1> QED
  BY <1>3, <1>9, <1>11, <1>13, <1>14 DEF IsBatchOf, mine

\* The steps planned for a message, and what cancels out.
LEMMA BatchFolds ==
    ASSUME QueueType, OneFlagEach, NEW r \in Rows
    PROVE  LET f == BatchOf(r)
           IN  /\ f \in FoldsOver(DOMAIN queue, Mailboxes, Flags)
               /\ SettlesJust(f, {i \in Due : queue[i].target = r})
               /\ SettlesOnce(f)
               /\ FoldRuns(f, queue)
<1>1. PICK batch : IsBatchOf(batch, r)
  BY BatchExists
<1>2. /\ batch \in Batches(DOMAIN queue, Mailboxes, Flags) /\ Len(batch) \in Nat
      /\ TakenFrom(batch, queue, Mailboxes, Flags)
      /\ Ids(batch, Len(batch)) = {i \in Due : queue[i].target = r}
      /\ BatchOf(r) = Coalesced(batch)
  BY <1>1 DEF IsBatchOf, Batches
<1>3. /\ Coalesced(batch) \in FoldsOver(DOMAIN queue, Mailboxes, Flags)
      /\ SettlesJust(Coalesced(batch), Ids(batch, Len(batch)))
      /\ SettlesOnce(Coalesced(batch))
  BY <1>2, FoldSettlesEachOnce
<1>4. PICK f : IsFold(f, batch, Len(batch)) /\ Coalesced(batch) = f[Len(batch)]
  BY <1>2, CoalescedIs
<1>5. FoldRuns(Coalesced(batch), queue)
  <2>1. Len(batch) \in 0 .. Len(batch) /\ DOMAIN queue \in SUBSET Nat
    BY <1>2, QueueIs
  <2>2. \A k \in 0 .. Len(batch) : FoldRuns(f[k], queue)
    BY <1>2, <1>4, <2>1, FoldRunsInOrder
  <2> QED
    BY <1>4, <2>1, <2>2
<1> QED
  BY <1>2, <1>3, <1>5

\* The changes of a flag that are not due come before those that are: a deferred row
\* and one before it are of one kind, and have one of the other between them.
LEMMA NotDueComeFirst ==
    ASSUME QueueType, NotDueIsDeferred, NEW r \in Rows, DeferredFirst(r), NEW f,
           Alternating(Changers(r, f), queue),
           NEW i \in Changers(r, f) \ Due, NEW j \in Changers(r, f) \cap Due
    PROVE  i < j
<1>1. /\ Changers(r, f) \in SUBSET Nat
      /\ \A h \in Changers(r, f) : /\ h \in Queued(r) /\ h \in DOMAIN queue /\ Pending(h)
                                   /\ queue[h].op.kind \in FlagKinds
  BY QueueIs DEF Changers, Queued, Touches
<1>2. Deferred(i)
  BY <1>1 DEF NotDueIsDeferred, Due
<1>3. SUFFICES ASSUME j < i PROVE FALSE
  <2>1. i # j /\ i \in Nat /\ j \in Nat
    BY <1>1
  <2> QED
    BY <1>3, <2>1
<1>4. PICK h \in Changers(r, f) : LastBefore(Changers(r, f), h, i)
  <2>1. i \in Nat /\ j \in Changers(r, f)
    BY <1>1
  <2> QED
    BY <1>1, <1>3, <2>1, LastBelow
<1>5. queue[h].op.kind # queue[i].op.kind
  BY <1>4 DEF Alternating
<1>6. h < i /\ h \in Queued(r) /\ i \in Queued(r)
  BY <1>1, <1>4 DEF LastBefore
<1>7. Class(h) = Class(i)
  BY <1>2, <1>6 DEF DeferredFirst
<1>8. queue[h].op.kind \notin MoveKinds /\ queue[i].op.kind \notin MoveKinds
  BY <1>1, KindsApart
<1> QED
  BY <1>5, <1>7, <1>8 DEF Class, ClassOf

LEMMA BatchBalances ==
    ASSUME TypeInv, ShowInv, folded = {}, NEW r \in Rows, RowFits(r), NEW f \in Flags
    PROVE  Balanced(Changers(r, f), BatchOf(r).obsolete, queue)
<1> DEFINE C == Changers(r, f)
           mine == {i \in Due : queue[i].target = r}
<1>1. QueueType /\ OneFlagEach /\ NotDueIsDeferred /\ DeferredFirst(r)
  BY DEF TypeInv, ShowInv, RowFits
<1>2. Alternating(C, queue)
  <2>1. C \ {} = C
    OBVIOUS
  <2> HIDE DEF C
  <2>2. Balanced(C, {}, queue)
    BY DEF RowFits, FlagFits, C
  <2> QED
    BY <2>1, <2>2 DEF Balanced
<1>3. PICK batch : IsBatchOf(batch, r)
  BY <1>1, BatchExists
<1>4. C \in SUBSET Nat /\ \A i \in C : /\ Touches(queue, i, f) /\ i \in DOMAIN queue
                                       /\ Pending(i) /\ queue[i].target = r
  BY <1>1, QueueIs DEF Changers, Queued
<1>5. \A i \in mine : Touches(queue, i, f) => i \in C
  BY DEF Changers, Queued, Due
<1>6. Spans(C, batch, queue, f)
  <2>1. \A i \in C \ mine : \A j \in C \cap mine : i < j
    <3> SUFFICES ASSUME NEW i \in C \ mine, NEW j \in C \cap mine PROVE i < j
      OBVIOUS
    <3>1. i \in Changers(r, f) \ Due /\ j \in Changers(r, f) \cap Due
      BY <1>4
    <3> QED
      BY <1>1, <1>2, <3>1, NotDueComeFirst
  <2>2. Ids(batch, Len(batch)) = mine
    BY <1>3 DEF IsBatchOf
  <2> HIDE DEF C, mine
  <2> QED
    BY <1>4, <1>5, <2>1, <2>2 DEF Spans
<1> HIDE DEF C
<1>7. Balanced(C, Coalesced(batch).obsolete, queue)
  <2>1. /\ batch \in Batches(DOMAIN queue, Mailboxes, Flags)
        /\ TakenFrom(batch, queue, Mailboxes, Flags)
        /\ DOMAIN queue \in SUBSET Nat
    BY <1>1, <1>3, QueueIs DEF IsBatchOf
  <2> QED
    BY <1>2, <1>4, <1>6, <2>1, FoldBalances
<1> QED
  BY <1>3, <1>7 DEF IsBatchOf, C

\* The rows of a planned step, and what they have between them.
LEMMA PlannedKeeps ==
    ASSUME TypeInv, OneFlagEach, NotDueIsDeferred, NEW r \in Rows, NEW s \in StepsOf(r)
    PROVE  /\ s.target = r /\ s.rows \subseteq Queued(r) \ BatchOf(r).obsolete
           /\ \A i, j \in s.rows : Class(i) = Class(j)
           /\ \A h, j \in s.rows : \A i \in Queued(r) \ (s.rows \cup BatchOf(r).obsolete) :
                 h < i /\ i < j => Deferred(i)
           /\ \A t \in StepsOf(r) : s # t => s.rows \cap t.rows = {}
<1> DEFINE f == BatchOf(r)
           n == Len(f.steps)
           mine == {i \in Due : queue[i].target = r}
<1>1. /\ f \in FoldsOver(DOMAIN queue, Mailboxes, Flags)
      /\ SettlesJust(f, mine) /\ SettlesOnce(f) /\ FoldRuns(f, queue)
  BY BatchFolds DEF TypeInv
<1>2. f.steps \in Seq(StepSet(DOMAIN queue, Mailboxes, Flags)) /\ n \in Nat
  BY <1>1 DEF FoldsOver
<1>3. \A i \in mine : i \in Queued(r)
  BY DEF Due, Queued
<1>4. \A i \in Queued(r) : i \notin mine => Deferred(i)
  BY DEF Queued, Due, NotDueIsDeferred
<1>5. \A u \in StepsOf(r) : \E k \in 1 .. n :
         u = [target |-> r, op |-> f.steps[k].op, rows |-> f.steps[k].rows]
  BY <1>2 DEF StepsOf, Range
<1> HIDE DEF f, mine
<1>6. PICK k \in 1 .. n : s = [target |-> r, op |-> f.steps[k].op, rows |-> f.steps[k].rows]
  BY <1>5
<1>7. s.target = r /\ s.rows = f.steps[k].rows
  BY <1>6
<1>8. s.rows \subseteq Queued(r) \ f.obsolete
  BY <1>1, <1>3, <1>7 DEF SettlesJust, Settles, SettledBy, SettlesOnce
<1>9. \A i, j \in s.rows : Class(i) = Class(j)
  <2> TAKE i, j \in s.rows
  <2>1. f.steps[k].op.kind \in FlagKinds \cup MoveKinds
    <3>1. f.steps[k] \in StepSet(DOMAIN queue, Mailboxes, Flags)
      BY <1>2
    <3> QED
      BY <3>1 DEF StepSet, OpSet
  <2>2. StepRuns(f.steps[k], queue)
    BY <1>1 DEF FoldRuns, n
  <2> QED
    BY <1>7, <2>1, <2>2, KindsApart DEF StepRuns, Class, ClassOf
<1>10. \A h, j \in s.rows : \A i \in Queued(r) \ (s.rows \cup f.obsolete) :
          h < i /\ i < j => Deferred(i)
  <2> SUFFICES ASSUME NEW h \in s.rows, NEW j \in s.rows,
                      NEW i \in Queued(r) \ (s.rows \cup f.obsolete), h < i, i < j
               PROVE  i \notin mine
    BY <1>4
  <2>1. SUFFICES ASSUME i \in mine PROVE FALSE
    OBVIOUS
  <2>2. PICK l \in 1 .. n : i \in f.steps[l].rows
    BY <1>1, <2>1 DEF SettlesJust, Settles, SettledBy
  <2>3. l # k /\ l \in Nat /\ k \in Nat
    BY <1>2, <1>7, <2>2
  <2>4. i \in Nat /\ h \in Nat /\ j \in Nat
    BY <1>8, QueueIs DEF TypeInv, Queued
  <2>5. /\ l < k => i < h
        /\ k < l => j < i
    BY <1>1, <1>7, <2>2 DEF FoldRuns, InOrder
  <2> QED
    BY <2>3, <2>4, <2>5
<1>11. \A t \in StepsOf(r) : s # t => s.rows \cap t.rows = {}
  <2> SUFFICES ASSUME NEW t \in StepsOf(r), NEW i \in s.rows, i \in t.rows PROVE s = t
    OBVIOUS
  <2>1. PICK l \in 1 .. n : t = [target |-> r, op |-> f.steps[l].op, rows |-> f.steps[l].rows]
    BY <1>5
  <2>2. i \in f.steps[k].rows /\ i \in f.steps[l].rows
    BY <1>7, <2>1
  <2>3. l = k
    BY <1>1, <2>2 DEF SettlesOnce, SettledBy
  <2> QED
    BY <1>6, <2>1, <2>3
<1> QED
  BY <1>7, <1>8, <1>9, <1>10, <1>11 DEF f

-----------------------------------------------------------------------------
(* Every action keeps the invariant.                                       *)

\* An action that leaves the queue alone.
LEMMA SameQueueKeeps ==
    ASSUME UNCHANGED queue
    PROVE  /\ OneFlagEach => OneFlagEach'
           /\ NotDueIsDeferred => NotDueIsDeferred'
           /\ \A r : Queued(r)' = Queued(r)
           /\ \A r, f : Changers(r, f)' = Changers(r, f)
           /\ \A i : Deferred(i)' = Deferred(i) /\ Class(i)' = Class(i)
           /\ \A r : DeferredFirst(r) => DeferredFirst(r)'
<1>1. OneFlagEach => OneFlagEach'
  BY DEF OneFlagEach
<1>2. NotDueIsDeferred => NotDueIsDeferred'
  BY DEF NotDueIsDeferred, Pending, Deferred
<1>3. \A r : Queued(r)' = Queued(r)
  BY DEF Queued, Pending
<1>4. \A r, f : Changers(r, f)' = Changers(r, f)
  BY DEF Changers, Queued, Pending
<1>5. \A i : Deferred(i)' = Deferred(i) /\ Class(i)' = Class(i)
  BY DEF Deferred, Class
<1>6. \A r : DeferredFirst(r) => DeferredFirst(r)'
  BY DEF DeferredFirst, Queued, Pending, Deferred, Class
<1> QED
  BY <1>1, <1>2, <1>3, <1>4, <1>5, <1>6

LEMMA StartPassKeeps ==
    ASSUME TypeInv, ShowInv, StartPass
    PROVE  ShowInv'
<1>1. /\ pc = "idle" /\ plan' = UNION {StepsOf(r) : r \in Rows}
      /\ folded' = UNION {BatchOf(r).obsolete : r \in Rows}
      /\ pc' = "fold" /\ astray \subseteq astray'
      /\ queue' = queue /\ local' = local
  BY DEF StartPass, Lost
<1>2. folded = {} /\ OneFlagEach /\ NotDueIsDeferred /\ QueueType
  BY <1>1 DEF TypeInv, PassType, ShowInv
<1>3. \A r \in Rows : \A i \in BatchOf(r).obsolete : i \in Due /\ queue[i].target = r
  <2> TAKE r \in Rows
  <2>1. SettlesJust(BatchOf(r), {i \in Due : queue[i].target = r})
    BY <1>2, BatchFolds
  <2> QED
    BY <2>1 DEF SettlesJust, Settles
<1>4. \A r \in Rows : Queued(r) \cap folded' = Queued(r) \cap BatchOf(r).obsolete
  BY <1>1, <1>3 DEF Queued
<1>5. OneFlagEach' /\ NotDueIsDeferred'
  BY <1>1, <1>2, SameQueueKeeps
<1>6. PlanFits'
  <2>1. \A i \in folded' : Pending(i)'
    BY <1>1, <1>3 DEF Due, Pending
  <2>2. \A s \in plan' : StepKeeps(s)'
    <3> TAKE s \in plan'
    <3>1. PICK r \in Rows : s \in StepsOf(r)
      BY <1>1
    <3> DEFINE O == BatchOf(r).obsolete
    <3>2. /\ s.target = r /\ s.rows \subseteq Queued(r) \ O
          /\ \A i, j \in s.rows : Class(i) = Class(j)
          /\ \A h, j \in s.rows : \A i \in Queued(r) \ (s.rows \cup O) : h < i /\ i < j => Deferred(i)
      BY <1>2, <3>1, PlannedKeeps
    <3>3. /\ Queued(r)' = Queued(r)
          /\ \A i : Deferred(i)' = Deferred(i) /\ Class(i)' = Class(i)
      BY <1>1, SameQueueKeeps
    <3>4. Queued(r) \cap folded' = Queued(r) \cap O
      BY <1>4
    <3> HIDE DEF O
    <3>5. s.rows \subseteq Queued(r) \ folded'
      BY <3>2, <3>4
    <3>6. \A h, j \in s.rows : \A i \in Queued(r) \ (s.rows \cup folded') : h < i /\ i < j => Deferred(i)
      BY <3>2, <3>4
    <3> QED
      BY <3>2, <3>3, <3>5, <3>6 DEF StepKeeps
  <2>3. \A s, t \in plan' : s # t => s.rows \cap t.rows = {}
    <3> SUFFICES ASSUME NEW s \in plan', NEW t \in plan', s # t PROVE s.rows \cap t.rows = {}
      OBVIOUS
    <3>1. PICK r \in Rows : s \in StepsOf(r)
      BY <1>1
    <3>2. PICK u \in Rows : t \in StepsOf(u)
      BY <1>1
    <3>3. s.rows \subseteq Queued(r) /\ t.rows \subseteq Queued(u)
      BY <1>2, <3>1, <3>2, PlannedKeeps
    <3>4. CASE r = u
      BY <1>2, <3>1, <3>2, <3>4, PlannedKeeps
    <3>5. CASE r # u
      BY <3>3, <3>5 DEF Queued
    <3> QED
      BY <3>4, <3>5
  <2> QED
    BY <1>1, <2>1, <2>2, <2>3 DEF PlanFits, Busy
<1>7. RowsFit'
  <2> SUFFICES ASSUME NEW r \in Rows, MessageOf(r) \notin astray' PROVE RowFits(r)'
    BY DEF RowsFit, Rows, MessageOf
  <2>1. RowFits(r)
    BY <1>1 DEF ShowInv, RowsFit
  <2>2. DeferredFirst(r)'
    BY <1>1, <2>1, SameQueueKeeps DEF RowFits
  <2>3. ASSUME NEW f \in Flags PROVE FlagFits(r, f)'
    <3> DEFINE C == Changers(r, f)
    <3>1. Changers(r, f)' = C
      BY <1>1, SameQueueKeeps
    <3>2. Balanced(C, BatchOf(r).obsolete, queue)
      BY <1>2, <2>1, BatchBalances
    <3>3. C \ folded' = C \ BatchOf(r).obsolete
      BY <1>4 DEF Changers
    <3> HIDE DEF C
    <3>4. Balanced(C, folded', queue)
      BY <3>2, <3>3, BalancedSame
    <3>5. Shows(r, f)'
      BY <1>1, <2>1 DEF RowFits, FlagFits, Shows, Present, Changers, Queued, Pending
    <3> QED
      BY <1>1, <3>1, <3>4, <3>5 DEF FlagFits
  <2> QED
    BY <1>1, <2>2, <2>3 DEF RowFits, Busy
<1> QED
  BY <1>5, <1>6, <1>7 DEF ShowInv

\* The changes end with h, or with one of its kind.
EndsAs(C, q, h, i) == IsLast(C, h) \/ (IsLast(C, i) /\ q[h].op.kind = q[i].op.kind)

\* The least of the changes that cancelled out goes: of those that stand the last is
\* still the last, or of the kind of the last, for all that cancelled after it went before.
LEMMA LeastGoes ==
    ASSUME NEW C \in SUBSET Nat, NEW O \in SUBSET Nat, NEW q, Balanced(C, O, q),
           NEW j \in O, \A k \in O : j <= k
    PROVE  /\ Balanced(C \ {j}, O \ {j}, q)
           /\ \A i : IsLast(C \ {j}, i) => EndsAs(C, q, i, j)
<1> DEFINE S == C \ O
           D == C \cap O
           E == D \ {j}
           kind(i) == q[i].op.kind
<1>1. j \in Nat
  OBVIOUS
<1>2. Alternating(S, q) /\ ComesTo(S, D, q)
  BY DEF Balanced
<1>3. /\ (C \ {j}) \ (O \ {j}) = S /\ (C \ {j}) \cap (O \ {j}) = E
      /\ S \subseteq C /\ D \subseteq C /\ C = S \cup D /\ E \subseteq D /\ j \notin S
      /\ \A i \in C : i # j => i \in S \/ i \in E
  OBVIOUS
<1>4. \A k \in E : ~(k < j) /\ k \in Nat /\ j < k
  <2> TAKE k \in E
  <2>1. k \in Nat /\ j <= k /\ k # j
    OBVIOUS
  <2> QED
    BY <1>1, <2>1
<1>5. /\ j \in C => j \in D
      /\ \A k \in D : k = j \/ k \in E
  OBVIOUS
<1> HIDE DEF S, D, E
<1>6. Balanced(C \ {j}, O \ {j}, q)
  <2>1. ComesTo(S, E, q)
    <3> SUFFICES ASSUME NEW k \in E, NEW i \in S, LastBefore(S, i, k), EndsRun(S, E, k)
                 PROVE  kind(i) = kind(k)
      BY DEF ComesTo
    <3>1. EndsRun(S, D, k)
      <4> SUFFICES ASSUME NEW l \in D, l > k PROVE \E m \in S : k < m /\ m < l
        BY DEF EndsRun
      <4>1. l \in E
        BY <1>1, <1>4, <1>5
      <4> QED
        BY <4>1 DEF EndsRun
    <3> QED
      BY <1>2, <1>3, <3>1 DEF ComesTo
  <2> QED
    BY <1>2, <1>3, <2>1 DEF Balanced
<1>7. ASSUME NEW i, IsLast(C \ {j}, i)
      PROVE  EndsAs(C, q, i, j)
  <2>1. i \in C /\ i # j /\ \A k \in C : k # j => ~(i < k)
    BY <1>7 DEF IsLast
  <2>2. CASE j \notin C \/ ~(i < j)
    <3>1. IsLast(C, i)
      BY <2>1, <2>2 DEF IsLast
    <3> QED
      BY <3>1 DEF EndsAs
  <2>3. CASE j \in C /\ i < j
    <3>1. IsLast(C, j)
      <4>1. \A k \in C : ~(j < k)
        <5> TAKE k \in C
        <5>1. k \in Nat /\ i \in Nat /\ ~(j < j)
          BY <1>1, <2>1
        <5>2. k # j => ~(i < k)
          BY <2>1
        <5> QED
          BY <1>1, <2>3, <5>1, <5>2
      <4> QED
        BY <2>3, <4>1 DEF IsLast
    <3>2. \A k \in E : FALSE
      <4> TAKE k \in E
      <4>1. j < k /\ k \in C
        BY <1>3, <1>4
      <4> QED
        BY <3>1, <4>1 DEF IsLast
    <3>3. i \in S
      BY <1>3, <2>1, <3>2
    <3>4. LastBefore(S, i, j)
      <4>1. \A k \in S : ~(i < k /\ k < j)
        <5> TAKE k \in S
        <5>1. k \in C /\ k # j
          BY <1>3
        <5> QED
          BY <2>1, <5>1
      <4> QED
        BY <2>3, <3>3, <4>1 DEF LastBefore
    <3>5. EndsRun(S, D, j)
      <4>1. \A k \in D : k = j
        BY <1>5, <3>2
      <4>2. \A k \in D : ~(k > j)
        BY <1>1, <4>1
      <4> QED
        BY <4>2 DEF EndsRun
    <3>6. kind(i) = kind(j)
      BY <1>2, <1>5, <2>3, <3>3, <3>4, <3>5 DEF ComesTo
    <3> QED
      BY <3>1, <3>6 DEF EndsAs
  <2> QED
    BY <2>2, <2>3
<1> QED
  BY <1>6, <1>7

\* So the last that stands still shows.
LEMMA SettleFoldedShows ==
    ASSUME TypeInv, ShowInv, NEW r \in Rows, RowFits(r), NEW f \in Flags,
           NEW j \in folded, \A k \in folded : j <= k
    PROVE  LET C == Changers(r, f)
           IN  /\ Balanced(C \ {j}, folded \ {j}, queue)
               /\ Present(r) => \A i : IsLast(C \ {j}, i) =>
                     (f \in local[r].flags <=> queue[i].op.kind = "SetFlags")
<1> DEFINE C == Changers(r, f)
<1>1. QueueType /\ folded \in SUBSET Nat
  BY QueueIs DEF TypeInv, PassType
<1>2. C \in SUBSET Nat
  BY <1>1, QueueIs DEF Changers, Queued
<1>3. Balanced(C, folded, queue)
  BY DEF RowFits, FlagFits
<1>4. Shows(r, f)
  BY DEF RowFits, FlagFits
<1> HIDE DEF C
<1>5. /\ Balanced(C \ {j}, folded \ {j}, queue)
      /\ \A i : IsLast(C \ {j}, i) => EndsAs(C, queue, i, j)
  BY <1>1, <1>2, <1>3, LeastGoes
<1>6. ASSUME Present(r), NEW i, IsLast(C \ {j}, i)
      PROVE  f \in local[r].flags <=> queue[i].op.kind = "SetFlags"
  <2>1. IsLast(C, i) \/ (IsLast(C, j) /\ queue[i].op.kind = queue[j].op.kind)
    BY <1>5, <1>6 DEF EndsAs
  <2>2. \A k : IsLast(C, k) => (f \in local[r].flags <=> queue[k].op.kind = "SetFlags")
    BY <1>4, <1>6 DEF Shows, IsLast, C
  <2> QED
    BY <2>1, <2>2
<1> QED
  BY <1>5, <1>6 DEF C


\* What marking row i does to the invariant's terms.
Marks(i, x) ==
    /\ DOMAIN queue' = DOMAIN queue
    /\ OneFlagEach'
    /\ \A j \in DOMAIN queue : queue'[j].op = queue[j].op /\ Class(j)' = Class(j)
    /\ \A j \in DOMAIN queue : j # i => (Deferred(j)' <=> Deferred(j))
    /\ Deferred(i)' <=> x.attempts > 0
    /\ \A j \in DOMAIN queue : j # i => (Pending(j)' <=> Pending(j))
    /\ (x.state = "pending" /\ ~x.due => x.attempts > 0) => NotDueIsDeferred'
    /\ x.state = queue[i].state =>
          \A r : Queued(r)' = Queued(r) /\ \A f : Changers(r, f)' = Changers(r, f)
    /\ x.state # "pending" =>
          \A r : Queued(r)' = Queued(r) \ {i} /\ \A f : Changers(r, f)' = Changers(r, f) \ {i}

LEMMA MarkIs ==
    ASSUME QueueType, OneFlagEach, NotDueIsDeferred,
           NEW i \in DOMAIN queue, NEW x \in QueueRow, Same(queue[i], x),
           queue' = [queue EXCEPT ![i] = x]
    PROVE  Marks(i, x)
<1>1. /\ DOMAIN queue' = DOMAIN queue
      /\ \A j \in DOMAIN queue : j # i => queue'[j] = queue[j]
      /\ queue'[i] = x
  BY DEF QueueType
<1>2. x.op = queue[i].op /\ x.target = queue[i].target
  BY DEF Same
<1>3. \A j \in DOMAIN queue : queue'[j].op = queue[j].op /\ queue'[j].target = queue[j].target
  BY <1>1, <1>2
<1>4. \A j \in DOMAIN queue : Class(j)' = Class(j)
  BY <1>3 DEF Class
<1>5. OneFlagEach'
  BY <1>1, <1>3 DEF OneFlagEach
<1>6. /\ \A j \in DOMAIN queue : j # i => (Deferred(j)' <=> Deferred(j))
      /\ Deferred(i)' <=> x.attempts > 0
  BY <1>1 DEF Deferred
<1>7. \A j \in DOMAIN queue : j # i => (Pending(j)' <=> Pending(j))
  BY <1>1 DEF Pending
<1>8. (x.state = "pending" /\ ~x.due => x.attempts > 0) => NotDueIsDeferred'
  BY <1>1 DEF NotDueIsDeferred, Deferred, Pending
<1>9. ASSUME x.state = queue[i].state
      PROVE  \A r : Queued(r)' = Queued(r) /\ \A f : Changers(r, f)' = Changers(r, f)
  <2>1. \A j \in DOMAIN queue : Pending(j)' <=> Pending(j)
    BY <1>1, <1>9 DEF Pending
  <2>2. \A r : Queued(r)' = Queued(r)
    BY <1>1, <1>3, <2>1 DEF Queued
  <2>3. \A r, f : Changers(r, f)' = Changers(r, f)
    BY <1>3, <2>2 DEF Changers, Touches, Queued
  <2> QED
    BY <2>2, <2>3
<1>10. ASSUME x.state # "pending"
       PROVE  \A r : Queued(r)' = Queued(r) \ {i} /\ \A f : Changers(r, f)' = Changers(r, f) \ {i}
  <2>1. ~Pending(i)'
    BY <1>1, <1>10 DEF Pending
  <2>2. \A r : Queued(r)' = Queued(r) \ {i}
    BY <1>1, <1>3, <1>7, <2>1 DEF Queued
  <2>3. \A r, f : Changers(r, f)' = Changers(r, f) \ {i}
    BY <1>3, <2>2 DEF Changers, Touches, Queued
  <2> QED
    BY <2>2, <2>3
<1> QED
  BY <1>1, <1>3, <1>4, <1>5, <1>6, <1>7, <1>8, <1>9, <1>10 DEF Marks

LEMMA SettleFoldedKeeps ==
    ASSUME TypeInv, ShowInv, SettleFolded
    PROVE  ShowInv'
<1>1. /\ pc = "fold" /\ plan' = plan /\ step' = step /\ local' = local /\ astray' = astray
      /\ pc' \in {"fold", "step"}
  BY DEF SettleFolded, history
<1>2. CASE folded = {}
  <2>1. pc' = "step" /\ queue' = queue /\ folded' = folded
    BY <1>2 DEF SettleFolded
  <2>2. OneFlagEach' /\ NotDueIsDeferred'
    BY <2>1, SameQueueKeeps DEF ShowInv
  <2>3. PlanFits'
    BY <1>1, <1>2, <2>1 DEF ShowInv, PlanFits, StepKeeps, Queued, Pending, Deferred, Class, Busy
  <2>4. RowsFit'
    <3> SUFFICES ASSUME NEW r \in Rows, MessageOf(r) \notin astray PROVE RowFits(r)'
      BY <1>1 DEF RowsFit, Rows, MessageOf
    <3>1. RowFits(r)
      BY DEF ShowInv, RowsFit
    <3>2. DeferredFirst(r)' /\ \A f : Changers(r, f)' = Changers(r, f)
      BY <2>1, <3>1, SameQueueKeeps DEF RowFits
    <3>3. \A f \in Flags : FlagFits(r, f)'
      BY <1>1, <2>1, <3>1, <3>2 DEF RowFits, FlagFits, Shows, Present
    <3> QED
      BY <2>1, <3>2, <3>3 DEF RowFits, Busy
  <2> QED
    BY <2>2, <2>3, <2>4 DEF ShowInv
<1>3. CASE folded # {}
  <2>1. PICK j \in folded : j = Least(folded) /\ (\A k \in folded : j <= k) /\ j \in DOMAIN queue
    BY <1>3, LeastIs, QueueIs DEF TypeInv, PassType
  <2>2. PICK x : x = WithState(queue[j], "done")
    OBVIOUS
  <2>3. /\ queue' = [queue EXCEPT ![j] = x] /\ folded' = folded \ {j} /\ pc' = "fold"
        /\ x \in QueueRow /\ Same(queue[j], x) /\ x.state # "pending" /\ x.attempts = queue[j].attempts
    <3>1. queue[j] \in QueueRow
      BY <2>1, QueueIs DEF TypeInv
    <3>2. x \in QueueRow /\ Same(queue[j], x) /\ x.state = "done" /\ x.attempts = queue[j].attempts
      BY <2>2, <3>1, RowMarks DEF WithState, QueueRow
    <3>3. /\ queue' = [queue EXCEPT ![j].state = "done"]
          /\ folded' = folded \ {j} /\ pc' = "fold"
      BY <1>1, <1>3, <2>1 DEF SettleFolded
    <3>4. queue' = [queue EXCEPT ![j] = x]
      BY <2>2, <3>3 DEF WithState
    <3> QED
      BY <3>2, <3>3, <3>4
  <2>4. Marks(j, x)
    BY <2>1, <2>3, MarkIs DEF TypeInv, ShowInv
  <2>5. /\ OneFlagEach' /\ NotDueIsDeferred'
        /\ \A r : Queued(r)' = Queued(r) \ {j}
        /\ \A r, f : Changers(r, f)' = Changers(r, f) \ {j}
        /\ \A i \in DOMAIN queue : /\ Class(i)' = Class(i) /\ (Deferred(i)' <=> Deferred(i))
                                   /\ queue'[i].op = queue[i].op
                                   /\ i # j => (Pending(i)' <=> Pending(i))
    <3>1. Deferred(j)' <=> Deferred(j)
      BY <2>3, <2>4 DEF Marks, Deferred
    <3>2. OneFlagEach' /\ NotDueIsDeferred'
      BY <2>3, <2>4, Zenon DEF Marks
    <3>3. \A r : Queued(r)' = Queued(r) \ {j} /\ \A f : Changers(r, f)' = Changers(r, f) \ {j}
      BY <2>3, <2>4, Zenon DEF Marks
    <3>4. \A i \in DOMAIN queue : queue'[i].op = queue[i].op /\ Class(i)' = Class(i)
      BY <2>4, Zenon DEF Marks
    <3>5. \A i \in DOMAIN queue : i # j => /\ Deferred(i)' <=> Deferred(i)
                                           /\ Pending(i)' <=> Pending(i)
      BY <2>4, Zenon DEF Marks
    <3>6. \A i \in DOMAIN queue : Deferred(i)' <=> Deferred(i)
      BY <3>1, <3>5
    <3> QED
      BY <3>2, <3>3, <3>4, <3>5, <3>6, Zenon
  <2>6. PlanFits'
    <3>1. \A s \in plan' : StepKeeps(s)'
      <4> TAKE s \in plan'
      <4>1. StepKeeps(s)
        BY <1>1 DEF ShowInv, PlanFits
      <4>2. s.rows \subseteq Queued(s.target)' \ folded'
        BY <2>1, <2>3, <2>5, <4>1 DEF StepKeeps
      <4>3. \A i \in Queued(s.target) : i \in DOMAIN queue
        BY DEF Queued
      <4>4. \A h, i \in s.rows : Class(h)' = Class(i)'
        BY <2>5, <4>1, <4>3 DEF StepKeeps
      <4>5. Queued(s.target)' \ (s.rows \cup folded') \subseteq Queued(s.target) \ (s.rows \cup folded)
        BY <2>3, <2>5
      <4>6. \A h, k \in s.rows : \A i \in Queued(s.target)' \ (s.rows \cup folded') :
               h < i /\ i < k => Deferred(i)'
        BY <2>5, <4>1, <4>3, <4>5 DEF StepKeeps
      <4> QED
        BY <4>2, <4>4, <4>6 DEF StepKeeps
    <3>2. \A i \in folded' : Pending(i)'
      BY <2>3, <2>5 DEF ShowInv, PlanFits, TypeInv, PassType
    <3> QED
      BY <1>1, <2>3, <3>1, <3>2 DEF ShowInv, PlanFits, Busy
  <2>7. RowsFit'
    <3> SUFFICES ASSUME NEW r \in Rows, MessageOf(r) \notin astray PROVE RowFits(r)'
      BY <1>1 DEF RowsFit, Rows, MessageOf
    <3>1. RowFits(r)
      BY DEF ShowInv, RowsFit
    <3>2. DeferredFirst(r)'
      <4>1. \A i \in Queued(r)' : i \in Queued(r) /\ i \in DOMAIN queue
        BY <2>5 DEF Queued
      <4>2. \A i \in Queued(r)' : Class(i)' = Class(i) /\ (Deferred(i)' <=> Deferred(i))
        BY <2>5, <4>1
      <4> QED
        BY <3>1, <4>1, <4>2 DEF RowFits, DeferredFirst
    <3>3. ASSUME NEW f \in Flags PROVE FlagFits(r, f)'
      <4> DEFINE C == Changers(r, f)
      <4>1. /\ Balanced(C \ {j}, folded \ {j}, queue)
            /\ Present(r) => \A i : IsLast(C \ {j}, i) =>
                  (f \in local[r].flags <=> queue[i].op.kind = "SetFlags")
        BY <2>1, <3>1, SettleFoldedShows
      <4>2. \A i \in C \ {j} : queue'[i].op = queue[i].op
        BY <2>5 DEF Changers, Queued
      <4>3. Changers(r, f)' = C \ {j}
        BY <2>5
      <4> HIDE DEF C
      <4>4. Balanced(C \ {j}, folded \ {j}, queue')
        BY <4>1, <4>2, BalancedSame
      <4>5. Shows(r, f)'
        BY <1>1, <4>1, <4>2, <4>3 DEF Shows, Present
      <4> QED
        BY <2>3, <4>3, <4>4, <4>5 DEF FlagFits
    <3> QED
      BY <2>3, <3>2, <3>3 DEF RowFits, Busy
  <2> QED
    BY <2>5, <2>6, <2>7 DEF ShowInv
<1> QED
  BY <1>2, <1>3

\* What marking a row leaves of the plan.
LEMMA MarkedPlan ==
    ASSUME TypeInv, ShowInv, NEW i \in DOMAIN queue, NEW x, Marks(i, x),
           x.attempts > 0 \/ x.attempts = queue[i].attempts,
           x.state = queue[i].state \/ (x.state # "pending" /\ \A s \in plan' : i \notin s.rows),
           folded = {}, folded' = {}, plan' \subseteq plan
    PROVE  /\ \A s \in plan' : StepKeeps(s)'
           /\ \A j \in DOMAIN queue : Deferred(j) => Deferred(j)'
           /\ \A r : Queued(r)' \subseteq Queued(r)
<1>1. \A j \in DOMAIN queue : Deferred(j) => Deferred(j)'
  <2> TAKE j \in DOMAIN queue
  <2>1. CASE j = i
    <3>1. Deferred(i)' <=> x.attempts > 0
      BY Zenon DEF Marks
    <3>2. Deferred(i) => Deferred(i)'
      BY <3>1 DEF Deferred
    <3> QED
      BY <2>1, <3>2
  <2>2. CASE j # i
    BY <2>2, Zenon DEF Marks
  <2> QED
    BY <2>1, <2>2
<1>2. \A r : Queued(r)' = Queued(r) \/ (x.state # "pending" /\ Queued(r)' = Queued(r) \ {i})
  <2> TAKE r
  <2>1. x.state = queue[i].state => Queued(r)' = Queued(r)
    BY Zenon DEF Marks
  <2>2. x.state # "pending" => Queued(r)' = Queued(r) \ {i}
    BY Zenon DEF Marks
  <2> QED
    BY <2>1, <2>2
<1>3. \A r : Queued(r)' \subseteq Queued(r)
  BY <1>2
<1>4. ASSUME NEW s \in plan' PROVE StepKeeps(s)'
  <2>1. StepKeeps(s)
    BY DEF ShowInv, PlanFits
  <2>2. \A j \in Queued(s.target) : j \in DOMAIN queue /\ Class(j)' = Class(j)
    <3>1. \A j \in DOMAIN queue : Class(j)' = Class(j)
      BY Zenon DEF Marks
    <3> QED
      BY <3>1 DEF Queued
  <2>3. s.rows \subseteq Queued(s.target)
    BY <2>1 DEF StepKeeps
  <2>4. s.rows \subseteq Queued(s.target)'
    <3>1. CASE Queued(s.target)' = Queued(s.target)
      BY <2>3, <3>1
    <3>2. CASE Queued(s.target)' # Queued(s.target)
      <4>1. x.state # "pending" /\ Queued(s.target)' = Queued(s.target) \ {i}
        BY <1>2, <3>2
      <4>2. i \notin s.rows
        <5>1. x.state = queue[i].state => Queued(s.target)' = Queued(s.target)
          BY Zenon DEF Marks
        <5> QED
          BY <3>2, <5>1
      <4> QED
        BY <2>3, <4>1, <4>2
    <3> QED
      BY <3>1, <3>2
  <2>5. \A h, j \in s.rows : Class(h)' = Class(j)'
    BY <2>1, <2>2, <2>3 DEF StepKeeps
  <2>6. \A h, k \in s.rows : \A j \in Queued(s.target)' \ (s.rows \cup folded') :
           h < j /\ j < k => Deferred(j)'
    <3> SUFFICES ASSUME NEW h \in s.rows, NEW k \in s.rows,
                        NEW j \in Queued(s.target)' \ s.rows, h < j, j < k
                 PROVE  Deferred(j)'
      OBVIOUS
    <3>1. j \in Queued(s.target) \ (s.rows \cup folded) /\ j \in DOMAIN queue
      BY <1>3, <2>2
    <3>2. Deferred(j)
      BY <2>1, <3>1 DEF StepKeeps
    <3> QED
      BY <1>1, <3>1, <3>2
  <2> QED
    BY <2>4, <2>5, <2>6 DEF StepKeeps
<1> QED
  BY <1>1, <1>3, <1>4

\* A change goes, and those before it are all of its kind.
LEMMA FirstGoes ==
    ASSUME NEW C \in SUBSET Nat, NEW q, Alternating(C, q), NEW i \in C,
           \A h \in C : h < i => q[h].op.kind = q[i].op.kind
    PROVE  Alternating(C \ {i}, q) /\ \A h : IsLast(C \ {i}, h) => EndsAs(C, q, h, i)
<1> DEFINE S == C \ {i}
<1>1. \A k : k \in S <=> k \in C /\ k # i
  OBVIOUS
<1> HIDE DEF S
<1>2. ASSUME NEW a \in S, NEW b \in S, LastBefore(S, a, b)
      PROVE  q[a].op.kind # q[b].op.kind
  <2>1. a \in C /\ b \in C /\ a \in Nat /\ b \in Nat /\ i \in Nat /\ a < b
    BY <1>1, <1>2 DEF LastBefore
  <2>2. ~(a < i /\ i < b)
    <3> SUFFICES ASSUME a < i, i < b PROVE FALSE
      OBVIOUS
    <3>1. \A k \in C : ~(a < k /\ k < i)
      <4> TAKE k \in C
      <4>1. k \in Nat /\ (k < i => k \in S)
        BY <1>1
      <4> QED
        BY <1>2, <2>1, <4>1 DEF LastBefore
    <3>2. LastBefore(C, a, i)
      BY <2>1, <3>1 DEF LastBefore
    <3> QED
      BY <2>1, <3>2 DEF Alternating
  <2>3. LastBefore(C, a, b)
    <3>1. \A k \in C : ~(a < k /\ k < b)
      BY <1>1, <1>2, <2>2 DEF LastBefore
    <3> QED
      BY <2>1, <3>1 DEF LastBefore
  <2> QED
    BY <2>1, <2>3 DEF Alternating
<1>3. ASSUME NEW h, IsLast(S, h)
      PROVE  EndsAs(C, q, h, i)
  <2>1. h \in C /\ h \in Nat /\ i \in Nat /\ h # i
    BY <1>1, <1>3 DEF IsLast
  <2>2. CASE h < i
    <3>1. \A k \in C : ~(i < k)
      <4> TAKE k \in C
      <4>1. k \in Nat /\ (i < k => k \in S)
        BY <1>1, <2>1
      <4> QED
        BY <1>3, <2>1, <2>2, <4>1 DEF IsLast
    <3> QED
      BY <2>1, <2>2, <3>1 DEF IsLast, EndsAs
  <2>3. CASE ~(h < i)
    <3>1. \A k \in C : ~(h < k)
      BY <1>1, <1>3, <2>3 DEF IsLast
    <3> QED
      BY <2>1, <3>1 DEF IsLast, EndsAs
  <2> QED
    BY <2>2, <2>3
<1>4. Alternating(S, q)
  BY <1>2 DEF Alternating
<1> QED
  BY <1>3, <1>4 DEF S

LEMMA BalancedAlone ==
    ASSUME NEW C, NEW q
    PROVE  Balanced(C, {}, q) <=> Alternating(C, q)
<1>1. C \ {} = C /\ C \cap {} = {}
  OBVIOUS
<1>2. ComesTo(C, {}, q)
  BY DEF ComesTo
<1> QED
  BY <1>1, <1>2 DEF Balanced

LEMMA SettleRowKeeps ==
    ASSUME TypeInv, ShowInv, SettleRow
    PROVE  ShowInv'
<1>1. /\ pc = "settle" /\ plan' = plan /\ folded' = folded /\ local' = local /\ astray' = astray
      /\ queue' = [queue EXCEPT ![Least(step.rows)] = Settled(@)]
      /\ outcome \in Outcomes /\ StepFits(step, queue)
  BY DEF SettleRow, history, TypeInv, PassType, Busy
<1>2. folded = {} /\ QueueType /\ OneFlagEach /\ NotDueIsDeferred
  BY <1>1 DEF ShowInv, PlanFits, TypeInv
<1>3. PICK i \in step.rows : i = Least(step.rows) /\ \A k \in step.rows : i <= k
  BY <1>1, <1>2, QueueIs, LeastIs DEF StepFits
<1>4. i \in DOMAIN queue /\ queue[i] \in QueueRow /\ queue[i].target = step.target
  BY <1>1, <1>2, <1>3, QueueIs DEF StepFits
<1>5. PICK x : x = Settled(queue[i])
  OBVIOUS
<1>6. x \in QueueRow /\ Same(queue[i], x) /\ queue' = [queue EXCEPT ![i] = x]
  BY <1>1, <1>3, <1>4, <1>5, SettledRow
<1>7. \/ outcome = "Retry" /\ x.state = queue[i].state /\ x.attempts > 0
      \/ /\ outcome # "Retry" /\ x.state # "pending"
         /\ x.attempts > 0 \/ x.attempts = queue[i].attempts
  <2>1. queue[i].attempts \in Nat /\ queue[i].attempts + 1 > 0
    BY <1>4 DEF QueueRow
  <2>2. CASE outcome = "Retry"
    BY <1>4, <1>5, <2>1, <2>2 DEF Settled, QueueRow
  <2>3. CASE outcome = "Failed"
    BY <1>4, <1>5, <2>1, <2>3 DEF Settled, QueueRow
  <2>4. CASE outcome \notin {"Retry", "Failed"}
    BY <1>4, <1>5, <2>4 DEF Settled, QueueRow
  <2> QED
    BY <2>2, <2>3, <2>4
<1>8. Marks(i, x)
  BY <1>2, <1>4, <1>6, MarkIs
<1>9. OneFlagEach' /\ NotDueIsDeferred'
  <2>1. x.state = "pending" /\ ~x.due => x.attempts > 0
    BY <1>7
  <2> QED
    BY <1>8, <2>1, Zenon DEF Marks
<1>10. \A s \in plan : i \notin s.rows
  BY <1>1, <1>3 DEF ShowInv, PlanFits, Busy
<1>11. /\ \A s \in plan' : StepKeeps(s)'
       /\ \A j \in DOMAIN queue : Deferred(j) => Deferred(j)'
       /\ \A r : Queued(r)' \subseteq Queued(r)
  <2>1. /\ x.attempts > 0 \/ x.attempts = queue[i].attempts
        /\ x.state = queue[i].state \/ (x.state # "pending" /\ \A s \in plan' : i \notin s.rows)
    BY <1>1, <1>7, <1>10
  <2> QED
    BY <1>1, <1>2, <1>4, <1>8, <2>1, MarkedPlan
<1>12. /\ pc' \in {"step", "settle"}
       /\ pc' = "settle" => step' = [step EXCEPT !.rows = step.rows \ {i}]
  BY <1>1, <1>3 DEF SettleRow
<1>13. pc' = "settle" => step'.rows = step.rows \ {i} /\ step'.target = step.target
  BY <1>1, <1>12 DEF TypeInv, PassType, Steps, Busy, StepFits, NoStep
<1>14. PlanFits'
  BY <1>1, <1>2, <1>11, <1>12, <1>13 DEF ShowInv, PlanFits, Busy
<1>15. RowsFit'
  <2> SUFFICES ASSUME NEW r \in Rows, MessageOf(r) \notin astray PROVE RowFits(r)'
    BY <1>1 DEF RowsFit, Rows, MessageOf
  <2>1. RowFits(r)
    BY DEF ShowInv, RowsFit
  <2>2. step.target = r => RunsFirst(r)
    BY <1>1, <2>1 DEF RowFits, Busy
  <2>3. Queued(r) \in SUBSET Nat /\ Queued(r) \subseteq DOMAIN queue
    BY <1>2, QueueIs DEF Queued
  <2>4. \A j \in DOMAIN queue : queue'[j].op = queue[j].op /\ Class(j)' = Class(j)
    BY <1>8, Zenon DEF Marks
  <2>5. \A j \in DOMAIN queue : j # i => (Deferred(j)' <=> Deferred(j))
    BY <1>8, Zenon DEF Marks
  <2>6. i \in Queued(r) => step.target = r
    BY <1>4 DEF Queued
  <2>7. /\ outcome = "Retry" => Queued(r)' = Queued(r) /\ \A f : Changers(r, f)' = Changers(r, f)
        /\ outcome # "Retry" => Queued(r)' = Queued(r) \ {i}
                                /\ \A f : Changers(r, f)' = Changers(r, f) \ {i}
    <3>1. outcome = "Retry" => x.state = queue[i].state
      BY <1>7
    <3>2. outcome # "Retry" => x.state # "pending"
      BY <1>7
    <3> QED
      BY <1>8, <3>1, <3>2, Zenon DEF Marks
  <2>8. \A j \in step.rows : j # i => i < j
    <3> TAKE j \in step.rows
    <3>1. j \in Nat /\ i \in Nat /\ i <= j
      BY <1>1, <1>2, <1>3, QueueIs DEF StepFits
    <3> QED
      BY <3>1
  <2>9. i \in Queued(r) => \A j \in Queued(r) : j < i => Deferred(j)
    <3> SUFFICES ASSUME i \in Queued(r), NEW j \in Queued(r), j < i PROVE Deferred(j)
      OBVIOUS
    <3>1. j \notin step.rows
      BY <1>3, <2>3, <2>8
    <3> QED
      BY <1>3, <2>2, <2>6, <3>1 DEF RunsFirst
  <2>10. i \in Queued(r) => \A j \in Queued(r) : Deferred(j) => Class(j) = Class(i)
    BY <1>3, <2>2, <2>6 DEF RunsFirst
  <2>11. DeferredFirst(r)'
    <3> SUFFICES ASSUME NEW a \in Queued(r)', NEW b \in Queued(r)', Deferred(b)'
                 PROVE  (a < b => Deferred(a)') /\ (Deferred(a)' => Class(a)' = Class(b)')
      BY DEF DeferredFirst
    <3>1. a \in Queued(r) /\ b \in Queued(r) /\ a \in DOMAIN queue /\ b \in DOMAIN queue
      BY <1>11, <2>3
    <3>2. Class(a)' = Class(a) /\ Class(b)' = Class(b)
      BY <2>4, <3>1
    <3>3. a # i => (Deferred(a)' <=> Deferred(a))
      BY <2>5, <3>1
    <3>4. b # i => Deferred(b)
      BY <2>5, <3>1
    <3>5. Deferred(a) => Deferred(a)'
      BY <1>11, <3>1
    <3>6. CASE b = i
      <4>1. a < b => Deferred(a)'
        BY <2>9, <3>1, <3>5, <3>6
      <4>2. a # i => (Deferred(a)' => Class(a) = Class(b))
        BY <2>10, <3>1, <3>3, <3>6
      <4> QED
        BY <3>2, <3>6, <4>1, <4>2
    <3>7. CASE b # i
      <4>1. a < b => Deferred(a)
        BY <2>1, <3>1, <3>4, <3>7 DEF RowFits, DeferredFirst
      <4>2. a # i => (Deferred(a)' => Class(a) = Class(b))
        BY <2>1, <3>1, <3>3, <3>4, <3>7 DEF RowFits, DeferredFirst
      <4>3. a = i => Class(a) = Class(b)
        BY <2>10, <3>1, <3>4, <3>7
      <4> QED
        BY <3>2, <3>5, <4>1, <4>2, <4>3
    <3> QED
      BY <3>6, <3>7
  <2>12. ASSUME pc' \in Busy, step'.target = r PROVE RunsFirst(r)'
    <3>1. pc' = "settle"
      BY <1>12, <2>12 DEF Busy
    <3>2. step'.rows = step.rows \ {i} /\ step.target = r /\ RunsFirst(r)
      BY <1>13, <2>2, <2>12, <3>1
    <3>3. step'.rows \subseteq Queued(r)'
      BY <2>7, <3>2 DEF RunsFirst
    <3>4. \A j \in step'.rows : \A k \in Queued(r)' \ step'.rows : k < j => Deferred(k)'
      <4> SUFFICES ASSUME NEW j \in step'.rows, NEW k \in Queued(r)' \ step'.rows, k < j
                   PROVE  Deferred(k)'
        OBVIOUS
      <4>1. k \in Queued(r) /\ k \in DOMAIN queue
        BY <1>11, <2>3
      <4>2. CASE k = i
        <5>1. outcome = "Retry"
          BY <2>7, <4>2
        <5>2. x.attempts > 0
          BY <1>7, <5>1
        <5>3. Deferred(i)' <=> x.attempts > 0
          BY <1>8, Zenon DEF Marks
        <5> QED
          BY <4>2, <5>2, <5>3
      <4>3. CASE k # i
        <5>1. Deferred(k)
          BY <3>2, <4>1, <4>3 DEF RunsFirst
        <5> QED
          BY <1>11, <4>1, <5>1
      <4> QED
        BY <4>2, <4>3
    <3>5. \A j \in step'.rows : \A k \in Queued(r)' :
             k \in step'.rows \/ Deferred(k)' => Class(k)' = Class(j)'
      <4> SUFFICES ASSUME NEW j \in step'.rows, NEW k \in Queued(r)',
                          k \in step'.rows \/ Deferred(k)'
                   PROVE  Class(k)' = Class(j)'
        OBVIOUS
      <4>1. j \in step.rows /\ j \in Queued(r) /\ k \in Queued(r)
        BY <1>11, <3>2 DEF RunsFirst
      <4>2. j \in DOMAIN queue /\ k \in DOMAIN queue
        BY <2>3, <4>1
      <4>3. k \in step.rows \/ Deferred(k)
        BY <1>3, <2>5, <3>2, <4>2
      <4>4. Class(k) = Class(j)
        BY <3>2, <4>1, <4>3 DEF RunsFirst
      <4> QED
        BY <2>4, <4>2, <4>4
    <3> QED
      BY <3>3, <3>4, <3>5 DEF RunsFirst
  <2>13. ASSUME NEW f \in Flags PROVE FlagFits(r, f)'
    <3> DEFINE C == Changers(r, f)
    <3>1. C \subseteq Queued(r) /\ \A k \in C : queue[k].op.kind \in FlagKinds
      BY DEF Changers, Touches
    <3>2. C \in SUBSET Nat /\ \A k \in C : queue'[k].op = queue[k].op
      BY <2>3, <2>4, <3>1
    <3>3. Alternating(C, queue) /\ Shows(r, f)
      BY <1>2, <2>1, BalancedAlone DEF RowFits, FlagFits
    <3>4. /\ outcome = "Retry" => Changers(r, f)' = C
          /\ outcome # "Retry" => Changers(r, f)' = C \ {i}
      BY <2>7
    <3>5. CASE Changers(r, f)' = C
      <4> HIDE DEF C
      <4>1. Balanced(C, {}, queue')
        BY <3>2, <3>3, BalancedAlone, BalancedSame
      <4>2. Shows(r, f)'
        BY <1>1, <3>2, <3>3, <3>5 DEF Shows, Present, IsLast, C
      <4> QED
        BY <1>1, <1>2, <3>5, <4>1, <4>2 DEF FlagFits
    <3>6. CASE Changers(r, f)' # C
      <4>1. Changers(r, f)' = C \ {i} /\ i \in C /\ i \in Queued(r)
        BY <3>1, <3>4, <3>6
      <4>2. \A h \in C : h < i => queue[h].op.kind = queue[i].op.kind
        <5> TAKE h \in C
        <5> HAVE h < i
        <5>1. Class(h) = Class(i)
          BY <2>9, <2>10, <3>1, <4>1
        <5>2. queue[h].op.kind \notin MoveKinds /\ queue[i].op.kind \notin MoveKinds
          BY <3>1, <4>1, KindsApart
        <5> QED
          BY <5>1, <5>2 DEF Class, ClassOf
      <4> HIDE DEF C
      <4>3. /\ Alternating(C \ {i}, queue)
            /\ \A h : IsLast(C \ {i}, h) => EndsAs(C, queue, h, i)
        <5>1. C \in SUBSET Nat /\ Alternating(C, queue) /\ i \in C
          BY <3>2, <3>3, <4>1
        <5> QED
          BY <4>2, <5>1, FirstGoes, Zenon
      <4>4. \A k \in C \ {i} : queue'[k].op = queue[k].op
        BY <3>2
      <4>5. Balanced(C \ {i}, {}, queue')
        BY <4>3, <4>4, BalancedAlone, BalancedSame
      <4>6. Shows(r, f)'
        <5> SUFFICES ASSUME Present(r)', NEW h \in C \ {i}, IsLast(C \ {i}, h)
                     PROVE  f \in local'[r].flags <=> queue'[h].op.kind = "SetFlags"
          BY <4>1 DEF Shows
        <5>1. Present(r)
          BY <1>1 DEF Present
        <5>2. \A k \in C : IsLast(C, k) => (f \in local[r].flags <=> queue[k].op.kind = "SetFlags")
          BY <3>3, <5>1 DEF Shows, C
        <5>3. f \in local[r].flags <=> queue[h].op.kind = "SetFlags"
          BY <4>1, <4>3, <5>2 DEF IsLast, EndsAs
        <5> QED
          BY <1>1, <4>4, <5>3
      <4> QED
        BY <1>1, <1>2, <4>1, <4>5, <4>6 DEF FlagFits
    <3> QED
      BY <3>5, <3>6
  <2> QED
    BY <2>11, <2>12, <2>13 DEF RowFits
<1> QED
  BY <1>9, <1>14, <1>15 DEF ShowInv

\* A step that leaves the queue alone, and plans nothing new.
LEMMA StillKeeps ==
    ASSUME ShowInv, queue' = queue, folded' = folded, plan' \subseteq plan,
           astray \subseteq astray',
           pc' # "fold" => folded = {},
           pc' \in Busy => \A s \in plan' : s.rows \cap step'.rows = {},
           \A r \in Rows : MessageOf(r) \notin astray' =>
              (pc' \in Busy /\ step'.target = r => RunsFirst(r)'),
           \A r \in Rows : MessageOf(r) \notin astray' => \A f \in Flags : Shows(r, f)'
    PROVE  ShowInv'
<1>1. OneFlagEach' /\ NotDueIsDeferred'
  BY SameQueueKeeps DEF ShowInv
<1>2. PlanFits'
  <2>1. \A s \in plan' : StepKeeps(s)'
    <3> TAKE s \in plan'
    <3>1. StepKeeps(s)
      BY DEF ShowInv, PlanFits
    <3> QED
      BY <3>1 DEF StepKeeps, Queued, Pending, Deferred, Class
  <2>2. \A i \in folded' : Pending(i)'
    BY DEF ShowInv, PlanFits, Pending
  <2>3. \A s, t \in plan' : s # t => s.rows \cap t.rows = {}
    BY DEF ShowInv, PlanFits
  <2> QED
    BY <2>1, <2>2, <2>3 DEF PlanFits, Busy
<1>3. RowsFit'
  <2> SUFFICES ASSUME NEW r \in Rows, MessageOf(r) \notin astray' PROVE RowFits(r)'
    BY DEF RowsFit, Rows, MessageOf
  <2>1. RowFits(r)
    BY DEF ShowInv, RowsFit
  <2>2. DeferredFirst(r)' /\ \A f : Changers(r, f)' = Changers(r, f)
    BY <2>1, SameQueueKeeps DEF RowFits
  <2>3. \A f \in Flags : FlagFits(r, f)'
    BY <2>1, <2>2 DEF RowFits, FlagFits
  <2>4. (pc \in Busy /\ step.target = r => RunsFirst(r))'
    BY DEF Busy
  <2> QED
    BY <2>2, <2>3, <2>4 DEF RowFits
<1> QED
  BY <1>1, <1>2, <1>3 DEF ShowInv

\* A row that keeps its flags, or goes, shows no less.
LEMMA ShowsStill ==
    ASSUME ShowInv, queue' = queue, astray \subseteq astray',
           \A r \in Rows : Present(r)' => Present(r) /\ local'[r].flags = local[r].flags
    PROVE  \A r \in Rows : MessageOf(r) \notin astray' => \A f \in Flags : Shows(r, f)'
<1> SUFFICES ASSUME NEW r \in Rows, MessageOf(r) \notin astray', NEW f \in Flags
             PROVE  Shows(r, f)'
  OBVIOUS
<1>1. Shows(r, f)
  BY DEF ShowInv, RowsFit, RowFits, FlagFits
<1>2. Changers(r, f)' = Changers(r, f)
  BY SameQueueKeeps
<1> QED
  BY <1>1, <1>2 DEF Shows

LEMMA LocalStill ==
    ASSUME local' = local
    PROVE  \A r \in Rows : Present(r)' => Present(r) /\ local'[r].flags = local[r].flags
BY DEF Present

LEMMA EndPassKeeps ==
    ASSUME ShowInv, EndPass
    PROVE  ShowInv'
<1>1. /\ queue' = queue /\ local' = local /\ astray' = astray /\ plan' = {} /\ folded' = {}
      /\ pc = "step" /\ pc' = "idle"
  BY DEF EndPass, StopPass, history
<1>2. folded = {}
  BY <1>1 DEF ShowInv, PlanFits
<1>3. \A r \in Rows : MessageOf(r) \notin astray' => \A f \in Flags : Shows(r, f)'
  BY <1>1, LocalStill, ShowsStill
<1>4. pc' \notin Busy
  BY <1>1 DEF Busy
<1>5. folded' = folded /\ plan' \subseteq plan /\ astray \subseteq astray'
  BY <1>1, <1>2
<1> QED
  BY <1>1, <1>2, <1>3, <1>4, <1>5, StillKeeps

\* A step comes up that overtakes nothing: what is before its rows is deferred.
LEMMA ResolveRunsFirst ==
    ASSUME TypeInv, ShowInv, folded = {}, NEW s \in plan, ~Overtakes(s),
           DeferredFirst(s.target)
    PROVE  /\ s.rows \subseteq Queued(s.target)
           /\ \A j \in s.rows : \A i \in Queued(s.target) \ s.rows : i < j => Deferred(i)
           /\ \A j \in s.rows : \A i \in Queued(s.target) :
                 i \in s.rows \/ Deferred(i) => Class(i) = Class(j)
<1> DEFINE Q == Queued(s.target)
           h == Head0(s)
<1>1. StepKeeps(s) /\ StepFits(s, queue)
  BY DEF ShowInv, PlanFits, TypeInv, PassType
<1>2. Q \in SUBSET Nat
  BY QueueIs DEF TypeInv, Queued
<1>3. s.rows \subseteq Q
  BY <1>1 DEF StepKeeps
<1>4. h \in s.rows /\ h \in Q /\ \A j \in s.rows : h <= j
  <2>1. s.rows \in SUBSET Nat /\ s.rows # {}
    BY <1>1, <1>2, <1>3 DEF StepFits
  <2> QED
    BY <1>3, <2>1, LeastIs DEF Head0
<1>5. \A i \in Q \ s.rows : h < i
  <2> TAKE i \in Q \ s.rows
  <2>1. ~(i < h)
    BY DEF Overtakes
  <2>2. i \in Nat /\ h \in Nat /\ i # h
    BY <1>2, <1>4
  <2> QED
    BY <2>1, <2>2
<1>6. \A j \in s.rows : \A i \in Q \ s.rows : i < j => Deferred(i)
  BY <1>1, <1>4, <1>5 DEF StepKeeps
<1>7. \A j \in s.rows : \A i \in Q : i \in s.rows \/ Deferred(i) => Class(i) = Class(j)
  <2> SUFFICES ASSUME NEW j \in s.rows, NEW i \in Q, i \in s.rows \/ Deferred(i)
               PROVE  Class(i) = Class(j)
    OBVIOUS
  <2>1. CASE i \in s.rows
    BY <1>1, <2>1 DEF StepKeeps
  <2>2. CASE i \notin s.rows
    <3>1. Deferred(i) /\ h < i
      BY <1>5, <2>2
    <3>2. Deferred(h)
      BY <1>4, <3>1 DEF DeferredFirst
    <3>3. Class(h) = Class(i)
      BY <1>4, <3>1, <3>2 DEF DeferredFirst
    <3>4. Class(h) = Class(j)
      BY <1>1, <1>4 DEF StepKeeps
    <3> QED
      BY <3>3, <3>4
  <2> QED
    BY <2>1, <2>2
<1> QED
  BY <1>3, <1>6, <1>7

LEMMA ResolveKeeps ==
    ASSUME TypeInv, ShowInv, Resolve
    PROVE  ShowInv'
<1>1. PICK s : s = NextStep
  OBVIOUS
<1>2. /\ pc = "step" /\ plan # {} /\ plan' = plan \ {s} /\ step' = s
      /\ queue' = queue /\ local' = local /\ folded' = folded
      /\ pc' \in {"ready", "settle"}
      /\ \/ astray' = astray \cup {MessageOf(s.target)}
         \/ ~Overtakes(s)
      /\ astray \subseteq astray'
  BY <1>1 DEF Resolve, Lost, Decide
<1>3. folded = {}
  BY <1>2 DEF ShowInv, PlanFits
<1>4. s \in plan
  BY <1>1, <1>2, NextStepIs DEF TypeInv, PassType
<1>5. \A r \in Rows : MessageOf(r) \notin astray' => \A f \in Flags : Shows(r, f)'
  BY <1>2, LocalStill, ShowsStill
<1>6. \A t \in plan' : t.rows \cap step'.rows = {}
  BY <1>2, <1>4 DEF ShowInv, PlanFits
<1>7. ASSUME NEW r \in Rows, MessageOf(r) \notin astray', step'.target = r
      PROVE  RunsFirst(r)'
  <2>1. s.target = r /\ MessageOf(r) \notin astray /\ ~Overtakes(s)
    BY <1>2, <1>7
  <2>2. DeferredFirst(s.target)
    BY <2>1 DEF ShowInv, RowsFit, RowFits
  <2>3. /\ s.rows \subseteq Queued(s.target)
        /\ \A j \in s.rows : \A i \in Queued(s.target) \ s.rows : i < j => Deferred(i)
        /\ \A j \in s.rows : \A i \in Queued(s.target) :
              i \in s.rows \/ Deferred(i) => Class(i) = Class(j)
    BY <1>3, <1>4, <2>1, <2>2, ResolveRunsFirst
  <2>4. Queued(r)' = Queued(r) /\ \A i : Deferred(i)' = Deferred(i) /\ Class(i)' = Class(i)
    BY <1>2, SameQueueKeeps
  <2> QED
    BY <1>2, <2>1, <2>3, <2>4 DEF RunsFirst
<1>8. plan' \subseteq plan
  BY <1>2
<1> QED
  BY <1>2, <1>3, <1>5, <1>6, <1>7, <1>8, StillKeeps

\* The step being run goes on.
LEMMA BusyKeeps ==
    ASSUME ShowInv, pc \in Busy, pc' \in Busy, UNCHANGED <<queue, plan, folded, step>>,
           astray \subseteq astray',
           \A r \in Rows : Present(r)' => Present(r) /\ local'[r].flags = local[r].flags
    PROVE  ShowInv'
<1>1. pc' # "fold" /\ folded = {} /\ \A s \in plan : s.rows \cap step.rows = {}
  BY DEF ShowInv, PlanFits, Busy
<1>2. \A r \in Rows : MessageOf(r) \notin astray' => \A f \in Flags : Shows(r, f)'
  BY ShowsStill
<1>3. \A r \in Rows : MessageOf(r) \notin astray' =>
         (pc' \in Busy /\ step'.target = r => RunsFirst(r)')
  <2> SUFFICES ASSUME NEW r \in Rows, MessageOf(r) \notin astray', step.target = r
               PROVE  RunsFirst(r)'
    OBVIOUS
  <2>1. RunsFirst(r)
    BY DEF ShowInv, RowsFit, RowFits
  <2>2. Queued(r)' = Queued(r) /\ \A i : Deferred(i)' = Deferred(i) /\ Class(i)' = Class(i)
    BY SameQueueKeeps
  <2> QED
    BY <2>1, <2>2 DEF RunsFirst
<1> QED
  BY <1>1, <1>2, <1>3, StillKeeps

LEMMA ServeKeeps ==
    ASSUME ShowInv, ServeActions
    PROVE  ShowInv'
<1>1. /\ pc = "ready" /\ pc' \in {"settle", "adopt"}
      /\ UNCHANGED <<queue, plan, folded, step, local>> /\ astray \subseteq astray'
  BY DEF ServeActions, RefuseStale, Store, Move, Unserved, ReplyLost, Decide, Lost
<1>2. \A r \in Rows : Present(r)' => Present(r) /\ local'[r].flags = local[r].flags
  BY <1>1, LocalStill
<1>3. pc \in Busy /\ pc' \in Busy
  BY <1>1 DEF Busy
<1> QED
  BY <1>1, <1>2, <1>3, BusyKeeps

LEMMA AdoptKeeps ==
    ASSUME TypeInv, ShowInv, Adopt
    PROVE  ShowInv'
<1>1. /\ pc = "adopt" /\ pc' = "settle"
      /\ UNCHANGED <<queue, plan, folded, step>> /\ astray' = astray
  BY DEF Adopt, history
<1>2. pc \in Busy /\ pc' \in Busy
  BY <1>1 DEF Busy
<1>3. \A r \in Rows : Present(r)' => Present(r) /\ local'[r].flags = local[r].flags
  <2> TAKE r \in Rows
  <2>1. local \in [Rows -> LocalRows]
    BY DEF TypeInv
  <2>2. \/ local' = local
        \/ \E z : local' = [local EXCEPT ![step.target].rid = z]
    BY DEF Adopt
  <2>3. ASSUME NEW z, local' = [local EXCEPT ![step.target].rid = z]
        PROVE  local'[r].box = local[r].box /\ local'[r].flags = local[r].flags
    <3>1. /\ DOMAIN local[r] = {"box", "rid", "flags"}
      <4>1. local[r] \in LocalRows
        BY <2>1
      <4> QED
        BY <4>1 DEF LocalRows, Absent, Deleted
    <3>2. local'[r] = local[r] \/ local'[r] = [local[r] EXCEPT !.rid = z]
      BY <2>1, <2>3
    <3> QED
      BY <3>1, <3>2
  <2>4. local'[r].box = local[r].box /\ local'[r].flags = local[r].flags
    BY <2>2, <2>3
  <2> QED
    BY <2>4 DEF Present
<1> QED
  BY <1>1, <1>2, <1>3, BusyKeeps

\* What is beside the drainer: it leaves the queue and the pass alone.
LEMMA BesideKeeps ==
    ASSUME ShowInv, queue' = queue, UNCHANGED pass_vars, astray \subseteq astray',
           \A r \in Rows : MessageOf(r) \notin astray' => \A f \in Flags : Shows(r, f)'
    PROVE  ShowInv'
<1>1. UNCHANGED <<pc, plan, folded, step>>
  BY DEF pass_vars
<1>2. /\ pc' # "fold" => folded = {}
      /\ pc' \in Busy => \A s \in plan' : s.rows \cap step'.rows = {}
  BY <1>1 DEF ShowInv, PlanFits
<1>3. \A r \in Rows : MessageOf(r) \notin astray' =>
         (pc' \in Busy /\ step'.target = r => RunsFirst(r)')
  <2> SUFFICES ASSUME NEW r \in Rows, MessageOf(r) \notin astray', pc \in Busy, step.target = r
               PROVE  RunsFirst(r)'
    BY <1>1
  <2>1. RunsFirst(r)
    BY DEF ShowInv, RowsFit, RowFits
  <2>2. Queued(r)' = Queued(r) /\ \A i : Deferred(i)' = Deferred(i) /\ Class(i)' = Class(i)
    BY SameQueueKeeps
  <2> QED
    BY <1>1, <2>1, <2>2 DEF RunsFirst
<1>4. folded' = folded /\ plan' \subseteq plan
  BY <1>1
<1> QED
  BY <1>2, <1>3, <1>4, StillKeeps

LEMMA SyncFetchKeeps ==
    ASSUME ShowInv, NEW b \in Mailboxes, SyncFetch(b)
    PROVE  ShowInv'
<1>1. UNCHANGED pass_vars /\ queue' = queue /\ local' = local /\ astray' = astray
  BY DEF SyncFetch, history
<1>2. \A r \in Rows : MessageOf(r) \notin astray' => \A f \in Flags : Shows(r, f)'
  BY <1>1, LocalStill, ShowsStill
<1> QED
  BY <1>1, <1>2, BesideKeeps

LEMMA SyncReconcileKeeps ==
    ASSUME ShowInv, NEW b \in Mailboxes, SyncReconcile(b)
    PROVE  ShowInv'
<1>1. UNCHANGED pass_vars /\ queue' = queue /\ astray' = astray
  BY DEF SyncReconcile, history
<1>2. \A r \in Rows : local'[r] = Deleted \/ local'[r] = local[r]
  BY DEF SyncReconcile
<1>3. \A r \in Rows : Present(r)' => Present(r) /\ local'[r].flags = local[r].flags
  <2>1. Deleted.box \notin Mailboxes
    BY MailboxesAssumption DEF Deleted
  <2> QED
    BY <1>2, <2>1 DEF Present
<1>4. \A r \in Rows : MessageOf(r) \notin astray' => \A f \in Flags : Shows(r, f)'
  BY <1>1, <1>3, ShowsStill
<1> QED
  BY <1>1, <1>4, BesideKeeps

\* A pass dies: what it had not marked is queued still, and so are the rows that
\* cancelled out, but their messages are given up.
LEMMA InterruptKeeps ==
    ASSUME TypeInv, ShowInv, Interrupt
    PROVE  ShowInv'
<1>1. /\ queue' = queue /\ local' = local /\ plan' = {} /\ folded' = {} /\ pc' = "idle"
      /\ astray' = astray \cup {MessageOf(queue[i].target) : i \in folded \cup step.rows}
  BY DEF Interrupt, StopPass, Lost
<1>2. OneFlagEach' /\ NotDueIsDeferred'
  BY <1>1, SameQueueKeeps DEF ShowInv
<1>3. PlanFits'
  BY <1>1 DEF PlanFits, Busy
<1>4. RowsFit'
  <2> SUFFICES ASSUME NEW r \in Rows, MessageOf(r) \notin astray' PROVE RowFits(r)'
    BY DEF RowsFit, Rows, MessageOf
  <2>1. RowFits(r)
    BY <1>1 DEF ShowInv, RowsFit
  <2>2. DeferredFirst(r)' /\ \A f : Changers(r, f)' = Changers(r, f)
    BY <1>1, <2>1, SameQueueKeeps DEF RowFits
  <2>3. \A i \in Queued(r) : i \notin folded
    BY <1>1 DEF Queued
  <2>4. ASSUME NEW f \in Flags PROVE FlagFits(r, f)'
    <3> DEFINE C == Changers(r, f)
    <3>1. Balanced(C, folded, queue) /\ Shows(r, f)
      BY <2>1 DEF RowFits, FlagFits
    <3>2. C \ folded = C \ {}
      BY <2>3 DEF Changers
    <3>3. Shows(r, f)'
      BY <1>1, <2>2, <3>1 DEF Shows, Present
    <3> HIDE DEF C
    <3>4. Balanced(C, {}, queue)
      BY <3>1, <3>2, BalancedSame
    <3> QED
      BY <1>1, <2>2, <3>3, <3>4 DEF FlagFits, C
  <2> QED
    BY <1>1, <2>2, <2>4 DEF RowFits, Busy
<1> QED
  BY <1>2, <1>3, <1>4 DEF ShowInv

\* A queue that keeps its rows as they are to the invariant, and may have more.
Grows ==
    /\ DOMAIN queue \subseteq DOMAIN queue'
    /\ \A j \in DOMAIN queue : /\ queue'[j].op = queue[j].op
                               /\ queue'[j].target = queue[j].target
                               /\ Pending(j)' <=> Pending(j)
                               /\ Deferred(j)' <=> Deferred(j)
    /\ \A j \in DOMAIN queue' \ DOMAIN queue :
          /\ ~Deferred(j)'
          /\ \A i \in DOMAIN queue : i < j

LEMMA GrownQueue ==
    ASSUME TypeInv, QueueType', Grows
    PROVE  /\ \A i \in DOMAIN queue : Class(i)' = Class(i)
           /\ \A r : /\ Queued(r) = Queued(r)' \cap DOMAIN queue
                     /\ \A i \in Queued(r)', j \in DOMAIN queue : i < j => i \in Queued(r)
                     /\ \A i \in Queued(r)' : Deferred(i)' => i \in Queued(r) /\ Deferred(i)
<1>1. (\A i \in DOMAIN queue : i \in Nat) /\ \A i \in DOMAIN queue' : i \in Nat
  BY DEF TypeInv, QueueType
<1>2. \A i \in DOMAIN queue : Class(i)' = Class(i)
  BY DEF Grows, Class
<1>3. \A r : Queued(r) = Queued(r)' \cap DOMAIN queue
  BY DEF Grows, Queued
<1>4. \A r : \A i \in Queued(r)', j \in DOMAIN queue : i < j => i \in Queued(r)
  <2> SUFFICES ASSUME NEW r, NEW i \in Queued(r)', NEW j \in DOMAIN queue, i < j
               PROVE  i \in Queued(r)
    OBVIOUS
  <2>1. CASE i \in DOMAIN queue
    BY <1>3, <2>1
  <2>2. CASE i \notin DOMAIN queue
    <3>1. i \in DOMAIN queue' \ DOMAIN queue
      BY <2>2 DEF Queued
    <3>2. j < i
      BY <3>1 DEF Grows
    <3>3. i \in Nat /\ j \in Nat
      BY <1>1, <3>1
    <3> QED
      BY <3>2, <3>3
  <2> QED
    BY <2>1, <2>2
<1>5. \A r : \A i \in Queued(r)' : Deferred(i)' => i \in Queued(r) /\ Deferred(i)
  <2> SUFFICES ASSUME NEW r, NEW i \in Queued(r)', Deferred(i)'
               PROVE  i \in Queued(r) /\ Deferred(i)
    OBVIOUS
  <2>1. i \in DOMAIN queue'
    BY DEF Queued
  <2>2. i \in DOMAIN queue
    BY <2>1 DEF Grows
  <2> QED
    BY <1>3, <2>2 DEF Grows
<1> QED
  BY <1>2, <1>3, <1>4, <1>5

LEMMA GrowsKeeps ==
    ASSUME TypeInv, QueueType', ShowInv, Grows, UNCHANGED pass_vars, astray' = astray,
           OneFlagEach', NotDueIsDeferred',
           \A r \in Rows : MessageOf(r) \notin astray => \A f \in Flags : FlagFits(r, f)'
    PROVE  ShowInv'
<1>1. UNCHANGED <<pc, plan, folded, step>>
  BY DEF pass_vars
<1>2. PlanFits'
  <2>1. \A i \in folded' : Pending(i)'
    BY <1>1 DEF ShowInv, PlanFits, TypeInv, PassType, Grows
  <2>2. \A s \in plan' : StepKeeps(s)'
    <3> TAKE s \in plan'
    <3>1. StepKeeps(s)
      BY <1>1 DEF ShowInv, PlanFits
    <3>2. \A j \in s.rows : j \in DOMAIN queue /\ j \in Queued(s.target)
      BY <3>1 DEF StepKeeps, Queued
    <3>3. s.rows \subseteq Queued(s.target)' \ folded'
      BY <1>1, <3>1, GrownQueue DEF StepKeeps
    <3>4. \A h, j \in s.rows : Class(h)' = Class(j)'
      BY <3>1, <3>2, GrownQueue DEF StepKeeps
    <3>5. ASSUME NEW h \in s.rows, NEW j \in s.rows,
                 NEW i \in Queued(s.target)' \ (s.rows \cup folded'), h < i, i < j
          PROVE  Deferred(i)'
      <4>1. i \in Queued(s.target) /\ i \in DOMAIN queue
        <5>1. i \in Queued(s.target)
          BY <3>2, <3>5, GrownQueue
        <5> QED
          BY <5>1 DEF Queued
      <4>2. Deferred(i)
        BY <1>1, <3>1, <3>5, <4>1 DEF StepKeeps
      <4> QED
        BY <4>1, <4>2 DEF Grows
    <3> QED
      BY <3>3, <3>4, <3>5 DEF StepKeeps
  <2> QED
    BY <1>1, <2>1, <2>2 DEF ShowInv, PlanFits
<1>3. RowsFit'
  <2> SUFFICES ASSUME NEW r \in Rows, MessageOf(r) \notin astray PROVE RowFits(r)'
    BY DEF RowsFit, Rows, MessageOf
  <2>1. RowFits(r)
    BY DEF ShowInv, RowsFit
  <2>2. \A i \in Queued(r) : i \in DOMAIN queue
    BY DEF Queued
  <2>3. DeferredFirst(r)'
    <3> SUFFICES ASSUME NEW i \in Queued(r)', NEW j \in Queued(r)', Deferred(j)'
                 PROVE  (i < j => Deferred(i)') /\ (Deferred(i)' => Class(i)' = Class(j)')
      BY DEF DeferredFirst
    <3>1. j \in Queued(r) /\ Deferred(j) /\ j \in DOMAIN queue
      BY <2>2, GrownQueue
    <3>2. ASSUME i < j PROVE Deferred(i)'
      <4>1. i \in Queued(r)
        BY <3>1, <3>2, GrownQueue
      <4>2. Deferred(i)
        BY <2>1, <3>1, <3>2, <4>1 DEF RowFits, DeferredFirst
      <4> QED
        BY <2>2, <4>1, <4>2 DEF Grows
    <3>3. ASSUME Deferred(i)' PROVE Class(i)' = Class(j)'
      <4>1. i \in Queued(r) /\ Deferred(i) /\ i \in DOMAIN queue
        BY <2>2, <3>3, GrownQueue
      <4>2. Class(i) = Class(j)
        BY <2>1, <3>1, <4>1 DEF RowFits, DeferredFirst
      <4> QED
        BY <3>1, <4>1, <4>2, GrownQueue
    <3> QED
      BY <3>2, <3>3
  <2>4. ASSUME pc' \in Busy, step'.target = r PROVE RunsFirst(r)'
    <3>1. RunsFirst(r) /\ step' = step
      BY <1>1, <2>1, <2>4 DEF RowFits
    <3>2. \A j \in step.rows : j \in Queued(r) /\ j \in DOMAIN queue
      BY <2>2, <3>1 DEF RunsFirst
    <3>3. step'.rows \subseteq Queued(r)'
      BY <3>1, <3>2, GrownQueue
    <3>4. ASSUME NEW j \in step.rows, NEW i \in Queued(r)' \ step.rows, i < j
          PROVE  Deferred(i)'
      <4>1. i \in Queued(r)
        BY <3>2, <3>4, GrownQueue
      <4>2. Deferred(i)
        BY <3>1, <3>4, <4>1 DEF RunsFirst
      <4> QED
        BY <2>2, <4>1, <4>2 DEF Grows
    <3>5. ASSUME NEW j \in step.rows, NEW i \in Queued(r)', i \in step.rows \/ Deferred(i)'
          PROVE  Class(i)' = Class(j)'
      <4>1. i \in Queued(r) /\ (i \in step.rows \/ Deferred(i)) /\ i \in DOMAIN queue
        BY <2>2, <3>2, <3>5, GrownQueue
      <4>2. Class(i) = Class(j)
        BY <3>1, <4>1 DEF RunsFirst
      <4> QED
        BY <3>2, <4>1, <4>2, GrownQueue
    <3> QED
      BY <3>1, <3>3, <3>4, <3>5 DEF RunsFirst
  <2> QED
    BY <2>3, <2>4 DEF RowFits
<1> QED
  BY <1>2, <1>3 DEF ShowInv

\* A flag that no change is queued for.
LEMMA SameChangesFit ==
    ASSUME TypeInv, Grows, UNCHANGED pass_vars, NEW r, NEW f, FlagFits(r, f),
           Changers(r, f)' = Changers(r, f),
           Present(r)' => Present(r) /\ (f \in local'[r].flags <=> f \in local[r].flags)
    PROVE  FlagFits(r, f)'
<1> DEFINE C == Changers(r, f)
<1>1. \A i \in C : queue'[i].op = queue[i].op
  BY DEF Changers, Queued, Grows
<1>2. Balanced(C, folded, queue) /\ Shows(r, f) /\ folded' = folded
  BY DEF FlagFits, pass_vars
<1>3. Shows(r, f)'
  BY <1>1, <1>2 DEF Shows, IsLast
<1>4. Changers(r, f)' = C
  OBVIOUS
<1> HIDE DEF C
<1>5. Balanced(C, folded, queue')
  BY <1>1, <1>2, BalancedSame
<1> QED
  BY <1>2, <1>3, <1>4, <1>5 DEF FlagFits

LEMMA BackoffKeeps ==
    ASSUME TypeInv, ShowInv, NEW i \in DOMAIN queue, BackoffElapses(i)
    PROVE  ShowInv'
<1>1. UNCHANGED pass_vars /\ local' = local /\ astray' = astray
  BY DEF BackoffElapses, history
<1>2. PICK x : x = MadeDue(queue[i])
  OBVIOUS
<1>3. /\ x \in QueueRow /\ Same(queue[i], x) /\ queue' = [queue EXCEPT ![i] = x]
      /\ x.state = queue[i].state /\ x.attempts = queue[i].attempts /\ x.due
  <2>1. queue[i] \in QueueRow
    BY QueueIs DEF TypeInv
  <2>2. x \in QueueRow /\ Same(queue[i], x)
    BY <1>2, <2>1, RowMarks
  <2>3. x.state = queue[i].state /\ x.attempts = queue[i].attempts /\ x.due
    BY <1>2, <2>1 DEF MadeDue, QueueRow
  <2>4. queue' = [queue EXCEPT ![i] = x]
    BY <1>2 DEF BackoffElapses, MadeDue
  <2> QED
    BY <2>2, <2>3, <2>4
<1>4. Marks(i, x)
  BY <1>3, MarkIs DEF TypeInv, ShowInv
<1>5. OneFlagEach' /\ NotDueIsDeferred'
  BY <1>3, <1>4, Zenon DEF Marks
<1>6. \A r, f : Changers(r, f)' = Changers(r, f)
  BY <1>3, <1>4, Zenon DEF Marks
<1>7. Grows
  <2>1. DOMAIN queue' = DOMAIN queue
    BY <1>4, Zenon DEF Marks
  <2>2. \A j \in DOMAIN queue : /\ queue'[j].op = queue[j].op
                                /\ queue'[j].target = queue[j].target
                                /\ queue'[j].state = queue[j].state
                                /\ queue'[j].attempts = queue[j].attempts
    BY <1>3 DEF Same
  <2> QED
    BY <2>1, <2>2 DEF Grows, Pending, Deferred
<1>8. \A r \in Rows : MessageOf(r) \notin astray => \A f \in Flags : FlagFits(r, f)'
  <2> SUFFICES ASSUME NEW r \in Rows, MessageOf(r) \notin astray, NEW f \in Flags
               PROVE  FlagFits(r, f)'
    OBVIOUS
  <2>1. FlagFits(r, f)
    BY DEF ShowInv, RowsFit, RowFits
  <2>2. Present(r)' => Present(r) /\ local'[r] = local[r]
    BY <1>1 DEF Present
  <2> QED
    BY <1>1, <1>6, <1>7, <2>1, <2>2, SameChangesFit
<1>9. QueueType'
  BY BackoffType DEF TypeInv
<1> QED
  BY <1>1, <1>5, <1>7, <1>8, <1>9, GrowsKeeps

\* What a new queue row does to the invariant's terms.
Enqueues(r, op, n) ==
    /\ Grows /\ QueueType' /\ OneFlagEach' /\ NotDueIsDeferred'
    /\ n \in Nat /\ n \notin DOMAIN queue /\ queue'[n].op = op
    /\ \A i \in DOMAIN queue : i < n
    /\ \A u, f : u # r \/ op.kind \notin FlagKinds \/ f \notin op.flags =>
          Changers(u, f)' = Changers(u, f)
    /\ \A f : op.kind \in FlagKinds /\ f \in op.flags =>
          Changers(r, f)' = Changers(r, f) \cup {n}

LEMMA EnqueueIs ==
    ASSUME TypeInv, ShowInv, NEW r \in Rows, NEW op \in Ops, Enqueue(r, op),
           op.kind \in FlagKinds => \E f \in Flags : op.flags = {f}
    PROVE  \E n : Enqueues(r, op, n)
<1> DEFINE x == [target |-> r, op |-> op, snapshot |-> local[r].rid,
                 state |-> "pending", attempts |-> 0, due |-> TRUE]
<1>1. PICK n : n = Len(queue) + 1
  OBVIOUS
<1>2. /\ x.target = r /\ x.op = op /\ x.state = "pending" /\ x.attempts = 0 /\ x.due
      /\ queue' = Append(queue, x)
  BY DEF Enqueue
<1>3. QueueType' /\ DOMAIN queue' = DOMAIN queue \cup {n}
  BY <1>1, EnqueuedRow
<1> HIDE DEF x
<1>4. queue \in Seq(QueueRow) /\ Len(queue) \in Nat /\ DOMAIN queue = 1 .. Len(queue)
  BY QueueIs DEF TypeInv, QueueType
<1>5. /\ n \in Nat /\ n \notin DOMAIN queue /\ queue'[n] = x
      /\ \A i \in DOMAIN queue : i < n
      /\ \A i \in DOMAIN queue : queue'[i] = queue[i]
  BY <1>1, <1>2, <1>4
<1>6. /\ \A i \in DOMAIN queue : i \in DOMAIN queue' /\ i # n
      /\ \A i \in DOMAIN queue' : i \in DOMAIN queue \/ i = n
  BY <1>3, <1>5
<1>7. \A i \in DOMAIN queue : /\ Pending(i)' <=> Pending(i)
                              /\ Deferred(i)' <=> Deferred(i)
  BY <1>5 DEF Pending, Deferred
<1>8. Pending(n)' /\ ~Deferred(n)'
  BY <1>2, <1>5 DEF Pending, Deferred
<1>9. Grows
  <2>1. \A j \in DOMAIN queue : /\ queue'[j].op = queue[j].op
                                /\ queue'[j].target = queue[j].target
    BY <1>5
  <2>2. \A j \in DOMAIN queue' \ DOMAIN queue : ~Deferred(j)' /\ \A i \in DOMAIN queue : i < j
    <3> TAKE j \in DOMAIN queue' \ DOMAIN queue
    <3>1. j = n
      BY <1>6
    <3> QED
      BY <1>5, <1>8, <3>1
  <2>3. DOMAIN queue \subseteq DOMAIN queue'
    BY <1>6
  <2> QED
    BY <1>7, <2>1, <2>2, <2>3 DEF Grows
<1>10. OneFlagEach'
  <2> SUFFICES ASSUME NEW i \in DOMAIN queue', queue'[i].op.kind \in FlagKinds
               PROVE  \E f \in Flags : queue'[i].op.flags = {f}
    BY DEF OneFlagEach
  <2>1. CASE i \in DOMAIN queue
    BY <1>5, <2>1 DEF ShowInv, OneFlagEach
  <2>2. CASE i = n
    BY <1>2, <1>5, <2>2
  <2> QED
    BY <1>6, <2>1, <2>2
<1>11. NotDueIsDeferred'
  <2> SUFFICES ASSUME NEW i \in DOMAIN queue', Pending(i)', ~queue'[i].due
               PROVE  Deferred(i)'
    BY DEF NotDueIsDeferred
  <2>1. i \in DOMAIN queue
    BY <1>2, <1>5, <1>6
  <2> QED
    BY <1>5, <1>7, <2>1 DEF ShowInv, NotDueIsDeferred
<1>12. /\ \A u : u # r => Queued(u)' = Queued(u)
       /\ Queued(r)' = Queued(r) \cup {n}
  <2>1. \A u : \A i : i \in Queued(u)' <=> i \in Queued(u) \/ (i = n /\ u = r)
    <3> TAKE u
    <3> TAKE i
    <3>1. CASE i \in DOMAIN queue
      BY <1>5, <1>6, <1>7, <3>1 DEF Queued
    <3>2. CASE i = n
      BY <1>2, <1>3, <1>5, <1>8, <3>2 DEF Queued
    <3>3. CASE i \notin DOMAIN queue /\ i # n
      BY <1>6, <3>3 DEF Queued
    <3> QED
      BY <3>1, <3>2, <3>3
  <2>2. ASSUME NEW u, u # r PROVE Queued(u)' = Queued(u)
    <3>1. \A i : i \in Queued(u)' <=> i \in Queued(u)
      BY <2>1, <2>2
    <3> QED
      BY <3>1 DEF Queued
  <2>3. Queued(r)' = Queued(r) \cup {n}
    <3>1. \A i : i \in Queued(r)' <=> i \in Queued(r) \cup {n}
      BY <2>1
    <3> QED
      BY <3>1 DEF Queued
  <2> QED
    BY <2>2, <2>3
<1>13. \A i \in DOMAIN queue : \A f : Touches(queue', i, f) <=> Touches(queue, i, f)
  BY <1>5 DEF Touches
<1>14. \A f : Touches(queue', n, f) <=> op.kind \in FlagKinds /\ f \in op.flags
  BY <1>2, <1>5 DEF Touches
<1>15. \A u, f : \A i : i \in Changers(u, f) <=> i \in Queued(u) /\ Touches(queue, i, f)
  BY DEF Changers
<1>16. \A u, f : \A i : i \in Changers(u, f)' <=> i \in Queued(u)' /\ Touches(queue', i, f)
  BY DEF Changers
<1>17. \A u : \A i \in Queued(u) : i \in DOMAIN queue
  BY DEF Queued
<1>18. ASSUME NEW u, NEW f, u # r \/ op.kind \notin FlagKinds \/ f \notin op.flags
       PROVE  Changers(u, f)' = Changers(u, f)
  <2>1. \A i : i \in Changers(u, f)' <=> i \in Changers(u, f)
    BY <1>12, <1>13, <1>14, <1>15, <1>16, <1>17, <1>18
  <2> QED
    BY <2>1 DEF Changers
<1>19. ASSUME NEW f, op.kind \in FlagKinds, f \in op.flags
       PROVE  Changers(r, f)' = Changers(r, f) \cup {n}
  <2>1. \A i : i \in Changers(r, f)' <=> i \in Changers(r, f) \cup {n}
    BY <1>12, <1>13, <1>14, <1>15, <1>16, <1>17, <1>19
  <2> QED
    BY <2>1 DEF Changers
<1>20. Enqueues(r, op, n)
  BY <1>2, <1>3, <1>5, <1>9, <1>10, <1>11, <1>18, <1>19 DEF Enqueues
<1> QED
  BY <1>20

LEMMA RelocateKeeps ==
    ASSUME TypeInv, ShowInv, NEW r \in Rows, NEW to \in Mailboxes, Relocate(r, to)
    PROVE  ShowInv'
<1>1. PICK kind \in MoveKinds : Enqueue(r, MoveOp(kind, local[r].box, to))
  BY DEF Relocate, MoveKinds
<1>2. PICK op : op = MoveOp(kind, local[r].box, to)
  OBVIOUS
<1>3. Present(r) /\ UNCHANGED pass_vars /\ astray' = astray
  BY DEF Relocate
<1>4. op \in Ops /\ op.kind \in MoveKinds /\ op.kind \notin FlagKinds
  <2>1. op \in Ops
    BY <1>2, <1>3 DEF Ops, Present
  <2>2. op.kind = kind
    BY <1>2 DEF MoveOp
  <2> QED
    BY <2>1, <2>2, OpIs
<1>5. PICK n : Enqueues(r, op, n)
  BY <1>1, <1>2, <1>4, EnqueueIs
<1>6. Grows /\ QueueType' /\ OneFlagEach' /\ NotDueIsDeferred'
  BY <1>5, Zenon DEF Enqueues
<1>7. \A u, f : Changers(u, f)' = Changers(u, f)
  <2>1. \A u, f : u # r \/ op.kind \notin FlagKinds \/ f \notin op.flags =>
           Changers(u, f)' = Changers(u, f)
    BY <1>5, Zenon DEF Enqueues
  <2> QED
    BY <1>4, <2>1
<1>8. \A u \in Rows : Present(u)' => Present(u) /\ local'[u].flags = local[u].flags
  <2> TAKE u \in Rows
  <2>1. local \in [Rows -> LocalRows] /\ local[r] \in Whole
    BY <1>3, PresentRow DEF TypeInv, Whole
  <2>2. local' = [local EXCEPT ![r].box = to, ![r].rid = NoRid]
    BY DEF Relocate
  <2>3. CASE u = r
    <3>1. local'[r].flags = local[r].flags
      BY <2>1, <2>2 DEF Whole
    <3> QED
      BY <1>3, <2>3, <3>1
  <2>4. CASE u # r
    BY <2>1, <2>2, <2>4 DEF Present
  <2> QED
    BY <2>3, <2>4
<1>9. \A u \in Rows : MessageOf(u) \notin astray => \A f \in Flags : FlagFits(u, f)'
  <2> SUFFICES ASSUME NEW u \in Rows, MessageOf(u) \notin astray, NEW f \in Flags
               PROVE  FlagFits(u, f)'
    OBVIOUS
  <2>1. FlagFits(u, f)
    BY DEF ShowInv, RowsFit, RowFits
  <2> QED
    BY <1>3, <1>6, <1>7, <1>8, <2>1, SameChangesFit
<1> QED
  BY <1>3, <1>6, <1>9, GrowsKeeps

\* A change of a flag shows at once, and undoes the last one queued.
LEMMA ChangeFits ==
    ASSUME TypeInv, ShowInv, NEW r \in Rows, MessageOf(r) \notin astray, Present(r),
           NEW f \in Flags, NEW op, NEW n, Enqueues(r, op, n), UNCHANGED pass_vars,
           op.kind \in FlagKinds, f \in op.flags,
           f \in local[r].flags <=> op.kind = "ClearFlags",
           f \in local'[r].flags <=> op.kind = "SetFlags"
    PROVE  FlagFits(r, f)'
<1> DEFINE C == Changers(r, f)
<1>1. n \in Nat /\ n \notin DOMAIN queue /\ queue'[n].op = op /\ \A i \in DOMAIN queue : i < n
  BY Zenon DEF Enqueues
<1>2. Changers(r, f)' = C \cup {n}
  BY Zenon DEF Enqueues
<1>3. Grows
  BY Zenon DEF Enqueues
<1>4. \A i \in DOMAIN queue : i \in Nat /\ queue'[i].op = queue[i].op
  BY <1>3, QueueIs DEF Grows, TypeInv
<1>5. \A i \in C : i \in DOMAIN queue /\ queue[i].op.kind \in FlagKinds
  BY DEF Changers, Queued, Touches
<1>6. Balanced(C, folded, queue) /\ Shows(r, f) /\ folded' = folded /\ n \notin folded
  BY <1>1 DEF ShowInv, RowsFit, RowFits, FlagFits, pass_vars, TypeInv, PassType
<1>7. \A m \in C : IsLast(C, m) => (f \in local[r].flags <=> queue[m].op.kind = "SetFlags")
  BY <1>6 DEF Shows
<1> HIDE DEF C
<1>8. C \in SUBSET Nat /\ \A i \in C : i < n
  BY <1>1, <1>4, <1>5
<1>9. \A m : IsLast(C, m) => queue'[m].op.kind # queue'[n].op.kind
  <2> SUFFICES ASSUME NEW m, IsLast(C, m) PROVE queue'[m].op.kind # queue'[n].op.kind
    OBVIOUS
  <2>1. m \in C
    BY DEF IsLast
  <2>2. queue'[m].op = queue[m].op /\ queue'[n].op = op
    BY <1>1, <1>4, <1>5, <2>1
  <2>3. f \in local[r].flags <=> queue[m].op.kind = "SetFlags"
    BY <1>7, <2>1
  <2> QED
    BY <2>2, <2>3 DEF FlagKinds
<1>10. Balanced(C, folded, queue')
  <2>1. \A i \in C : queue'[i].op = queue[i].op
    BY <1>4, <1>5
  <2> QED
    BY <1>6, <2>1, BalancedSame
<1>11. Balanced(C \cup {n}, folded, queue')
  BY <1>1, <1>6, <1>8, <1>9, <1>10, ChangeStands
<1>12. Shows(r, f)'
  <2> SUFFICES ASSUME NEW i \in C \cup {n}, IsLast(C \cup {n}, i)
               PROVE  f \in local'[r].flags <=> queue'[i].op.kind = "SetFlags"
    BY <1>2 DEF Shows
  <2>1. i = n
    BY <1>8 DEF IsLast
  <2> QED
    BY <1>1, <2>1
<1> QED
  BY <1>2, <1>6, <1>11, <1>12 DEF FlagFits

LEMMA ChangeFlagKeeps ==
    ASSUME TypeInv, ShowInv, NEW r \in Rows, NEW f \in Flags, ChangeFlag(r, f)
    PROVE  ShowInv'
<1>1. Present(r) /\ UNCHANGED pass_vars /\ astray' = astray
  BY DEF ChangeFlag
<1>2. PICK kind \in FlagKinds :
         /\ Enqueue(r, FlagOp(kind, {f}))
         /\ f \in local[r].flags <=> kind = "ClearFlags"
         /\ \/ kind = "SetFlags" /\ local' = [local EXCEPT ![r].flags = @ \cup {f}]
            \/ kind = "ClearFlags" /\ local' = [local EXCEPT ![r].flags = @ \ {f}]
  BY DEF ChangeFlag, FlagKinds
<1>3. PICK op : op = FlagOp(kind, {f})
  OBVIOUS
<1>4. op \in Ops /\ op.kind = kind /\ op.flags = {f}
  BY <1>3 DEF Ops, FlagOp
<1>5. PICK n : Enqueues(r, op, n)
  BY <1>2, <1>3, <1>4, EnqueueIs
<1>6. Grows /\ QueueType' /\ OneFlagEach' /\ NotDueIsDeferred'
  BY <1>5, Zenon DEF Enqueues
<1>7. \A u, g : u # r \/ g # f => Changers(u, g)' = Changers(u, g)
  <2>1. \A u, g : u # r \/ op.kind \notin FlagKinds \/ g \notin op.flags =>
           Changers(u, g)' = Changers(u, g)
    BY <1>5, Zenon DEF Enqueues
  <2> QED
    BY <1>4, <2>1
<1>8. local \in [Rows -> LocalRows] /\ local[r] \in Whole
  BY <1>1, PresentRow DEF TypeInv, Whole
<1>9. PICK G : /\ local' = [local EXCEPT ![r].flags = G]
               /\ f \in G <=> kind = "SetFlags"
               /\ \A g : g # f => (g \in G <=> g \in local[r].flags)
  <2>1. CASE kind = "SetFlags" /\ local' = [local EXCEPT ![r].flags = @ \cup {f}]
    <3> WITNESS local[r].flags \cup {f}
    <3> QED
      BY <2>1
  <2>2. CASE kind = "ClearFlags" /\ local' = [local EXCEPT ![r].flags = @ \ {f}]
    <3> WITNESS local[r].flags \ {f}
    <3> QED
      BY <2>2
  <2> QED
    BY <1>2, <2>1, <2>2
<1>10. local'[r].flags = G /\ \A u \in Rows : u # r => local'[u] = local[u]
  BY <1>8, <1>9 DEF Whole
<1>11. \A u \in Rows : MessageOf(u) \notin astray => \A g \in Flags : FlagFits(u, g)'
  <2> SUFFICES ASSUME NEW u \in Rows, MessageOf(u) \notin astray, NEW g \in Flags
               PROVE  FlagFits(u, g)'
    OBVIOUS
  <2>1. CASE u = r /\ g = f
    <3>1. /\ op.kind \in FlagKinds /\ f \in op.flags
          /\ f \in local[r].flags <=> op.kind = "ClearFlags"
          /\ f \in local'[r].flags <=> op.kind = "SetFlags"
      BY <1>2, <1>4, <1>9, <1>10
    <3> QED
      BY <1>1, <1>5, <2>1, <3>1, ChangeFits
  <2>2. CASE u # r \/ g # f
    <3>1. FlagFits(u, g)
      BY DEF ShowInv, RowsFit, RowFits
    <3>2. Changers(u, g)' = Changers(u, g)
      BY <1>7, <2>2
    <3>3. Present(u)' => Present(u) /\ (g \in local'[u].flags <=> g \in local[u].flags)
      <4>1. CASE u = r
        BY <1>1, <1>9, <1>10, <2>2, <4>1
      <4>2. CASE u # r
        BY <1>10, <4>2 DEF Present
      <4> QED
        BY <4>1, <4>2
    <3> QED
      BY <1>1, <1>6, <3>1, <3>2, <3>3, SameChangesFit
  <2> QED
    BY <2>1, <2>2
<1> QED
  BY <1>1, <1>6, <1>11, GrowsKeeps

\* What a fetched copy becomes shows the last change, whatever the server said.
LEMMA MergedShows ==
    ASSUME QueueType, NEW r, NEW F \in SUBSET Flags, NEW f,
           NEW i, IsLast(Changers(r, f), i)
    PROVE  f \in Merged(r, F) <=> queue[i].op.kind = "SetFlags"
<1>1. PICK c, p, n : MergesBy(c, p, n, r, F)
  BY MergedRuns
<1> DEFINE U == FlagRows(r)
           K == Cardinality({j \in U : j <= i})
<1>2. /\ n \in Nat /\ n = Cardinality(U)
      /\ \A k \in 1 .. n : p[k] \in U /\ Cardinality({j \in U : j <= p[k]}) = k
      /\ \A k \in 1 .. n : c[k] = Performed(c[k - 1], queue[p[k]].op)
      /\ \A k \in 0 .. n : \E G \in SUBSET Flags : c[k] = [flags |-> G]
      /\ Merged(r, F) = c[n].flags
  BY <1>1 DEF MergesBy
<1>3. U \in SUBSET Nat /\ IsFiniteSet(U)
  <2>1. U \subseteq DOMAIN queue
    BY DEF FlagRows, Queued
  <2> QED
    BY <2>1, QueueIs, FS_Subset
<1>4. /\ i \in U /\ \A j \in U : f \in queue[j].op.flags => ~(i < j)
      /\ f \in queue[i].op.flags
  BY DEF IsLast, Changers, Touches, FlagRows
<1>5. \A j \in U : queue[j].op.kind \in FlagKinds
  BY DEF FlagRows
<1> HIDE DEF U
<1>6. /\ K \in 1 .. n
      /\ \A u, w \in U : u < w =>
            Cardinality({v \in U : v <= u}) < Cardinality({v \in U : v <= w})
  BY <1>2, <1>3, <1>4, RanksRise
<1> HIDE DEF K
<1>7. \A k \in 1 .. n : k >= K => ~(p[k] < i)
  <2> SUFFICES ASSUME NEW k \in 1 .. n, k >= K, p[k] < i PROVE FALSE
    OBVIOUS
  <2>1. Cardinality({v \in U : v <= p[k]}) < Cardinality({v \in U : v <= i})
    BY <1>2, <1>4, <1>6
  <2>2. k < K
    BY <1>2, <2>1 DEF K
  <2> QED
    BY <1>2, <1>6, <2>2
<1>8. \A k \in 1 .. n : k > K => i < p[k]
  <2> SUFFICES ASSUME NEW k \in 1 .. n, k > K PROVE i < p[k]
    OBVIOUS
  <2>1. k >= K
    BY <1>2, <1>6
  <2>2. p[k] \in Nat /\ i \in Nat /\ ~(p[k] < i)
    BY <1>2, <1>3, <1>4, <1>7, <2>1
  <2>3. p[k] # i
    BY <1>2, <1>6 DEF K
  <2> QED
    BY <2>2, <2>3
<1>9. p[K] = i
  <2>1. K \in 1 .. n /\ K >= K
    BY <1>2, <1>6
  <2>2. p[K] \in U /\ ~(p[K] < i)
    BY <1>2, <1>7, <2>1
  <2>3. p[K] \in Nat /\ i \in Nat /\ p[K] \in U /\ ~(p[K] < i)
    BY <1>3, <1>4, <2>2
  <2>4. Cardinality({v \in U : v <= p[K]}) = K /\ Cardinality({v \in U : v <= i}) = K
    BY <1>2, <1>6 DEF K
  <2>5. K \in Nat
    BY <1>2, <1>6
  <2>6. ~(i < p[K])
    <3> SUFFICES ASSUME i < p[K] PROVE FALSE
      OBVIOUS
    <3>1. Cardinality({v \in U : v <= i}) < Cardinality({v \in U : v <= p[K]})
      BY <1>4, <1>6, <2>3
    <3> QED
      BY <2>4, <2>5, <3>1
  <2> QED
    BY <2>3, <2>6
<1> DEFINE Right(k) == f \in c[k].flags <=> queue[i].op.kind = "SetFlags"
           S == {k \in 0 .. n : k >= K => Right(k)}
<1>10. \A k \in 1 .. n : \E G \in SUBSET Flags : c[k - 1] = [flags |-> G]
  <2>1. \A k \in 1 .. n : k - 1 \in 0 .. n
    BY <1>2
  <2> HIDE DEF S
  <2> QED
    BY <1>2, <2>1
<1>11. Right(K)
  <2>1. PICK G \in SUBSET Flags : c[K - 1] = [flags |-> G]
    BY <1>6, <1>10
  <2>2. c[K] = Performed([flags |-> G], queue[i].op)
    BY <1>2, <1>6, <1>9, <2>1
  <2>3. CASE queue[i].op.kind = "SetFlags"
    <3>1. c[K] = [flags |-> G \cup queue[i].op.flags]
      BY <2>2, <2>3 DEF Performed
    <3> QED
      BY <1>4, <2>3, <3>1
  <2>4. CASE queue[i].op.kind = "ClearFlags"
    <3>1. c[K] = [flags |-> G \ queue[i].op.flags]
      BY <2>2, <2>4 DEF Performed
    <3> QED
      BY <1>4, <2>4, <3>1
  <2> QED
    BY <1>4, <1>5, <2>3, <2>4 DEF FlagKinds
<1>12. ASSUME NEW k \in 1 .. n, k > K, Right(k - 1)
       PROVE  Right(k)
  <2>1. PICK G \in SUBSET Flags : c[k - 1] = [flags |-> G]
    BY <1>10
  <2>2. PICK o : o = queue[p[k]].op
    OBVIOUS
  <2>3. c[k] = Performed([flags |-> G], o) /\ p[k] \in U /\ o.kind \in FlagKinds
    BY <1>2, <1>5, <2>1, <2>2
  <2>4. f \notin o.flags
    BY <1>4, <1>8, <1>12, <2>2, <2>3
  <2>5. f \in G <=> queue[i].op.kind = "SetFlags"
    BY <1>12, <2>1
  <2>6. CASE o.kind = "SetFlags"
    <3>1. c[k] = [flags |-> G \cup o.flags]
      BY <2>3, <2>6 DEF Performed
    <3> QED
      BY <2>4, <2>5, <3>1
  <2>7. CASE o.kind = "ClearFlags"
    <3>1. c[k] = [flags |-> G \ o.flags]
      BY <2>3, <2>7 DEF Performed
    <3> QED
      BY <2>4, <2>5, <3>1
  <2> QED
    BY <2>3, <2>6, <2>7 DEF FlagKinds
<1> HIDE DEF Right
<1>13. 0 \in S
  <2>1. 0 \in 0 .. n /\ ~(0 >= K)
    BY <1>2, <1>6
  <2> QED
    BY <2>1
<1>14. \A k \in 1 .. n : k - 1 \in S => k \in S
  <2> SUFFICES ASSUME NEW k \in 1 .. n, k - 1 \in S, k >= K PROVE Right(k)
    BY <1>2
  <2>1. CASE k = K
    BY <1>11, <2>1
  <2>2. CASE k # K
    <3>1. k > K /\ k - 1 >= K
      BY <1>2, <1>6, <2>2
    <3> QED
      BY <1>12, <3>1
  <2> QED
    BY <2>1, <2>2
<1> HIDE DEF S
<1>15. n \in S
  <2>1. \A k \in 0 .. n : k \in S
    BY <1>2, <1>13, <1>14, InductionUpTo
  <2> QED
    BY <1>2, <2>1
<1>16. Right(n)
  <2>1. n >= K
    BY <1>2, <1>6
  <2> QED
    BY <1>15, <2>1 DEF S
<1> QED
  BY <1>2, <1>16 DEF Right

LEMMA SyncStoreKeeps ==
    ASSUME TypeInv, ShowInv, NEW b \in Mailboxes, SyncStore(b)
    PROVE  ShowInv'
<1> DEFINE news == {c \in passes[b].listing : ~Shadowed(c)}
           pick(r) == CHOOSE c \in news : r \in RowFor(c)
           new(r) == [box |-> b, rid |-> pick(r).rid, flags |-> Merged(r, pick(r).flags)]
<1>1. local' = [r \in Rows |-> IF \E c \in news : r \in RowFor(c) THEN new(r) ELSE local[r]]
  BY DEF SyncStore
<1>2. news \subseteq FetchedRows
  BY DEF TypeInv, SyncType, PassShapes
<1>3. \A r : (\E c \in news : r \in RowFor(c)) => pick(r) \in FetchedRows
  BY <1>2
<1>4. \A r : new(r).flags = Merged(r, pick(r).flags)
  OBVIOUS
<1>5. UNCHANGED pass_vars /\ queue' = queue /\ astray \subseteq astray'
  BY DEF SyncStore, Lost
<1> HIDE DEF pick, news, new
<1>6. \A r \in Rows : MessageOf(r) \notin astray' => \A f \in Flags : Shows(r, f)'
  <2> SUFFICES ASSUME NEW r \in Rows, MessageOf(r) \notin astray', NEW f \in Flags
               PROVE  Shows(r, f)'
    OBVIOUS
  <2>1. Changers(r, f)' = Changers(r, f) /\ Shows(r, f)
    BY <1>5, SameQueueKeeps DEF ShowInv, RowsFit, RowFits, FlagFits
  <2>2. CASE \E c \in news : r \in RowFor(c)
    <3>1. local'[r].flags = Merged(r, pick(r).flags)
      BY <1>1, <1>4, <2>2
    <3>2. pick(r).flags \in SUBSET Flags
      BY <1>3, <2>2 DEF FetchedRows
    <3>3. \A i : IsLast(Changers(r, f), i) =>
             (f \in local'[r].flags <=> queue[i].op.kind = "SetFlags")
      BY <3>1, <3>2, MergedShows DEF TypeInv
    <3> QED
      BY <1>5, <2>1, <3>3 DEF Shows
  <2>3. CASE ~\E c \in news : r \in RowFor(c)
    <3>1. local'[r] = local[r]
      BY <1>1, <2>3
    <3> QED
      BY <1>5, <2>1, <3>1 DEF Shows, Present
  <2> QED
    BY <2>2, <2>3
<1> QED
  BY <1>5, <1>6, BesideKeeps

LEMMA InitShow ==
    ASSUME Init
    PROVE  ShowInv
<1>1. /\ DOMAIN queue = {} /\ plan = {} /\ folded = {} /\ pc = "idle"
  BY EmptySeq DEF Init
<1>2. OneFlagEach /\ NotDueIsDeferred
  BY <1>1 DEF OneFlagEach, NotDueIsDeferred
<1>3. PlanFits
  BY <1>1 DEF PlanFits, Busy
<1>4. ASSUME NEW r \in Rows PROVE RowFits(r)
  <2>1. Queued(r) = {} /\ \A f : Changers(r, f) = {}
    BY <1>1 DEF Queued, Changers
  <2>2. DeferredFirst(r)
    BY <2>1 DEF DeferredFirst
  <2>3. \A f \in Flags : FlagFits(r, f)
    <3> TAKE f \in Flags
    <3>1. Alternating({}, queue)
      BY DEF Alternating
    <3>2. Balanced({}, {}, queue)
      BY <3>1, BalancedAlone
    <3>3. Shows(r, f)
      BY <2>1 DEF Shows
    <3> QED
      BY <1>1, <2>1, <3>2, <3>3 DEF FlagFits
  <2> QED
    BY <1>1, <2>2, <2>3 DEF RowFits, Busy
<1> QED
  BY <1>2, <1>3, <1>4 DEF ShowInv, RowsFit

LEMMA ShowStep ==
    ASSUME TypeInv, ShowInv, [Next]_vars
    PROVE  ShowInv'
<1>1. ASSUME NEW r \in Rows, UserStep(r) PROVE ShowInv'
  BY <1>1, ChangeFlagKeeps, RelocateKeeps DEF UserStep
<1>2. CASE DrainerStep
  <2>1. CASE ServeStep
    BY <2>1, ServeKeeps DEF ServeStep, ServeActions
  <2> QED
    BY <1>2, <2>1, StartPassKeeps, SettleFoldedKeeps, EndPassKeeps, ResolveKeeps, AdoptKeeps,
       SettleRowKeeps DEF DrainerStep
<1>3. ASSUME NEW i \in DOMAIN queue, BackoffElapses(i) PROVE ShowInv'
  BY <1>3, BackoffKeeps
<1>4. ASSUME NEW b \in Mailboxes, SyncStep(b) PROVE ShowInv'
  BY <1>4, SyncFetchKeeps, SyncStoreKeeps, SyncReconcileKeeps DEF SyncStep
<1>5. CASE PassError \/ Crash
  BY <1>5, InterruptKeeps DEF PassError, Crash
<1>6. CASE UNCHANGED vars
  <2>1. queue' = queue /\ UNCHANGED pass_vars /\ astray' = astray /\ local' = local
    BY <1>6 DEF vars, pass_vars, history
  <2>2. \A r \in Rows : MessageOf(r) \notin astray' => \A f \in Flags : Shows(r, f)'
    BY <2>1, LocalStill, ShowsStill
  <2> QED
    BY <2>1, <2>2, BesideKeeps
<1> QED
  BY <1>1, <1>2, <1>3, <1>4, <1>5, <1>6 DEF Next

LEMMA ShowInvIsStrong ==
    ASSUME ShowInv
    PROVE  PendingFlagsShow
<1> SUFFICES ASSUME NEW r \in Rows, Present(r), MessageOf(r) \notin astray,
                    NEW i \in Queued(r), NEW f \in Flags, LastChange(r, i, f)
             PROVE  f \in local[r].flags <=> queue[i].op.kind = "SetFlags"
  BY DEF PendingFlagsShow
<1>1. Shows(r, f)
  BY DEF ShowInv, RowsFit, RowFits, FlagFits
<1>2. i \in Changers(r, f)
  BY DEF LastChange, Changers, Touches
<1>3. \A j \in Changers(r, f) : ~(i < j)
  BY DEF LastChange, Changers, Touches
<1> QED
  BY <1>1, <1>2, <1>3 DEF Shows, IsLast

\* A flag change that waits to be sent stays visible: whatever the user does next,
\* whatever a pass folds away, defers, fails or loses, and however stale the listing
\* a sync stores, the local row has the effect of the last unsettled change, because
\* set_flag only queues a change of what shows, the coalescer only cancels changes
\* that undo each other, deferred rows are the first of their message and of one
\* class, and with_unacknowledged puts what the queue holds on top of the server's
\* flags (actions, coalesce.rs, drain.rs, the message repository).
THEOREM WaitingChangesShow == Spec => []PendingFlagsShow
<1>1. Init => TypeInv /\ ShowInv
  BY InitType, InitShow
<1>2. TypeInv /\ ShowInv /\ [Next]_vars => TypeInv' /\ ShowInv'
  BY StepType, ShowStep
<1>3. ShowInv => PendingFlagsShow
  BY ShowInvIsStrong
<1> QED
  BY <1>1, <1>2, <1>3, PTL DEF Spec

-----------------------------------------------------------------------------
(* What the queue asks for and what the server has: the invariant.         *)

\* Of the rows S of q: the moves into mailbox b, and those out of it.
Into(S, b, q)  == {i \in S : q[i].op.kind \in MoveKinds /\ q[i].op.to = b}
OutOf(S, b, q) == {i \in S : q[i].op.kind \in MoveKinds /\ q[i].op.from = b}
Net(S, b, q)   == Cardinality(Into(S, b, q)) - Cardinality(OutOf(S, b, q))
At(b, box)     == IF b = box THEN 1 ELSE 0

\* The moves of S, in whatever order, bring a message from one mailbox to another: it
\* comes into every mailbox as often as it leaves it, but for those two.
Carries(S, from, to, q) == \A b \in Mailboxes : Net(S, b, q) = At(b, to) - At(b, from)

\* A step does what its rows ask for.
AsksAll(s, q) == s.op.kind \in FlagKinds =>
    \A f \in s.op.flags : \E x \in s.rows : f \in q[x].op.flags
StepDoes(s, q) == /\ StepRuns(s, q)
                  /\ AsksAll(s, q)
                  /\ s.op.kind \in MoveKinds => Carries(s.rows, s.op.from, s.op.to, q)

\* What a pass is about to do, and what it has come to.
PlanDoes == \A s \in plan : MessageOf(s.target) \notin astray => StepDoes(s, queue)
SendsIt  == pc = "ready" /\ MessageOf(step.target) \notin astray =>
    /\ StepDoes(step, queue)
    /\ step.op.kind \in MoveKinds => address.box = step.op.from
EndsWell == pc \in {"adopt", "settle"} /\ MessageOf(step.target) \notin astray =>
    outcome \in {"Applied", "Retry"}

\* The rows of a message the server has carried out and that are not marked yet.
Served(r) == IF pc \in {"adopt", "settle"} /\ outcome = "Applied" /\ step.target = r
             THEN step.rows ELSE {}

\* The rows of a message that wait to be sent.
Waits(r) == Queued(r) \ Served(r)

\* The changes of a flag the server has still to see, and before them, as row 0, one that
\* made the flag what it is there.
ServersRow(r, f) ==
    [op |-> FlagOp(IF f \in server[MessageOf(r)].flags THEN "SetFlags" ELSE "ClearFlags", {f})]
WithServer(r, f) == [i \in {0} \cup DOMAIN queue |-> IF i = 0 THEN ServersRow(r, f) ELSE queue[i]]
Since(r, f)      == {0} \cup (Changers(r, f) \ Served(r))

\* They are balanced, and the last is what the user wants.
EndsIn(C, q, w) == \A i \in C : IsLast(C, i) => (w <=> q[i].op.kind = "SetFlags")
FlagAgrees(r, f) ==
    /\ Balanced(Since(r, f), folded, WithServer(r, f))
    /\ EndsIn(Since(r, f), WithServer(r, f), f \in wish[MessageOf(r)].flags)

\* The moves the server has still to see bring the message to where the user wants it.
ToServe(r)   == Waits(r) \ folded
BoxAgrees(r) == Carries(ToServe(r), server[MessageOf(r)].box, wish[MessageOf(r)].box, queue)

ShowsWish(r) == Present(r) => /\ local[r].box = wish[MessageOf(r)].box
                              /\ local[r].flags = wish[MessageOf(r)].flags
Agrees(r) == ShowsWish(r) /\ BoxAgrees(r) /\ \A f \in Flags : FlagAgrees(r, f)

\* No other row of the message is in use.
OnlyRow(r) == \A u \in Rows : MessageOf(u) = MessageOf(r) /\ InUse(u) => u = r
EachAgrees == \A m \in Messages \ (astray \cup doubled) :
    \E r \in Rows : MessageOf(r) = m /\ OnlyRow(r) /\ Agrees(r)

\* A row of the queue is of a message that has been there.
RowsWere == \A i \in DOMAIN queue : local[queue[i].target].box # "none"

ConvInv == PlanDoes /\ SendsIt /\ EndsWell /\ RowsWere /\ EachAgrees

-----------------------------------------------------------------------------
(* What sets of moves do.                                                  *)

LEMMA SizesAdd ==
    ASSUME NEW S, NEW T, IsFiniteSet(S), IsFiniteSet(T), S \cap T = {}
    PROVE  Cardinality(S \cup T) = Cardinality(S) + Cardinality(T)
<1>1. Cardinality(S) \in Nat /\ Cardinality(T) \in Nat
  BY FS_CardinalityType
<1>2. Cardinality(S \cup T) = Cardinality(S) + Cardinality(T) - Cardinality(S \cap T)
  BY FS_Union, Zenon
<1>3. Cardinality(S \cap T) = 0
  BY FS_EmptySet
<1> QED
  BY <1>1, <1>2, <1>3

\* Sets of moves add up.
LEMMA NetJoin ==
    ASSUME NEW S, NEW T, NEW b, NEW q, IsFiniteSet(S), IsFiniteSet(T), S \cap T = {}
    PROVE  /\ Net(S, b, q) \in Int /\ Net(T, b, q) \in Int
           /\ Net(S \cup T, b, q) = Net(S, b, q) + Net(T, b, q)
<1>1. /\ IsFiniteSet(Into(S, b, q)) /\ IsFiniteSet(OutOf(S, b, q))
      /\ IsFiniteSet(Into(T, b, q)) /\ IsFiniteSet(OutOf(T, b, q))
  <2>1. /\ Into(S, b, q) \subseteq S /\ OutOf(S, b, q) \subseteq S
        /\ Into(T, b, q) \subseteq T /\ OutOf(T, b, q) \subseteq T
    BY DEF Into, OutOf
  <2> QED
    BY <2>1, FS_Subset
<1>2. /\ Into(S \cup T, b, q) = Into(S, b, q) \cup Into(T, b, q)
      /\ OutOf(S \cup T, b, q) = OutOf(S, b, q) \cup OutOf(T, b, q)
      /\ Into(S, b, q) \cap Into(T, b, q) = {} /\ OutOf(S, b, q) \cap OutOf(T, b, q) = {}
  BY DEF Into, OutOf
<1>3. /\ Cardinality(Into(S, b, q)) \in Nat /\ Cardinality(Into(T, b, q)) \in Nat
      /\ Cardinality(OutOf(S, b, q)) \in Nat /\ Cardinality(OutOf(T, b, q)) \in Nat
  BY <1>1, FS_CardinalityType
<1>4. Cardinality(Into(S \cup T, b, q)) = Cardinality(Into(S, b, q)) + Cardinality(Into(T, b, q))
  BY <1>1, <1>2, SizesAdd, Zenon
<1>5. Cardinality(OutOf(S \cup T, b, q)) = Cardinality(OutOf(S, b, q)) + Cardinality(OutOf(T, b, q))
  BY <1>1, <1>2, SizesAdd, Zenon
<1> QED
  BY <1>3, <1>4, <1>5 DEF Net

\* What of a set is left when a part goes.
LEMMA NetLess ==
    ASSUME NEW S, NEW T, NEW b, NEW q, IsFiniteSet(S), T \subseteq S
    PROVE  /\ Net(S, b, q) \in Int /\ Net(T, b, q) \in Int
           /\ Net(S \ T, b, q) = Net(S, b, q) - Net(T, b, q)
<1>1. IsFiniteSet(T) /\ IsFiniteSet(S \ T) /\ T \cap (S \ T) = {} /\ T \cup (S \ T) = S
  BY FS_Subset
<1>2. /\ Net(T, b, q) \in Int /\ Net(S \ T, b, q) \in Int
      /\ Net(T \cup (S \ T), b, q) = Net(T, b, q) + Net(S \ T, b, q)
  BY <1>1, NetJoin
<1> QED
  <2>1. IsFiniteSet(S) /\ S \cap {} = {}
    OBVIOUS
  <2>2. Net(S, b, q) \in Int
    BY <2>1, FS_EmptySet, NetJoin
  <2> QED
    BY <1>1, <1>2, <2>2

\* What is no move brings nothing.
LEMMA NetNone ==
    ASSUME NEW S, NEW b, NEW q, \A i \in S : q[i].op.kind \notin MoveKinds
    PROVE  Net(S, b, q) = 0
<1>1. Into(S, b, q) = {} /\ OutOf(S, b, q) = {}
  BY DEF Into, OutOf
<1> QED
  BY <1>1, FS_EmptySet DEF Net

LEMMA NetOne ==
    ASSUME NEW i, NEW b, NEW q, q[i].op.kind \in MoveKinds
    PROVE  Net({i}, b, q) = At(b, q[i].op.to) - At(b, q[i].op.from)
<1>1. Into({i}, b, q) = IF b = q[i].op.to THEN {i} ELSE {}
  BY DEF Into
<1>2. OutOf({i}, b, q) = IF b = q[i].op.from THEN {i} ELSE {}
  BY DEF OutOf
<1>3. Cardinality({i}) = 1 /\ Cardinality({}) = 0
  BY FS_Singleton, FS_EmptySet
<1> QED
  BY <1>1, <1>2, <1>3 DEF Net, At

\* Only the requests of its rows count.
LEMMA NetSame ==
    ASSUME NEW S, NEW b, NEW q, NEW p, \A i \in S : q[i].op = p[i].op
    PROVE  Net(S, b, q) = Net(S, b, p)
<1>1. Into(S, b, q) = Into(S, b, p) /\ OutOf(S, b, q) = OutOf(S, b, p)
  BY DEF Into, OutOf
<1> QED
  BY <1>1 DEF Net

-----------------------------------------------------------------------------
(* A step of a fold does what its rows ask for.                            *)

\* What an operation that stands for two is.
MergesFlags(e, l, m) == /\ e.kind \in FlagKinds /\ l.kind \in FlagKinds /\ e.kind = l.kind
                        /\ m.kind = l.kind /\ m.flags = e.flags \cup l.flags
MergesMoves(e, l, m) == /\ e.kind = "Move" /\ l.kind \in MoveKinds /\ l.from = e.to
                        /\ m.kind = l.kind /\ m.from = e.from /\ m.to = l.to

LEMMA MergeIs ==
    ASSUME NEW M, NEW F, NEW e \in SomeOps(M, F), NEW l \in SingleOps(M, F),
           NEW m, m = Merge(e, l), m \notin {Separate, Cancelled},
           e.kind = "Delete" /\ l.kind = "Move" /\ l.from = e.to => l.to = e.from
    PROVE  /\ m \in SomeOps(M, F)
           /\ MergesFlags(e, l, m) \/ MergesMoves(e, l, m)
<1>1. e \in OpSet(M, F) /\ l \in OpSet(M, F)
  BY DEF SomeOps, SingleOps
<1>2. CASE e.kind \in FlagKinds /\ l.kind \in FlagKinds
  <2>1. m = MergeFlags(e, l)
    BY <1>2, KindsApart DEF Merge
  <2>2. PICK w \in F : l.flags = {w}
    BY <1>2 DEF SingleOps
  <2>3. e.flags # {}
    BY <1>2 DEF SomeOps
  <2>4. e.flags \subseteq l.flags => e.flags = l.flags
    BY <2>2, <2>3
  <2>5. e.kind = l.kind /\ m = FlagOp(l.kind, e.flags \cup l.flags)
    BY <2>1, <2>4 DEF MergeFlags
  <2>6. e.flags \cup l.flags \in SUBSET F /\ e.flags \cup l.flags # {}
    BY <1>1, <2>3 DEF OpSet
  <2>7. m \in OpSet(M, F) /\ m.kind = l.kind /\ m.flags = e.flags \cup l.flags
    BY <1>2, <2>5, <2>6 DEF OpSet, FlagOp
  <2> QED
    BY <1>2, <2>5, <2>6, <2>7 DEF SomeOps, MergesFlags
<1>3. CASE e.kind \in MoveKinds /\ l.kind \in MoveKinds
  <2>1. m = MergeMoves(e, l)
    BY <1>3, KindsApart DEF Merge
  <2>2. e.from \in M /\ e.to \in M /\ l.to \in M /\ l.from \in M
    BY <1>1, <1>3 DEF OpSet, FlagKinds, MoveKinds
  <2>3. e.to = l.from /\ ~(l.kind = "Move" /\ e.from = l.to)
    BY <2>1 DEF MergeMoves
  <2>4. e.kind = "Move" /\ m = MoveOp(l.kind, e.from, l.to)
    BY <1>3, <2>1, <2>3 DEF MergeMoves, MoveKinds
  <2>5. m \in OpSet(M, F) /\ m.kind = l.kind /\ m.from = e.from /\ m.to = l.to
    BY <1>3, <2>2, <2>4 DEF OpSet, MoveOp
  <2>6. m.kind \notin FlagKinds
    BY <1>3, <2>5, KindsApart
  <2> QED
    BY <1>3, <2>3, <2>4, <2>5, <2>6 DEF SomeOps, MergesMoves
<1>4. CASE /\ ~(e.kind \in FlagKinds /\ l.kind \in FlagKinds)
           /\ ~(e.kind \in MoveKinds /\ l.kind \in MoveKinds)
  BY <1>1, <1>4 DEF Merge
<1> QED
  BY <1>2, <1>3, <1>4

\* Where a fold's relocations come from, whatever the rows ask for.
LEMMA PushGrounds ==
    ASSUME NEW I, NEW M, NEW F, NEW batch \in Seq(RowSet(I, M, F)), NoDetour(batch),
           NEW n \in 1 .. Len(batch), NEW f \in FoldsOver(I, M, F),
           NEW row, row = batch[n], row.op \in SingleOps(M, F), NEW g, g = Push(f, row),
           Origins(f.steps, batch, n - 1, M, F)
    PROVE  /\ Origins(g.steps, batch, n, M, F)
           /\ \A k \in 1 .. Len(f.steps) : LET e == f.steps[k].op IN
                 /\ e \in SomeOps(M, F)
                 /\ e.kind = "Delete" /\ row.op.kind = "Move" /\ row.op.from = e.to => row.op.to = e.from
<1> DEFINE len == Len(f.steps)
           last == f.steps[len]
<1>1. /\ len \in Nat /\ (len # 0 => len \in 1 .. len)
      /\ row \in RowSet(I, M, F) /\ row.op \in OpSet(M, F)
      /\ Len(batch) \in Nat /\ n \in Nat /\ n \in 1 .. n /\ \A h \in 1 .. n - 1 : h \in 1 .. n
  <2>1. len \in Nat
    BY DEF FoldsOver
  <2>2. Len(batch) \in Nat /\ n \in Nat /\ n \in 1 .. n /\ row \in RowSet(I, M, F)
    OBVIOUS
  <2>3. row.op \in OpSet(M, F)
    BY DEF SingleOps
  <2> QED
    BY <2>1, <2>2, <2>3
<1>2. \/ PushKeepsApart(f, g, row)
      \/ len # 0 /\ PushCancels(f, g, row, last)
      \/ len # 0 /\ PushMerges(f, g, row, last)
  BY <1>1, PushIs
<1>3. \A k \in 1 .. len : Grounded(f.steps[k].op, batch, n - 1, M, F)
  BY DEF Origins
<1> HIDE DEF len, last
<1>4. \A k \in 1 .. len : Grounded(f.steps[k].op, batch, n, M, F)
  BY <1>1, <1>3 DEF Grounded
<1>5. Grounded(row.op, batch, n, M, F)
  <2>1. row.op \in SomeOps(M, F)
    BY <1>1 DEF SomeOps, SingleOps
  <2>2. /\ row.op.kind \in MoveKinds => Arrives(batch, row.op, n)
        /\ row.op.kind = "Delete" => Deletes(batch, row.op, n)
    BY DEF Arrives, Deletes
  <2> QED
    BY <1>1, <2>1, <2>2 DEF Grounded
<1>6. ASSUME NEW k \in 1 .. len, NEW e, e = f.steps[k].op
      PROVE  /\ e \in SomeOps(M, F)
             /\ e.kind = "Delete" /\ row.op.kind = "Move" /\ row.op.from = e.to => row.op.to = e.from
  <2>1. Grounded(e, batch, n - 1, M, F)
    BY <1>3, <1>6
  <2>2. SUFFICES ASSUME e.kind = "Delete", row.op.kind = "Move", row.op.from = e.to
                 PROVE  row.op.to = e.from
    BY <2>1 DEF Grounded
  <2>3. PICK i \in 1 .. n - 1 : Deletes(batch, e, i)
    BY <2>1, <2>2 DEF Grounded
  <2>4. /\ batch[n].op.kind = "Move" /\ batch[n].op.from = e.to
        /\ Len(batch) \in Nat /\ n \in 1 .. Len(batch)
    BY <1>1, <2>2
  <2>5. batch[n].op.to = e.from
    BY <2>2, <2>3, <2>4, DeletionComesBack
  <2> QED
    BY <2>5
<1>7. CASE PushKeepsApart(f, g, row)
  <2>1. /\ Len(g.steps) = len + 1 /\ g.steps[len + 1].op = row.op
        /\ \A k \in 1 .. len : g.steps[k].op = f.steps[k].op
    <3>1. Grown(f.steps, g.steps, Alone(row))
      BY <1>7 DEF PushKeepsApart
    <3>2. /\ Len(g.steps) = len + 1 /\ g.steps[len + 1] = Alone(row)
          /\ \A k \in 1 .. len : g.steps[k] = f.steps[k]
      BY <3>1 DEF Grown, len
    <3>3. Alone(row).op = row.op
      BY DEF Alone
    <3> QED
      BY <3>2, <3>3
  <2>2. \A k \in 1 .. len + 1 : k \in 1 .. len \/ k = len + 1
    BY <1>1
  <2>3. Origins(g.steps, batch, n, M, F)
    BY <1>4, <1>5, <2>1, <2>2 DEF Origins
  <2> QED
    BY <1>6, <2>3 DEF len
<1>8. CASE len # 0 /\ PushCancels(f, g, row, last)
  <2>1. Len(g.steps) = len - 1 /\ \A k \in 1 .. len - 1 : g.steps[k].op = f.steps[k].op
    BY <1>8 DEF PushCancels, Shrunk, len
  <2>2. \A k \in 1 .. len - 1 : k \in 1 .. len
    BY <1>1
  <2>3. Origins(g.steps, batch, n, M, F)
    BY <1>4, <2>1, <2>2 DEF Origins
  <2> QED
    BY <1>6, <2>3 DEF len
<1>9. CASE len # 0 /\ PushMerges(f, g, row, last)
  <2> DEFINE m == Merge(last.op, row.op)
  <2>1. /\ Len(g.steps) = len /\ m \notin {Separate, Cancelled} /\ g.steps[len].op = m
        /\ \A k \in 1 .. len - 1 : g.steps[k].op = f.steps[k].op
    BY <1>9 DEF PushMerges, Replaced, len
  <2>2. \A k \in 1 .. len : k \in 1 .. len - 1 \/ k = len
    BY <1>1
  <2>3. \A k \in 1 .. len - 1 : k \in 1 .. len
    BY <1>1
  <2>4. last = f.steps[len] /\ len \in 1 .. len
    BY <1>1, <1>9 DEF last
  <2>5. /\ last.op \in SomeOps(M, F)
        /\ last.op.kind = "Delete" /\ row.op.kind = "Move" /\ row.op.from = last.op.to
           => row.op.to = last.op.from
    BY <1>6, <2>4
  <2>6. m \in SomeOps(M, F) /\ (MergesFlags(last.op, row.op, m) \/ MergesMoves(last.op, row.op, m))
    BY <2>1, <2>5, MergeIs
  <2> HIDE DEF m
  <2>7. m.kind \in MoveKinds => Arrives(batch, m, n)
    BY <2>6, KindsApart DEF Arrives, MergesFlags, MergesMoves
  <2>8. m.kind = "Delete" => Deletes(batch, m, n)
    <3> SUFFICES ASSUME m.kind = "Delete" PROVE Deletes(batch, m, n)
      OBVIOUS
    <3>1. MergesMoves(last.op, row.op, m)
      BY <2>6, KindsApart DEF MergesFlags, MoveKinds
    <3>2. PICK h \in 1 .. n - 1 : Arrives(batch, last.op, h)
      BY <1>3, <2>4, <3>1 DEF Grounded, MergesMoves, MoveKinds
    <3> QED
      BY <3>1, <3>2 DEF Deletes, Arrives, MergesMoves
  <2>9. Grounded(m, batch, n, M, F)
    BY <1>1, <2>6, <2>7, <2>8 DEF Grounded
  <2>10. Origins(g.steps, batch, n, M, F)
    BY <1>4, <2>1, <2>2, <2>3, <2>9 DEF Origins
  <2> QED
    BY <1>6, <2>10 DEF len
<1> QED
  BY <1>2, <1>7, <1>8, <1>9

LEMMA AloneDoes ==
    ASSUME NEW I, NEW F, NEW row \in RowSet(I, Mailboxes, F), NEW q, row.op = q[row.id].op,
           row.op \in SingleOps(Mailboxes, F)
    PROVE  StepDoes(Alone(row), q)
<1>1. Alone(row).rows = {row.id} /\ Alone(row).op = row.op
  BY DEF Alone
<1>2. row.op.kind \in FlagKinds => row.op.flags # {}
  BY DEF SingleOps
<1>3. StepRuns(Alone(row), q)
  BY <1>1, <1>2 DEF StepRuns
<1>4. AsksAll(Alone(row), q)
  BY <1>1 DEF AsksAll
<1>5. row.op.kind \in MoveKinds => Carries({row.id}, row.op.from, row.op.to, q)
  BY NetOne DEF Carries
<1> QED
  BY <1>1, <1>3, <1>4, <1>5 DEF StepDoes

\* So does what a step and one more row merge into.
LEMMA MergeDoes ==
    ASSUME NEW I, NEW F, NEW last \in StepSet(I, Mailboxes, F), NEW row \in RowSet(I, Mailboxes, F),
           NEW q, StepDoes(last, q), row.op = q[row.id].op, row.op \in SingleOps(Mailboxes, F),
           last.op \in SomeOps(Mailboxes, F), IsFiniteSet(last.rows), row.id \notin last.rows,
           last.op.kind = "Delete" /\ row.op.kind = "Move" /\ row.op.from = last.op.to
           => row.op.to = last.op.from,
           NEW m, m = Merge(last.op, row.op), m \notin {Separate, Cancelled}
    PROVE  StepDoes([op |-> m, rows |-> Both(last, row)], q)
<1> DEFINE s == [op |-> m, rows |-> Both(last, row)]
<1>1. s.op = m /\ s.rows = last.rows \cup {row.id}
  BY DEF Both
<1>2. StepRuns(s, q)
  BY MergeRuns DEF StepDoes
<1>3. MergesFlags(last.op, row.op, m) \/ MergesMoves(last.op, row.op, m)
  BY MergeIs
<1> HIDE DEF s
<1>4. CASE MergesFlags(last.op, row.op, m)
  <2>1. m.kind \notin MoveKinds
    BY <1>4, KindsApart DEF MergesFlags
  <2>2. AsksAll(s, q)
    BY <1>1, <1>4 DEF AsksAll, StepDoes, MergesFlags
  <2> QED
    BY <1>1, <1>2, <2>1, <2>2 DEF StepDoes, s
<1>5. CASE MergesMoves(last.op, row.op, m)
  <2>1. m.kind \notin FlagKinds /\ row.op.kind \in MoveKinds /\ last.op.kind \in MoveKinds
    BY <1>5, KindsApart DEF MergesMoves, MoveKinds
  <2>2. Carries(s.rows, m.from, m.to, q)
    <3> SUFFICES ASSUME NEW b \in Mailboxes PROVE Net(s.rows, b, q) = At(b, m.to) - At(b, m.from)
      BY DEF Carries
    <3>1. Net(last.rows, b, q) = At(b, last.op.to) - At(b, last.op.from)
      BY <2>1 DEF StepDoes, Carries
    <3>2. Net({row.id}, b, q) = At(b, row.op.to) - At(b, row.op.from)
      <4>1. q[row.id].op.kind \in MoveKinds
        BY <2>1
      <4>2. Net({row.id}, b, q) = At(b, q[row.id].op.to) - At(b, q[row.id].op.from)
        BY <4>1, NetOne, Zenon
      <4> QED
        BY <4>2
    <3>3. Net(s.rows, b, q) = Net(last.rows, b, q) + Net({row.id}, b, q)
      <4>1. IsFiniteSet({row.id}) /\ last.rows \cap {row.id} = {}
        BY FS_Singleton
      <4>2. Net(last.rows \cup {row.id}, b, q) = Net(last.rows, b, q) + Net({row.id}, b, q)
        BY <4>1, NetJoin
      <4> QED
        BY <1>1, <4>2
    <3> QED
      BY <1>5, <3>1, <3>2, <3>3 DEF MergesMoves, At
  <2> QED
    BY <1>1, <1>2, <2>1, <2>2 DEF StepDoes, AsksAll, s
<1> QED
  BY <1>3, <1>4, <1>5

\* The rows that cancel out bring nothing.
Idles(S, q) == \A b \in Mailboxes : Net(S, b, q) = 0

LEMMA CancelIdles ==
    ASSUME NEW I, NEW F, NEW last \in StepSet(I, Mailboxes, F), NEW row \in RowSet(I, Mailboxes, F),
           NEW q, StepDoes(last, q), row.op = q[row.id].op, row.op \in SingleOps(Mailboxes, F),
           IsFiniteSet(last.rows), row.id \notin last.rows,
           Merge(last.op, row.op) = Cancelled
    PROVE  Idles(Both(last, row), q)
<1> SUFFICES ASSUME NEW b \in Mailboxes PROVE Net(Both(last, row), b, q) = 0
  BY DEF Idles
<1>1. Net(Both(last, row), b, q) = Net(last.rows, b, q) + Net({row.id}, b, q)
  <2>1. IsFiniteSet({row.id}) /\ last.rows \cap {row.id} = {}
    BY FS_Singleton
  <2>2. Net(last.rows \cup {row.id}, b, q) = Net(last.rows, b, q) + Net({row.id}, b, q)
    BY <2>1, NetJoin
  <2> QED
    BY <2>2 DEF Both
<1>2. \/ last.op.kind \in MoveKinds /\ row.op.kind \in MoveKinds
      \/ last.op.kind \in FlagKinds /\ row.op.kind \in FlagKinds
  BY MergeCancels DEF StepDoes
<1>3. CASE last.op.kind \in FlagKinds /\ row.op.kind \in FlagKinds
  <2>1. /\ \A i \in last.rows : q[i].op.kind \notin MoveKinds
        /\ \A i \in {row.id} : q[i].op.kind \notin MoveKinds
    BY <1>3, KindsApart DEF StepDoes, StepRuns
  <2>2. Net(last.rows, b, q) = 0 /\ Net({row.id}, b, q) = 0
    BY <2>1, NetNone
  <2> QED
    BY <1>1, <2>2
<1>4. CASE last.op.kind \in MoveKinds /\ row.op.kind \in MoveKinds
  <2>1. MergeMoves(last.op, row.op) = Cancelled
    BY <1>4, KindsApart DEF Merge
  <2>2. last.op.to = row.op.from /\ last.op.from = row.op.to
    BY <1>4, <2>1 DEF MergeMoves, Separate, Cancelled, MoveOp, MoveKinds
  <2>3. Net(last.rows, b, q) = At(b, last.op.to) - At(b, last.op.from)
    BY <1>4 DEF StepDoes, Carries
  <2>4. Net({row.id}, b, q) = At(b, row.op.to) - At(b, row.op.from)
    BY <1>4, NetOne
  <2> QED
    BY <1>1, <2>2, <2>3, <2>4 DEF At
<1> QED
  BY <1>2, <1>3, <1>4

\* The steps of a fold do what their rows ask for, and what cancelled out brings nothing.
FoldDoes(fold, q) == /\ \A k \in 1 .. Len(fold.steps) : StepDoes(fold.steps[k], q)
                     /\ Idles(fold.obsolete, q)

LEMMA PushDoes ==
    ASSUME NEW I, IsFiniteSet(I), NEW F, NEW f \in FoldsOver(I, Mailboxes, F),
           NEW row \in RowSet(I, Mailboxes, F), NEW g, g = Push(f, row),
           NEW q, row.op = q[row.id].op, row.op \in SingleOps(Mailboxes, F),
           SettlesOnce(f), ~Settles(f, row.id), FoldDoes(f, q),
           \A k \in 1 .. Len(f.steps) : LET e == f.steps[k].op IN
              /\ e \in SomeOps(Mailboxes, F)
              /\ e.kind = "Delete" /\ row.op.kind = "Move" /\ row.op.from = e.to => row.op.to = e.from
    PROVE  FoldDoes(g, q)
<1> DEFINE n == Len(f.steps)
           last == f.steps[n]
<1>1. /\ n \in Nat /\ f.obsolete \in SUBSET I
      /\ \A k \in 1 .. n : f.steps[k] \in StepSet(I, Mailboxes, F)
      /\ \/ PushKeepsApart(f, g, row)
         \/ n # 0 /\ PushCancels(f, g, row, last)
         \/ n # 0 /\ PushMerges(f, g, row, last)
  <2>1. f.steps \in Seq(StepSet(I, Mailboxes, F)) /\ f.obsolete \in SUBSET I
    BY DEF FoldsOver
  <2> QED
    BY <2>1, PushIs, LenProperties, ElementOfSeq
<1> HIDE DEF n, last
<1>2. CASE PushKeepsApart(f, g, row)
  <2>1. /\ Len(g.steps) = n + 1 /\ \A k \in 1 .. n : g.steps[k] = f.steps[k]
        /\ g.steps[n + 1] = Alone(row) /\ g.obsolete = f.obsolete
    BY <1>2 DEF PushKeepsApart, Grown, n
  <2>2. \A k : k \in 1 .. n + 1 => k \in 1 .. n \/ k = n + 1
    BY <1>1
  <2>3. StepDoes(Alone(row), q)
    BY AloneDoes
  <2> QED
    BY <2>1, <2>2, <2>3 DEF FoldDoes, n
<1>3. ASSUME n # 0
      PROVE  /\ n \in 1 .. n /\ last = f.steps[n]
             /\ last \in StepSet(I, Mailboxes, F) /\ StepDoes(last, q)
             /\ IsFiniteSet(last.rows) /\ row.id \notin last.rows
             /\ last.rows \cap f.obsolete = {} /\ row.id \notin f.obsolete
             /\ last.op \in SomeOps(Mailboxes, F)
             /\ last.op.kind = "Delete" /\ row.op.kind = "Move" /\ row.op.from = last.op.to
                => row.op.to = last.op.from
  <2>1. n \in 1 .. n /\ last = f.steps[n]
    BY <1>1, <1>3 DEF last
  <2>2. last \in StepSet(I, Mailboxes, F) /\ StepDoes(last, q)
    BY <1>1, <2>1 DEF FoldDoes, n
  <2>3. last.rows \subseteq I
    BY <2>2 DEF StepSet
  <2>4. IsFiniteSet(last.rows)
    BY <2>3, FS_Subset
  <2>5. row.id \notin last.rows /\ last.rows \cap f.obsolete = {} /\ row.id \notin f.obsolete
    BY <2>1 DEF SettlesOnce, Settles, SettledBy, n
  <2>6. /\ last.op \in SomeOps(Mailboxes, F)
        /\ last.op.kind = "Delete" /\ row.op.kind = "Move" /\ row.op.from = last.op.to
           => row.op.to = last.op.from
    BY <2>1 DEF n
  <2> QED
    BY <2>1, <2>2, <2>4, <2>5, <2>6
<1>4. CASE n # 0 /\ PushCancels(f, g, row, last)
  <2>1. /\ Len(g.steps) = n - 1 /\ \A k \in 1 .. n - 1 : g.steps[k] = f.steps[k]
        /\ g.obsolete = f.obsolete \cup Both(last, row)
        /\ Merge(last.op, row.op) = Cancelled
    BY <1>4 DEF PushCancels, Shrunk, n
  <2>2. \A k \in 1 .. n - 1 : k \in 1 .. n
    BY <1>1
  <2>3. Idles(Both(last, row), q)
    BY <1>3, <1>4, <2>1, CancelIdles
  <2>4. /\ f.obsolete \cap Both(last, row) = {}
        /\ IsFiniteSet(f.obsolete) /\ IsFiniteSet(Both(last, row))
    <3>1. Both(last, row) = last.rows \cup {row.id}
      BY DEF Both
    <3>2. IsFiniteSet(last.rows \cup {row.id})
      BY <1>3, <1>4, FS_AddElement
    <3> QED
      BY <1>1, <1>3, <1>4, <3>1, <3>2, FS_Subset
  <2>5. Idles(g.obsolete, q)
    <3> SUFFICES ASSUME NEW b \in Mailboxes PROVE Net(g.obsolete, b, q) = 0
      BY DEF Idles
    <3>1. Net(f.obsolete \cup Both(last, row), b, q)
             = Net(f.obsolete, b, q) + Net(Both(last, row), b, q)
      BY <2>4, NetJoin
    <3> QED
      BY <2>1, <2>3, <3>1 DEF Idles, FoldDoes
  <2> QED
    BY <2>1, <2>2, <2>5 DEF FoldDoes, n
<1>5. CASE n # 0 /\ PushMerges(f, g, row, last)
  <2> DEFINE m == Merge(last.op, row.op)
             s == [op |-> m, rows |-> Both(last, row)]
  <2>1. /\ Len(g.steps) = n /\ \A k \in 1 .. n - 1 : g.steps[k] = f.steps[k]
        /\ g.steps[n] = s /\ g.obsolete = f.obsolete /\ m \notin {Separate, Cancelled}
    BY <1>5 DEF PushMerges, Replaced, n
  <2>2. \A k : k \in 1 .. n => k \in 1 .. n - 1 \/ k = n
    BY <1>1
  <2>3. \A k \in 1 .. n - 1 : k \in 1 .. n
    BY <1>1
  <2>4. StepDoes(s, q)
    BY <1>3, <1>5, <2>1, MergeDoes
  <2> HIDE DEF s
  <2> QED
    BY <2>1, <2>2, <2>3, <2>4 DEF FoldDoes, n
<1> QED
  BY <1>1, <1>2, <1>4, <1>5

\* A fold whose batch restores nothing elsewhere.
LEMMA FoldsDo ==
    ASSUME NEW I \in SUBSET Nat, IsFiniteSet(I), NEW F, NEW batch \in Batches(I, Mailboxes, F), NEW q,
           TakenFrom(batch, q, Mailboxes, F), NoDetour(batch)
    PROVE  FoldDoes(Coalesced(batch), q)
<1> DEFINE n == Len(batch)
<1>1. n \in Nat /\ batch \in Seq(RowSet(I, Mailboxes, F)) /\ \A k \in 1 .. n : batch[k] \in RowSet(I, Mailboxes, F)
  BY LenProperties, ElementOfSeq DEF Batches
<1>2. PICK f : IsFold(f, batch, n) /\ Coalesced(batch) = f[n]
  BY <1>1, CoalescedIs
<1>3. f[0] = EmptyFold /\ \A k \in 1 .. n : f[k] = Push(f[k - 1], batch[k])
  BY <1>1, <1>2 DEF IsFold
<1>4. \A k \in 0 .. n : /\ f[k] \in FoldsOver(I, Mailboxes, F)
                        /\ SettlesJust(f[k], Ids(batch, k))
                        /\ SettlesOnce(f[k])
  BY <1>2, FoldSettles
<1> HIDE DEF n
<1> DEFINE S == {k \in 0 .. n : FoldDoes(f[k], q) /\ Origins(f[k].steps, batch, k, Mailboxes, F)}
<1>5. 0 \in S
  <2>1. f[0].steps = <<>> /\ Len(f[0].steps) = 0 /\ f[0].obsolete = {}
    BY <1>3 DEF EmptyFold
  <2>2. Idles({}, q)
    BY NetNone DEF Idles
  <2>3. FoldDoes(f[0], q)
    BY <2>1, <2>2 DEF FoldDoes
  <2>4. Origins(f[0].steps, batch, 0, Mailboxes, F)
    BY <2>1 DEF Origins
  <2> QED
    BY <1>1, <2>3, <2>4
<1>6. \A k \in 1 .. n : k - 1 \in S => k \in S
  <2> SUFFICES ASSUME NEW k \in 1 .. n, k - 1 \in S PROVE k \in S
    OBVIOUS
  <2> DEFINE h == f[k - 1]
             row == batch[k]
  <2>1. /\ h \in FoldsOver(I, Mailboxes, F) /\ SettlesJust(h, Ids(batch, k - 1)) /\ SettlesOnce(h)
        /\ FoldDoes(h, q) /\ Origins(h.steps, batch, k - 1, Mailboxes, F)
    BY <1>1, <1>4
  <2>2. /\ f[k] = Push(h, row) /\ row \in RowSet(I, Mailboxes, F)
        /\ row.op = q[row.id].op /\ row.op \in SingleOps(Mailboxes, F)
    BY <1>1, <1>3 DEF TakenFrom, n
  <2>3. ~Settles(h, row.id)
    <3>1. \A j \in 1 .. k - 1 : j \in 1 .. n /\ j # k
      BY <1>1
    <3>2. row.id \notin Ids(batch, k - 1)
      BY <3>1 DEF Ids, Batches, n
    <3> QED
      BY <2>1, <3>2 DEF SettlesJust
  <2> HIDE DEF h
  <2>4. /\ Origins(f[k].steps, batch, k, Mailboxes, F)
        /\ \A j \in 1 .. Len(h.steps) : LET e == h.steps[j].op IN
              /\ e \in SomeOps(Mailboxes, F)
              /\ e.kind = "Delete" /\ row.op.kind = "Move" /\ row.op.from = e.to => row.op.to = e.from
    <3>1. k \in 1 .. Len(batch)
      BY DEF n
    <3> HIDE DEF row
    <3>2. row = batch[k]
      BY DEF row
    <3>3. PICK g : g = f[k]
      OBVIOUS
    <3>4. /\ batch \in Seq(RowSet(I, Mailboxes, F)) /\ h \in FoldsOver(I, Mailboxes, F)
          /\ row.op \in SingleOps(Mailboxes, F) /\ g = Push(h, row)
          /\ Origins(h.steps, batch, k - 1, Mailboxes, F)
      BY <1>1, <2>1, <2>2, <3>3
    <3>5. /\ Origins(g.steps, batch, k, Mailboxes, F)
          /\ \A j \in 1 .. Len(h.steps) : LET e == h.steps[j].op IN
                /\ e \in SomeOps(Mailboxes, F)
                /\ e.kind = "Delete" /\ row.op.kind = "Move" /\ row.op.from = e.to
                   => row.op.to = e.from
      BY <3>1, <3>2, <3>4, PushGrounds
    <3> QED
      BY <3>3, <3>5
  <2> HIDE DEF row
  <2>5. FoldDoes(f[k], q)
    BY <2>1, <2>2, <2>3, <2>4, PushDoes
  <2> QED
    BY <1>1, <2>4, <2>5
<1> HIDE DEF S
<1>7. \A k \in 0 .. n : k \in S
  BY <1>1, <1>5, <1>6, InductionUpTo
<1> QED
  BY <1>1, <1>2, <1>7 DEF S

-----------------------------------------------------------------------------
(* What a pass plans agrees with what is asked for.                        *)

\* The due rows of a message restore nothing elsewhere, so its batch takes no detour.
LEMMA BatchDoes ==
    ASSUME QueueType, OneFlagEach, NEW r \in Rows, ~RestoresElsewhere(r)
    PROVE  FoldDoes(BatchOf(r), queue)
<1>1. PICK batch : IsBatchOf(batch, r)
  BY BatchExists
<1> DEFINE n == Len(batch)
           id(k) == batch[k].id
           mine == Due \cap Queued(r)
<1>2. /\ \A j, k \in 1 .. n : j < k => id(j) < id(k)
      /\ \A k \in 1 .. n : batch[k].op = queue[id(k)].op /\ id(k) \in mine
  <2>1. TakenFrom(batch, queue, Mailboxes, Flags) /\ Ids(batch, n) = {i \in Due : queue[i].target = r}
    BY <1>1 DEF IsBatchOf
  <2>2. \A k \in 1 .. n : id(k) \in Ids(batch, n)
    BY DEF Ids
  <2>3. {i \in Due : queue[i].target = r} \subseteq mine
    BY DEF Due, Queued
  <2> QED
    BY <2>1, <2>2, <2>3 DEF TakenFrom
<1>3. n \in Nat
  BY <1>1, LenProperties DEF IsBatchOf, Batches
<1>4. \A h \in 1 .. n : \A k \in 1 .. h - 1 : k \in 1 .. n /\ k < h
  BY <1>3
<1>5. \A a, b \in mine : a < b /\ queue[a].op.kind = "Delete" /\ queue[b].op.from = queue[a].op.to =>
         /\ queue[b].op.to = queue[a].op.from
         /\ \A h \in mine : h < a /\ queue[h].op.kind \in MoveKinds => queue[h].op.to # queue[a].op.from
  BY DEF RestoresElsewhere
<1> HIDE DEF mine
<1>6. NoDetour(batch)
  <2> SUFFICES ASSUME NEW i \in 1 .. n, NEW j \in 1 .. n, i < j,
                      batch[i].op.kind = "Delete", batch[j].op.from = batch[i].op.to
               PROVE  /\ batch[j].op.to = batch[i].op.from
                      /\ \A h \in 1 .. i - 1 : batch[h].op.kind \in MoveKinds =>
                            batch[h].op.to # batch[i].op.from
    BY DEF NoDetour
  <2>1. /\ id(i) \in mine /\ id(j) \in mine /\ id(i) < id(j)
        /\ queue[id(i)].op = batch[i].op /\ queue[id(j)].op = batch[j].op
    BY <1>2
  <2>2. /\ queue[id(j)].op.to = queue[id(i)].op.from
        /\ \A h \in mine : h < id(i) /\ queue[h].op.kind \in MoveKinds =>
              queue[h].op.to # queue[id(i)].op.from
    BY <1>5, <2>1
  <2>3. \A h \in 1 .. i - 1 : id(h) \in mine /\ id(h) < id(i) /\ queue[id(h)].op = batch[h].op
    BY <1>2, <1>4
  <2> QED
    BY <2>1, <2>2, <2>3
<1>7. /\ DOMAIN queue \in SUBSET Nat /\ IsFiniteSet(DOMAIN queue)
      /\ batch \in Batches(DOMAIN queue, Mailboxes, Flags)
      /\ TakenFrom(batch, queue, Mailboxes, Flags)
      /\ BatchOf(r) = Coalesced(batch)
  BY <1>1, QueueIs DEF IsBatchOf
<1> QED
  BY <1>6, <1>7, FoldsDo

\* The server's row and the changes since.
LEMMA SinceIs ==
    ASSUME QueueType, NEW r, NEW f
    PROVE  /\ Changers(r, f) \subseteq DOMAIN queue
           /\ \A i \in DOMAIN queue : i \in Nat /\ 0 < i /\ WithServer(r, f)[i] = queue[i]
           /\ 0 \notin DOMAIN queue
           /\ Since(r, f) \in SUBSET Nat /\ 0 \in Since(r, f)
           /\ WithServer(r, f)[0] = ServersRow(r, f)
           /\ \A i \in Since(r, f) : Touches(WithServer(r, f), i, f)
<1>1. DOMAIN queue = 1 .. Len(queue) /\ Len(queue) \in Nat
  BY QueueIs
<1>2. Changers(r, f) \subseteq DOMAIN queue
  BY DEF Changers, Queued
<1>3. \A i \in DOMAIN queue : i \in Nat /\ 0 < i /\ WithServer(r, f)[i] = queue[i]
  BY <1>1 DEF WithServer
<1>4. WithServer(r, f)[0] = ServersRow(r, f)
  BY DEF WithServer
<1>5. Since(r, f) \in SUBSET Nat /\ 0 \in Since(r, f)
  BY <1>2, <1>3 DEF Since
<1>6. Touches(WithServer(r, f), 0, f)
  BY <1>4 DEF Touches, ServersRow, FlagOp, FlagKinds
<1>7. \A i \in Changers(r, f) : Touches(WithServer(r, f), i, f)
  BY <1>2, <1>3 DEF Changers, Touches
<1> QED
  BY <1>1, <1>2, <1>3, <1>4, <1>5, <1>6, <1>7 DEF Since

\* The kind of the server's row says whether the server has the flag.
LEMMA ServersKind ==
    ASSUME NEW r, NEW f
    PROVE  /\ ServersRow(r, f).op.kind
                 = IF f \in server[MessageOf(r)].flags THEN "SetFlags" ELSE "ClearFlags"
           /\ ServersRow(r, f).op.kind = "SetFlags" <=> f \in server[MessageOf(r)].flags
BY DEF ServersRow, FlagOp

\* A fold leaves the changes balanced with the server's row before them.
LEMMA BatchAgrees ==
    ASSUME TypeInv, ShowInv, folded = {}, NEW r \in Rows, RowFits(r), NEW f \in Flags,
           Balanced(Since(r, f), folded, WithServer(r, f)), Served(r) = {}
    PROVE  Balanced(Since(r, f), BatchOf(r).obsolete, WithServer(r, f))
<1> DEFINE C == Since(r, f)
           D == Changers(r, f)
           q == WithServer(r, f)
           mine == {i \in Due : queue[i].target = r}
<1>1. QueueType /\ OneFlagEach /\ NotDueIsDeferred /\ DeferredFirst(r)
  BY DEF TypeInv, ShowInv, RowFits
<1>2. Alternating(C, q) /\ Alternating(D, queue)
  <2>1. C \ {} = C /\ D \ {} = D
    OBVIOUS
  <2> HIDE DEF C, D, q
  <2>2. Balanced(D, {}, queue) /\ Balanced(C, {}, q)
    BY DEF RowFits, FlagFits, D, C, q
  <2> QED
    BY <2>1, <2>2 DEF Balanced
<1>3. PICK batch : IsBatchOf(batch, r)
  BY <1>1, BatchExists
<1>4. /\ C = {0} \cup D /\ C \in SUBSET Nat /\ D \subseteq DOMAIN queue /\ 0 \notin DOMAIN queue
      /\ \A i \in DOMAIN queue : i \in Nat /\ 0 < i /\ q[i] = queue[i]
      /\ \A i \in C : Touches(q, i, f)
  BY <1>1, SinceIs DEF Since
<1>5. mine \subseteq DOMAIN queue /\ \A i \in mine : Touches(q, i, f) => i \in C
  BY <1>4 DEF Changers, Queued, Due, Touches
<1>6. \A i \in C \ mine : \A j \in C \cap mine : i < j
  <2> SUFFICES ASSUME NEW i \in C \ mine, NEW j \in C \cap mine PROVE i < j
    OBVIOUS
  <2>1. j \in D \cap Due /\ j \in DOMAIN queue
    BY <1>4, <1>5 DEF Changers, Due
  <2>2. CASE i = 0
    BY <1>4, <2>1, <2>2
  <2>3. CASE i # 0
    <3>1. i \in D \ Due
      BY <1>4, <2>3 DEF Changers, Queued
    <3> QED
      BY <1>1, <1>2, <2>1, <3>1, NotDueComeFirst
  <2> QED
    BY <2>2, <2>3
<1>7. /\ batch \in Batches(DOMAIN queue, Mailboxes, Flags)
      /\ TakenFrom(batch, queue, Mailboxes, Flags)
      /\ DOMAIN queue \in SUBSET Nat /\ Ids(batch, Len(batch)) = mine
      /\ BatchOf(r) = Coalesced(batch)
  BY <1>1, <1>3, QueueIs DEF IsBatchOf
<1> HIDE DEF C, D, q, mine
<1>8. TakenFrom(batch, q, Mailboxes, Flags)
  <2>1. \A k \in 1 .. Len(batch) : batch[k].id \in DOMAIN queue
    BY <1>5, <1>7 DEF Ids
  <2> QED
    BY <1>4, <1>7, <2>1 DEF TakenFrom
<1>9. Spans(C, batch, q, f)
  BY <1>4, <1>5, <1>6, <1>7 DEF Spans
<1>10. Balanced(C, Coalesced(batch).obsolete, q)
  BY <1>2, <1>4, <1>7, <1>8, <1>9, FoldBalances
<1> QED
  BY <1>7, <1>10 DEF C, q

\* The same changes in another queue, with the same server and the same wish.
LEMMA FlagStays ==
    ASSUME NEW r, NEW f, FlagAgrees(r, f), Since(r, f)' = Since(r, f),
           Since(r, f) \ folded' = Since(r, f) \ folded,
           \A i \in Since(r, f) : WithServer(r, f)'[i].op = WithServer(r, f)[i].op,
           f \in wish'[MessageOf(r)].flags <=> f \in wish[MessageOf(r)].flags
    PROVE  FlagAgrees(r, f)'
<1>1. Balanced(Since(r, f), folded', WithServer(r, f)')
  BY BalancedSame DEF FlagAgrees
<1>2. EndsIn(Since(r, f), WithServer(r, f)', f \in wish'[MessageOf(r)].flags)
  BY DEF EndsIn, FlagAgrees
<1> QED
  BY <1>1, <1>2 DEF FlagAgrees

\* The queue keeps its rows, and the server its flags.
LEMMA ServersRowStays ==
    ASSUME QueueType, QueueType', NEW r, NEW f,
           \A i \in DOMAIN queue : i \in DOMAIN queue' /\ queue'[i].op = queue[i].op,
           f \in server'[MessageOf(r)].flags <=> f \in server[MessageOf(r)].flags
    PROVE  \A i \in {0} \cup DOMAIN queue : WithServer(r, f)'[i].op = WithServer(r, f)[i].op
<1>1. ServersRow(r, f)' = ServersRow(r, f)
  BY DEF ServersRow
<1>2. WithServer(r, f)[0] = ServersRow(r, f) /\ \A i \in DOMAIN queue : WithServer(r, f)[i] = queue[i]
  BY SinceIs
<1>3. queue' \in Seq(QueueRow)
  BY DEF QueueType
<1>4. 0 \notin DOMAIN queue'
  BY <1>3
<1>5. /\ WithServer(r, f)'[0] = ServersRow(r, f)'
      /\ \A i \in DOMAIN queue' : WithServer(r, f)'[i] = queue'[i]
  BY <1>4 DEF WithServer
<1> QED
  BY <1>1, <1>2, <1>5

LEMMA BoxStays ==
    ASSUME NEW r, BoxAgrees(r), ToServe(r)' = ToServe(r),
           \A i \in ToServe(r) : queue'[i].op = queue[i].op,
           server'[MessageOf(r)].box = server[MessageOf(r)].box,
           wish'[MessageOf(r)].box = wish[MessageOf(r)].box
    PROVE  BoxAgrees(r)'
<1>1. \A b \in Mailboxes : Net(ToServe(r), b, queue') = Net(ToServe(r), b, queue)
  BY NetSame
<1> QED
  BY <1>1 DEF BoxAgrees, Carries

\* What waits to be sent stays, and the server and the user hold to what they have.
Still(r) ==
    /\ \A i \in DOMAIN queue : i \in DOMAIN queue' /\ queue'[i].op = queue[i].op
    /\ Waits(r)' = Waits(r)
    /\ Waits(r) \ folded' = Waits(r) \ folded
    /\ server'[MessageOf(r)] = server[MessageOf(r)]
    /\ wish'[MessageOf(r)] = wish[MessageOf(r)]

LEMMA StillAgrees ==
    ASSUME TypeInv, TypeInv', NEW r \in Rows, Agrees(r), Still(r), ShowsWish(r)'
    PROVE  Agrees(r)'
<1>1. QueueType /\ QueueType'
  BY DEF TypeInv
<1>2. Waits(r) \subseteq DOMAIN queue
  BY DEF Waits, Queued
<1>3. BoxAgrees(r)'
  <2>1. BoxAgrees(r)
    BY DEF Agrees
  <2>2. ToServe(r)' = ToServe(r) /\ ToServe(r) \subseteq DOMAIN queue
    BY <1>2 DEF Still, ToServe
  <2> QED
    BY <2>1, <2>2, BoxStays DEF Still
<1>4. \A f \in Flags : FlagAgrees(r, f)'
  <2> TAKE f \in Flags
  <2>1. FlagAgrees(r, f)
    BY DEF Agrees
  <2>2. Since(r, f)' = Since(r, f)
    <3>1. Since(r, f) = {0} \cup {i \in Waits(r) : Touches(queue, i, f)}
      BY DEF Since, Changers, Waits
    <3>2. Since(r, f)' = {0} \cup {i \in Waits(r)' : Touches(queue', i, f)}
      BY DEF Since, Changers, Waits
    <3>3. \A i \in Waits(r) : Touches(queue', i, f) <=> Touches(queue, i, f)
      BY <1>2 DEF Touches, Still
    <3>4. Waits(r)' = Waits(r)
      BY DEF Still
    <3> QED
      BY <3>1, <3>2, <3>3, <3>4
  <2>3. Since(r, f) \ folded' = Since(r, f) \ folded
    <3>1. 0 \notin folded /\ 0 \notin folded'
      <4>1. folded \subseteq DOMAIN queue /\ folded' \subseteq DOMAIN queue'
        BY DEF TypeInv, PassType
      <4>2. queue \in Seq(QueueRow) /\ queue' \in Seq(QueueRow)
        BY <1>1 DEF QueueType
      <4>3. 0 \notin DOMAIN queue /\ 0 \notin DOMAIN queue'
        BY <4>2
      <4> QED
        BY <4>1, <4>3
    <3>2. Since(r, f) \subseteq {0} \cup Waits(r)
      BY DEF Since, Changers, Waits
    <3> QED
      BY <3>1, <3>2 DEF Still
  <2>4. \A i \in {0} \cup DOMAIN queue : WithServer(r, f)'[i].op = WithServer(r, f)[i].op
    BY <1>1, ServersRowStays DEF Still
  <2>5. Since(r, f) \subseteq {0} \cup DOMAIN queue
    BY <1>2 DEF Since, Changers, Waits
  <2>6. \A i \in Since(r, f) : WithServer(r, f)'[i].op = WithServer(r, f)[i].op
    BY <2>4, <2>5
  <2>7. f \in wish'[MessageOf(r)].flags <=> f \in wish[MessageOf(r)].flags
    BY DEF Still
  <2> QED
    BY <2>1, <2>2, <2>3, <2>6, <2>7, FlagStays
<1> QED
  BY <1>3, <1>4 DEF Agrees

\* No row comes into use, and none is moved or flagged.
Unmoved == \A u \in Rows :
    /\ Present(u)' => /\ Present(u)
                      /\ local'[u].box = local[u].box /\ local'[u].flags = local[u].flags
    /\ Queued(u)' \subseteq Queued(u)

LEMMA UnmovedIs ==
    ASSUME Unmoved, NEW r \in Rows
    PROVE  /\ OnlyRow(r) => OnlyRow(r)'
           /\ ShowsWish(r) /\ wish'[MessageOf(r)] = wish[MessageOf(r)] => ShowsWish(r)'
<1>1. \A u \in Rows : InUse(u)' => InUse(u)
  BY DEF InUse, Unmoved
<1>2. OnlyRow(r) => OnlyRow(r)'
  BY <1>1 DEF OnlyRow
<1>3. ShowsWish(r) /\ wish'[MessageOf(r)] = wish[MessageOf(r)] => ShowsWish(r)'
  BY DEF ShowsWish, Unmoved
<1> QED
  BY <1>2, <1>3

LEMMA UnmovedAgrees ==
    ASSUME TypeInv, TypeInv', Unmoved, NEW r \in Rows, OnlyRow(r), Agrees(r), Still(r)
    PROVE  OnlyRow(r)' /\ Agrees(r)'
<1>1. OnlyRow(r)' /\ ShowsWish(r)'
  BY UnmovedIs DEF Agrees, Still
<1> QED
  BY <1>1, StillAgrees

\* Every message that is not excused keeps a row that agrees.
EachKeeps == /\ astray \subseteq astray' /\ doubled \subseteq doubled'
             /\ \A r \in Rows : /\ MessageOf(r) \notin astray' \cup doubled'
                                /\ OnlyRow(r) /\ Agrees(r)
                                => OnlyRow(r)' /\ Agrees(r)'

LEMMA EachKeepsIs ==
    ASSUME EachAgrees, EachKeeps
    PROVE  EachAgrees'
<1> SUFFICES ASSUME NEW m \in Messages, m \notin astray' \cup doubled'
             PROVE  \E r \in Rows : MessageOf(r) = m /\ OnlyRow(r)' /\ Agrees(r)'
  BY DEF EachAgrees
<1>1. m \notin astray \cup doubled
  BY DEF EachKeeps
<1>2. PICK r \in Rows : MessageOf(r) = m /\ OnlyRow(r) /\ Agrees(r)
  BY <1>1 DEF EachAgrees
<1> QED
  BY <1>2 DEF EachKeeps

LEMMA StepDoesSame ==
    ASSUME NEW s, NEW q, NEW p, StepDoes(s, q), \A x \in s.rows : p[x].op = q[x].op
    PROVE  StepDoes(s, p)
<1>1. StepRuns(s, p)
  BY DEF StepDoes, StepRuns
<1>2. AsksAll(s, p)
  BY DEF StepDoes, AsksAll
<1>3. s.op.kind \in MoveKinds => Carries(s.rows, s.op.from, s.op.to, p)
  <2>1. \A b \in Mailboxes : Net(s.rows, b, p) = Net(s.rows, b, q)
    BY NetSame
  <2> QED
    BY <2>1 DEF StepDoes, Carries
<1> QED
  BY <1>1, <1>2, <1>3 DEF StepDoes

\* What is planned does what it did.
OpsStay == \A i \in DOMAIN queue : i \in DOMAIN queue' /\ queue'[i].op = queue[i].op

LEMMA PlanStill ==
    ASSUME TypeInv, PlanDoes, OpsStay, plan' \subseteq plan, astray \subseteq astray'
    PROVE  PlanDoes'
<1> SUFFICES ASSUME NEW s \in plan, MessageOf(s.target) \notin astray'
             PROVE  StepDoes(s, queue')
  BY DEF PlanDoes
<1>1. StepDoes(s, queue)
  BY DEF PlanDoes
<1>2. s.rows \subseteq DOMAIN queue
  BY DEF TypeInv, PassType, StepFits
<1> QED
  BY <1>1, <1>2, StepDoesSame DEF OpsStay

\* What is being run does what it did.
LEMMA SendsStill ==
    ASSUME TypeInv, SendsIt, OpsStay, UNCHANGED pass_vars, astray \subseteq astray'
    PROVE  SendsIt'
<1>1. pc' = pc /\ step' = step /\ address' = address
  BY DEF pass_vars
<1> SUFFICES ASSUME pc = "ready", MessageOf(step.target) \notin astray'
             PROVE  /\ StepDoes(step, queue')
                    /\ step.op.kind \in MoveKinds => address.box = step.op.from
  BY <1>1 DEF SendsIt
<1>2. /\ StepDoes(step, queue)
      /\ step.op.kind \in MoveKinds => address.box = step.op.from
  BY DEF SendsIt
<1>3. step.rows \subseteq DOMAIN queue
  BY DEF TypeInv, PassType, StepFits, Busy
<1> QED
  BY <1>2, <1>3, StepDoesSame DEF OpsStay

\* The queue keeps its messages, and the store keeps each of their rows.
LEMMA RowsStill ==
    ASSUME TypeInv, RowsWere, DOMAIN queue' = DOMAIN queue,
           \A i \in DOMAIN queue : queue'[i].target = queue[i].target,
           \A r \in Rows : local[r].box # "none" => local'[r].box # "none"
    PROVE  RowsWere'
<1> SUFFICES ASSUME NEW i \in DOMAIN queue PROVE local'[queue[i].target].box # "none"
  BY DEF RowsWere
<1>1. queue[i].target \in Rows
  BY QueueIs DEF TypeInv, QueueRow
<1> QED
  BY <1>1 DEF RowsWere

\* A step that leaves the queue, the server and the user's wishes alone.
QuietMoves == \A r \in Rows :
    /\ Present(r)' => /\ Present(r)
                      /\ local'[r].box = local[r].box /\ local'[r].flags = local[r].flags
    /\ local[r].box # "none" => local'[r].box # "none"
QuietPass == \A r \in Rows : MessageOf(r) \notin astray' =>
    Served(r)' = Served(r) /\ Queued(r) \ folded' = Queued(r) \ folded

LEMMA QuietKeeps ==
    ASSUME TypeInv, TypeInv', ConvInv, queue' = queue, server' = server, wish' = wish,
           doubled' = doubled, astray \subseteq astray', plan' \subseteq plan,
           QuietMoves, QuietPass, SendsIt', EndsWell'
    PROVE  ConvInv'
<1>1. \A r \in Rows : Queued(r)' = Queued(r)
  BY SameQueueKeeps
<1>2. Unmoved
  BY <1>1 DEF Unmoved, QuietMoves
<1>3. EachKeeps
  <2> SUFFICES ASSUME NEW r \in Rows, MessageOf(r) \notin astray', OnlyRow(r), Agrees(r)
               PROVE  OnlyRow(r)' /\ Agrees(r)'
    BY DEF EachKeeps
  <2>1. Still(r)
    BY <1>1 DEF Still, Waits, QuietPass
  <2> QED
    BY <1>2, <2>1, UnmovedAgrees
<1>4. EachAgrees'
  BY <1>3, EachKeepsIs DEF ConvInv
<1>5. PlanDoes'
  BY PlanStill DEF ConvInv, OpsStay
<1>6. RowsWere'
  BY RowsStill DEF ConvInv, QuietMoves
<1> QED
  BY <1>4, <1>5, <1>6 DEF ConvInv

LEMMA QuietLocal == ASSUME local' = local PROVE QuietMoves
BY DEF QuietMoves, Present

LEMMA ConvEndPass ==
    ASSUME TypeInv, TypeInv', ShowInv, ConvInv, EndPass
    PROVE  ConvInv'
<1>1. /\ queue' = queue /\ server' = server /\ local' = local /\ UNCHANGED history
      /\ plan' = {} /\ folded' = {} /\ pc = "step" /\ pc' = "idle"
  BY DEF EndPass, StopPass, server_vars
<1>2. folded = {}
  BY <1>1 DEF ShowInv, PlanFits
<1>3. QuietPass
  BY <1>1, <1>2 DEF QuietPass, Served
<1> QED
  BY <1>1, <1>3, QuietLocal, QuietKeeps DEF history, SendsIt, EndsWell

LEMMA ConvInterrupt ==
    ASSUME TypeInv, TypeInv', ConvInv, Interrupt
    PROVE  ConvInv'
<1>1. /\ queue' = queue /\ server' = server /\ local' = local
      /\ wish' = wish /\ doubled' = doubled
      /\ plan' = {} /\ folded' = {} /\ pc' = "idle"
      /\ astray' = astray \cup {MessageOf(queue[i].target) : i \in folded \cup step.rows}
  BY DEF Interrupt, StopPass, server_vars, Lost
<1>2. QuietPass
  <2> SUFFICES ASSUME NEW r \in Rows, MessageOf(r) \notin astray'
               PROVE  Served(r)' = Served(r) /\ Queued(r) \ folded' = Queued(r) \ folded
    BY DEF QuietPass
  <2>1. Queued(r) \cap folded = {}
    BY <1>1 DEF Queued
  <2>2. Served(r)' = {}
    BY <1>1 DEF Served
  <2>3. Served(r) = {}
    <3> SUFFICES ASSUME pc \in {"adopt", "settle"}, step.target = r PROVE FALSE
      BY DEF Served
    <3>1. step.rows # {} /\ \A i \in step.rows : queue[i].target = r
      BY DEF TypeInv, PassType, StepFits, Busy
    <3> QED
      BY <1>1, <3>1
  <2> QED
    BY <1>1, <2>1, <2>2, <2>3
<1> QED
  BY <1>1, <1>2, QuietLocal, QuietKeeps DEF SendsIt, EndsWell

\* A step comes up: a move goes to the mailbox it is from.
LEMMA ConvResolve ==
    ASSUME TypeInv, TypeInv', ShowInv, ConvInv, Resolve
    PROVE  ConvInv'
<1>1. PICK s : s = NextStep
  OBVIOUS
<1>2. /\ queue' = queue /\ server' = server /\ local' = local /\ wish' = wish
      /\ doubled' = doubled /\ folded' = folded
      /\ pc = "step" /\ plan # {} /\ plan' = plan \ {s} /\ step' = s
      /\ astray \subseteq astray'
      /\ \/ pc' = "ready" /\ address' = AddressOf(s)
         \/ /\ pc' = "settle" /\ outcome' = "Obsolete"
            /\ astray' = astray \cup {MessageOf(s.target)}
  BY <1>1 DEF Resolve, Lost, Decide, server_vars
<1>3. s \in plan
  BY <1>1, <1>2, NextStepIs DEF TypeInv, PassType
<1>4. QuietPass
  BY <1>2 DEF QuietPass, Served
<1>5. SendsIt'
  <2> SUFFICES ASSUME pc' = "ready", MessageOf(s.target) \notin astray'
               PROVE  /\ StepDoes(s, queue)
                      /\ s.op.kind \in MoveKinds => address'.box = s.op.from
    BY <1>2 DEF SendsIt
  <2>1. StepDoes(s, queue)
    BY <1>2, <1>3 DEF ConvInv, PlanDoes
  <2>2. s.op \in Ops
    BY <1>3 DEF TypeInv, PassType, StepFits
  <2>3. s.op.kind \in MoveKinds => AddressOf(s).box = s.op.from
    <3> SUFFICES ASSUME s.op.kind \in MoveKinds PROVE AddressOf(s).box = s.op.from
      OBVIOUS
    <3>1. ~(s.op.kind \in FlagKinds)
      BY <2>2, OpIs
    <3> QED
      BY <3>1 DEF AddressOf
  <2> QED
    BY <1>2, <2>1, <2>3
<1>6. EndsWell'
  BY <1>2 DEF EndsWell
<1> QED
  BY <1>2, <1>4, <1>5, <1>6, QuietLocal, QuietKeeps

\* Nothing reached the server.
LEMMA ConvUnsent ==
    ASSUME TypeInv, TypeInv', ConvInv, RefuseStale \/ Unserved
    PROVE  ConvInv'
<1>1. /\ queue' = queue /\ server' = server /\ local' = local /\ wish' = wish
      /\ doubled' = doubled /\ folded' = folded /\ plan' = plan /\ step' = step
      /\ pc = "ready" /\ pc' = "settle"
  BY DEF RefuseStale, Unserved, Decide, server_vars
<1>2. /\ astray \subseteq astray' /\ outcome' \in {"Retry", "Failed"}
      /\ outcome' = "Failed" => MessageOf(step.target) \in astray'
  BY DEF RefuseStale, Unserved, Decide, Lost
<1>3. QuietPass
  BY <1>1, <1>2 DEF QuietPass, Served
<1>4. SendsIt' /\ EndsWell'
  BY <1>1, <1>2 DEF SendsIt, EndsWell
<1> QED
  BY <1>1, <1>2, <1>3, <1>4, QuietLocal, QuietKeeps

\* The row takes the id, and stays where it is.
LEMMA ConvAdopt ==
    ASSUME TypeInv, TypeInv', ConvInv, Adopt
    PROVE  ConvInv'
<1>1. /\ queue' = queue /\ server' = server /\ UNCHANGED history
      /\ folded' = folded /\ plan' = plan /\ step' = step /\ outcome' = outcome
      /\ pc = "adopt" /\ pc' = "settle"
  BY DEF Adopt, server_vars
<1>2. QuietMoves
  <2> SUFFICES ASSUME NEW r \in Rows
               PROVE  local'[r].box = local[r].box /\ local'[r].flags = local[r].flags
    BY DEF QuietMoves, Present
  <2>1. local \in [Rows -> LocalRows]
    BY DEF TypeInv
  <2>2. \/ local' = local
        \/ \E z : local' = [local EXCEPT ![step.target].rid = z]
    BY DEF Adopt
  <2>3. ASSUME NEW z, local' = [local EXCEPT ![step.target].rid = z]
        PROVE  local'[r].box = local[r].box /\ local'[r].flags = local[r].flags
    <3>1. DOMAIN local[r] = {"box", "rid", "flags"}
      <4>1. local[r] \in LocalRows
        BY <2>1
      <4> QED
        BY <4>1 DEF LocalRows, Absent, Deleted
    <3>2. local'[r] = local[r] \/ local'[r] = [local[r] EXCEPT !.rid = z]
      BY <2>1, <2>3
    <3> QED
      BY <3>1, <3>2
  <2> QED
    BY <2>2, <2>3
<1>3. QuietPass
  BY <1>1 DEF QuietPass, Served
<1>4. SendsIt' /\ EndsWell'
  BY <1>1 DEF SendsIt, EndsWell, history, ConvInv
<1> QED
  BY <1>1, <1>2, <1>3, <1>4, QuietKeeps DEF history

\* A sync that reads, or forgets a row, leaves the rest.
LEMMA ConvBeside ==
    ASSUME TypeInv, TypeInv', ConvInv, UNCHANGED <<server_vars, queue, pass_vars, history>>,
           QuietMoves
    PROVE  ConvInv'
<1>1. /\ server' = server /\ UNCHANGED <<pc, plan, folded, step, address, outcome>>
      /\ wish' = wish /\ astray' = astray /\ doubled' = doubled
  BY DEF server_vars, pass_vars, history
<1>2. QuietPass
  BY <1>1 DEF QuietPass, Served
<1>3. SendsIt' /\ EndsWell'
  BY <1>1 DEF SendsIt, EndsWell, ConvInv
<1> QED
  BY <1>1, <1>2, <1>3, QuietKeeps

LEMMA ConvSyncReads ==
    ASSUME TypeInv, TypeInv', ConvInv, NEW b \in Mailboxes, SyncFetch(b) \/ SyncReconcile(b)
    PROVE  ConvInv'
<1>1. UNCHANGED <<server_vars, queue, pass_vars, history>>
  BY DEF SyncFetch, SyncReconcile
<1>2. \A r \in Rows : local'[r] = Deleted \/ local'[r] = local[r]
  BY DEF SyncFetch, SyncReconcile
<1>3. QuietMoves
  <2>1. Deleted.box \notin Mailboxes /\ Deleted.box # "none"
    BY MailboxesAssumption DEF Deleted
  <2> QED
    BY <1>2, <2>1 DEF QuietMoves, Present
<1> QED
  BY <1>1, <1>3, ConvBeside

\* A row of the queue is marked.
LEMMA MarkKeeps ==
    ASSUME TypeInv, TypeInv', ConvInv, Keeps(queue, queue'), DOMAIN queue' = DOMAIN queue,
           local' = local, UNCHANGED history, plan' \subseteq plan, SendsIt', EndsWell',
           \A r \in Rows : Queued(r)' \subseteq Queued(r),
           \A r \in Rows : MessageOf(r) \notin astray /\ Agrees(r) => Agrees(r)'
    PROVE  ConvInv'
<1>1. astray' = astray /\ doubled' = doubled /\ wish' = wish
  BY DEF history
<1>2. Unmoved
  BY DEF Unmoved, Present
<1>3. EachKeeps
  BY <1>1, <1>2, UnmovedIs DEF EachKeeps
<1>4. EachAgrees'
  BY <1>3, EachKeepsIs DEF ConvInv
<1>5. OpsStay
  BY DEF Keeps, OpsStay
<1>6. PlanDoes'
  BY <1>1, <1>5, PlanStill DEF ConvInv
<1>7. RowsWere'
  BY RowsStill DEF ConvInv, Keeps
<1> QED
  BY <1>4, <1>6, <1>7 DEF ConvInv

LEMMA ConvBackoff ==
    ASSUME TypeInv, TypeInv', ShowInv, ConvInv, NEW i \in DOMAIN queue, BackoffElapses(i)
    PROVE  ConvInv'
<1>1. UNCHANGED pass_vars /\ local' = local /\ UNCHANGED history /\ server' = server
  BY DEF BackoffElapses, server_vars
<1>2. PICK x : x = MadeDue(queue[i])
  OBVIOUS
<1>3. /\ x \in QueueRow /\ Same(queue[i], x) /\ queue' = [queue EXCEPT ![i] = x]
      /\ x.state = queue[i].state
  <2>1. queue[i] \in QueueRow
    BY QueueIs DEF TypeInv
  <2>2. x \in QueueRow /\ Same(queue[i], x)
    BY <1>2, <2>1, RowMarks
  <2>3. x.state = queue[i].state
    BY <1>2, <2>1 DEF MadeDue, QueueRow
  <2>4. queue' = [queue EXCEPT ![i] = x]
    BY <1>2 DEF BackoffElapses, MadeDue
  <2> QED
    BY <2>2, <2>3, <2>4
<1>4. Marks(i, x)
  BY <1>3, MarkIs DEF TypeInv, ShowInv
<1>5. Keeps(queue, queue') /\ DOMAIN queue' = DOMAIN queue
  BY <1>3, MarkedRow DEF TypeInv
<1>6. \A r : Queued(r)' = Queued(r)
  BY <1>3, <1>4, Zenon DEF Marks
<1>7. OpsStay
  BY <1>5 DEF Keeps, OpsStay
<1>8. SendsIt'
  BY <1>1, <1>7, SendsStill DEF ConvInv, history
<1>9. EndsWell'
  BY <1>1 DEF ConvInv, EndsWell, pass_vars, history
<1>10. \A r \in Rows : Agrees(r) => Agrees(r)'
  <2> SUFFICES ASSUME NEW r \in Rows, Agrees(r) PROVE Agrees(r)'
    OBVIOUS
  <2>1. Still(r)
    BY <1>1, <1>6, <1>7 DEF Still, OpsStay, Waits, Served, pass_vars, history
  <2>2. ShowsWish(r)'
    BY <1>1 DEF Agrees, ShowsWish, Present, history
  <2> QED
    BY <2>1, <2>2, StillAgrees
<1> QED
  BY <1>1, <1>5, <1>6, <1>8, <1>9, <1>10, MarkKeeps DEF pass_vars

\* A row is marked that the server has carried out, or that is deferred.
LEMMA ConvSettleRow ==
    ASSUME TypeInv, TypeInv', ShowInv, ConvInv, SettleRow
    PROVE  ConvInv'
<1>1. /\ pc = "settle" /\ plan' = plan /\ folded' = folded /\ local' = local
      /\ UNCHANGED history /\ server' = server
      /\ queue' = [queue EXCEPT ![Least(step.rows)] = Settled(@)]
      /\ outcome \in Outcomes /\ StepFits(step, queue)
  BY DEF SettleRow, server_vars, TypeInv, PassType, Busy
<1>2. QueueType /\ OneFlagEach /\ NotDueIsDeferred
  BY DEF ShowInv, TypeInv
<1>3. PICK i \in step.rows : i = Least(step.rows) /\ \A k \in step.rows : i <= k
  BY <1>1, <1>2, QueueIs, LeastIs DEF StepFits
<1>4. i \in DOMAIN queue /\ queue[i] \in QueueRow /\ queue[i].target = step.target
  BY <1>1, <1>2, <1>3, QueueIs DEF StepFits
<1>5. PICK x : x = Settled(queue[i])
  OBVIOUS
<1>6. x \in QueueRow /\ Same(queue[i], x) /\ queue' = [queue EXCEPT ![i] = x]
  BY <1>1, <1>3, <1>4, <1>5, SettledRow
<1>7. \/ outcome = "Retry" /\ x.state = queue[i].state
      \/ outcome # "Retry" /\ x.state # "pending"
  BY <1>4, <1>5 DEF Settled, QueueRow
<1>8. Marks(i, x)
  BY <1>2, <1>4, <1>6, MarkIs
<1>9. Keeps(queue, queue') /\ DOMAIN queue' = DOMAIN queue
  BY <1>2, <1>4, <1>6, MarkedRow
<1>10. /\ outcome = "Retry" => \A r : Queued(r)' = Queued(r)
       /\ outcome # "Retry" => \A r : Queued(r)' = Queued(r) \ {i}
  <2>1. outcome = "Retry" => x.state = queue[i].state
    BY <1>7
  <2>2. outcome # "Retry" => x.state # "pending"
    BY <1>7
  <2> QED
    BY <1>8, <2>1, <2>2, Zenon DEF Marks
<1>11. \/ pc' = "step" /\ step.rows = {i}
       \/ pc' = "settle" /\ outcome' = outcome /\ step' = [step EXCEPT !.rows = step.rows \ {i}]
  BY <1>1, <1>3 DEF SettleRow
<1>12. pc' = "settle" => /\ outcome' = outcome
                         /\ step'.rows = step.rows \ {i} /\ step'.target = step.target
  BY <1>1, <1>11 DEF TypeInv, PassType, Steps, Busy, StepFits, NoStep
<1>13. SendsIt' /\ EndsWell'
  <2>1. pc' \in {"step", "settle"}
    BY <1>11
  <2> QED
    BY <1>1, <1>12, <2>1 DEF SendsIt, EndsWell, ConvInv, history
<1>14. ASSUME NEW r \in Rows, MessageOf(r) \notin astray, Agrees(r)
       PROVE  Agrees(r)'
  <2>1. Waits(r)' = Waits(r)
    <3>1. CASE step.target # r
      <4>1. i \notin Queued(r)
        BY <1>4, <3>1 DEF Queued
      <4>2. Queued(r)' = Queued(r)
        BY <1>10, <4>1
      <4>3. Served(r) = {} /\ Served(r)' = {}
        BY <1>11, <1>12, <3>1 DEF Served
      <4> QED
        BY <4>2, <4>3 DEF Waits
    <3>2. CASE step.target = r /\ outcome = "Retry"
      <4>1. Served(r) = {} /\ Served(r)' = {}
        BY <1>11, <1>12, <3>2 DEF Served
      <4>2. Queued(r)' = Queued(r)
        BY <1>10, <3>2
      <4> QED
        BY <4>1, <4>2 DEF Waits
    <3>3. CASE step.target = r /\ outcome = "Applied"
      <4>1. Queued(r)' = Queued(r) \ {i}
        BY <1>10, <3>3
      <4>2. Served(r) = step.rows
        BY <1>1, <3>3 DEF Served
      <4>3. \/ step.rows = {i} /\ Served(r)' = {}
            \/ Served(r)' = step.rows \ {i}
        BY <1>11, <1>12, <3>3 DEF Served
      <4> QED
        BY <1>3, <4>1, <4>2, <4>3 DEF Waits
    <3>4. outcome \in {"Applied", "Retry"} \/ step.target # r
      BY <1>1, <1>14 DEF ConvInv, EndsWell
    <3> QED
      BY <3>1, <3>2, <3>3, <3>4
  <2>2. Still(r)
    BY <1>1, <1>9, <2>1 DEF Still, Keeps, history
  <2>3. ShowsWish(r)'
    BY <1>1, <1>14 DEF Agrees, ShowsWish, Present, history
  <2> QED
    BY <1>14, <2>2, <2>3, StillAgrees
<1>15. \A r \in Rows : Queued(r)' \subseteq Queued(r)
  BY <1>10
<1> QED
  BY <1>1, <1>9, <1>13, <1>14, <1>15, MarkKeeps

\* A pass starts: what it plans for a message does what its rows ask for.
LEMMA PlannedDoes ==
    ASSUME TypeInv, OneFlagEach, NEW r \in Rows, NEW s \in StepsOf(r), ~RestoresElsewhere(r)
    PROVE  StepDoes(s, queue)
<1>1. QueueType
  BY DEF TypeInv
<1>2. FoldDoes(BatchOf(r), queue)
  BY <1>1, BatchDoes
<1>3. BatchOf(r) \in FoldsOver(DOMAIN queue, Mailboxes, Flags)
  BY <1>1, BatchFolds
<1>4. PICK t \in Range(BatchOf(r).steps) : s = [target |-> r, op |-> t.op, rows |-> t.rows]
  BY DEF StepsOf
<1>5. PICK k \in 1 .. Len(BatchOf(r).steps) : t = BatchOf(r).steps[k]
  <2>1. BatchOf(r).steps \in Seq(StepSet(DOMAIN queue, Mailboxes, Flags))
    BY <1>3 DEF FoldsOver
  <2> QED
    BY <1>4, <2>1 DEF Range
<1>6. StepDoes(t, queue)
  BY <1>2, <1>5 DEF FoldDoes
<1>7. s.op = t.op /\ s.rows = t.rows
  BY <1>4
<1> QED
  BY <1>6, <1>7 DEF StepDoes, StepRuns, AsksAll

LEMMA ConvStartPass ==
    ASSUME TypeInv, TypeInv', ShowInv, ConvInv, StartPass
    PROVE  ConvInv'
<1>1. /\ pc = "idle" /\ plan' = UNION {StepsOf(r) : r \in Rows}
      /\ folded' = UNION {BatchOf(r).obsolete : r \in Rows}
      /\ pc' = "fold" /\ queue' = queue /\ local' = local /\ server' = server
      /\ wish' = wish /\ doubled' = doubled
  BY DEF StartPass, server_vars
<1>2. /\ astray \subseteq astray'
      /\ \A r \in Rows : MessageOf(r) \notin astray' => ~RestoresElsewhere(r)
  BY DEF StartPass, Lost
<1>3. folded = {} /\ OneFlagEach /\ QueueType
  BY <1>1 DEF TypeInv, PassType, ShowInv
<1>4. PlanDoes'
  <2> SUFFICES ASSUME NEW s \in plan', MessageOf(s.target) \notin astray'
               PROVE  StepDoes(s, queue)
    BY <1>1 DEF PlanDoes
  <2>1. PICK r \in Rows : s \in StepsOf(r)
    BY <1>1
  <2>2. s.target = r
    BY <2>1 DEF StepsOf
  <2> QED
    BY <1>2, <1>3, <2>1, <2>2, PlannedDoes
<1>5. \A r \in Rows : \A i \in BatchOf(r).obsolete : i \in Due /\ queue[i].target = r
  <2> TAKE r \in Rows
  <2>1. SettlesJust(BatchOf(r), {i \in Due : queue[i].target = r})
    BY <1>3, BatchFolds
  <2> QED
    BY <2>1 DEF SettlesJust, Settles
<1>6. \A r \in Rows : Queued(r)' = Queued(r) /\ Served(r) = {} /\ Served(r)' = {}
  BY <1>1, SameQueueKeeps DEF Served
<1>7. \A r \in Rows : /\ BatchOf(r).obsolete \subseteq Queued(r)
                      /\ Queued(r) \cap folded' = BatchOf(r).obsolete
  <2>1. \A r \in Rows : BatchOf(r).obsolete \subseteq Queued(r)
    BY <1>5 DEF Queued, Due
  <2> QED
    BY <1>1, <1>5, <2>1 DEF Queued
<1>8. Unmoved
  BY <1>1, <1>6 DEF Unmoved, Present
<1>9. ASSUME NEW r \in Rows, MessageOf(r) \notin astray', Agrees(r)
      PROVE  Agrees(r)'
  <2> DEFINE O == BatchOf(r).obsolete
  <2>1. ~RestoresElsewhere(r) /\ RowFits(r)
    BY <1>2, <1>9 DEF ShowInv, RowsFit
  <2>2. Idles(O, queue)
    BY <1>3, <2>1, BatchDoes DEF FoldDoes
  <2>3. ToServe(r) = Queued(r) /\ ToServe(r)' = Queued(r) \ O /\ O \subseteq Queued(r)
    BY <1>3, <1>6, <1>7 DEF ToServe, Waits
  <2>4. IsFiniteSet(Queued(r))
    BY <1>3, QueueIs, FS_Subset DEF Queued
  <2>5. BoxAgrees(r)'
    <3> HIDE DEF O
    <3>1. \A b \in Mailboxes : Net(Queued(r) \ O, b, queue) = Net(Queued(r), b, queue)
      <4> TAKE b \in Mailboxes
      <4>1. Net(O, b, queue) = 0
        BY <2>2 DEF Idles
      <4>2. /\ Net(Queued(r), b, queue) \in Int
            /\ Net(Queued(r) \ O, b, queue) = Net(Queued(r), b, queue) - Net(O, b, queue)
        BY <2>3, <2>4, NetLess
      <4> QED
        BY <4>1, <4>2
    <3>2. BoxAgrees(r)
      BY <1>9 DEF Agrees
    <3> QED
      BY <1>1, <2>3, <3>1, <3>2 DEF BoxAgrees, Carries
  <2>6. ASSUME NEW f \in Flags PROVE FlagAgrees(r, f)'
    <3>1. FlagAgrees(r, f)
      BY <1>9 DEF Agrees
    <3>2. Balanced(Since(r, f), O, WithServer(r, f))
      BY <1>3, <1>6, <2>1, <3>1, BatchAgrees DEF FlagAgrees
    <3>3. Since(r, f)' = Since(r, f)
      BY <1>1, <1>6, SameQueueKeeps DEF Since
    <3>4. WithServer(r, f)' = WithServer(r, f)
      BY <1>1 DEF WithServer, ServersRow
    <3>5. Since(r, f) \ folded' = Since(r, f) \ O
      <4>1. 0 \notin folded'
        BY <1>5, <1>1, <1>3, SinceIs DEF Due
      <4>2. 0 \notin O
        BY <1>5, <1>3, SinceIs DEF Due
      <4>3. Since(r, f) \subseteq {0} \cup Queued(r)
        BY DEF Since, Changers
      <4> QED
        BY <1>7, <4>1, <4>2, <4>3
    <3> HIDE DEF O
    <3>6. Balanced(Since(r, f), folded', WithServer(r, f))
      BY <3>2, <3>5, BalancedSame
    <3>7. EndsIn(Since(r, f), WithServer(r, f), f \in wish[MessageOf(r)].flags)
      BY <3>1 DEF FlagAgrees
    <3> QED
      BY <1>1, <3>3, <3>4, <3>6, <3>7 DEF FlagAgrees
  <2>7. ShowsWish(r)'
    BY <1>1, <1>9 DEF Agrees, ShowsWish, Present
  <2> QED
    BY <2>5, <2>6, <2>7 DEF Agrees
<1>10. EachAgrees'
  <2>1. EachKeeps
    BY <1>1, <1>2, <1>8, <1>9, UnmovedIs DEF EachKeeps
  <2> QED
    BY <2>1, EachKeepsIs DEF ConvInv
<1>11. RowsWere' /\ SendsIt' /\ EndsWell'
  BY <1>1, RowsStill DEF ConvInv, SendsIt, EndsWell
<1> QED
  BY <1>4, <1>10, <1>11 DEF ConvInv

\* A row that cancelled out is marked: nothing was waiting in it.
LEMMA ConvSettleFolded ==
    ASSUME TypeInv, TypeInv', ShowInv, ConvInv, SettleFolded
    PROVE  ConvInv'
<1>1. /\ pc = "fold" /\ plan' = plan /\ step' = step /\ local' = local /\ UNCHANGED history
      /\ server' = server /\ pc' \in {"fold", "step"}
  BY DEF SettleFolded, server_vars
<1>2. SendsIt' /\ EndsWell'
  BY <1>1 DEF SendsIt, EndsWell
<1>3. \A r : Served(r) = {} /\ Served(r)' = {}
  BY <1>1 DEF Served
<1>4. CASE folded = {}
  <2>1. queue' = queue /\ folded' = folded
    BY <1>4 DEF SettleFolded
  <2>2. QuietPass
    BY <1>3, <2>1 DEF QuietPass
  <2> QED
    BY <1>1, <1>2, <2>1, <2>2, QuietLocal, QuietKeeps DEF history
<1>5. CASE folded # {}
  <2>1. PICK j \in folded : j = Least(folded) /\ (\A k \in folded : j <= k) /\ j \in DOMAIN queue
    BY <1>5, LeastIs, QueueIs DEF TypeInv, PassType
  <2>2. PICK x : x = WithState(queue[j], "done")
    OBVIOUS
  <2>3. /\ queue' = [queue EXCEPT ![j] = x] /\ folded' = folded \ {j}
        /\ x \in QueueRow /\ Same(queue[j], x) /\ x.state # "pending"
    <3>1. queue[j] \in QueueRow
      BY <2>1, QueueIs DEF TypeInv
    <3>2. x \in QueueRow /\ Same(queue[j], x) /\ x.state = "done"
      BY <2>2, <3>1, RowMarks DEF WithState, QueueRow
    <3>3. queue' = [queue EXCEPT ![j].state = "done"] /\ folded' = folded \ {j}
      BY <1>1, <1>5, <2>1 DEF SettleFolded
    <3>4. queue' = [queue EXCEPT ![j] = x]
      BY <2>2, <3>3 DEF WithState
    <3> QED
      BY <3>2, <3>3, <3>4
  <2>4. Marks(j, x)
    BY <2>1, <2>3, MarkIs DEF TypeInv, ShowInv
  <2>5. Keeps(queue, queue') /\ DOMAIN queue' = DOMAIN queue
    BY <2>1, <2>3, MarkedRow DEF TypeInv
  <2>6. \A r : Queued(r)' = Queued(r) \ {j} /\ \A f : Changers(r, f)' = Changers(r, f) \ {j}
    BY <2>3, <2>4, Zenon DEF Marks
  <2>7. QueueType /\ QueueType' /\ folded \in SUBSET Nat
    BY QueueIs DEF TypeInv, PassType
  <2>8. ASSUME NEW r \in Rows, MessageOf(r) \notin astray, Agrees(r)
        PROVE  Agrees(r)'
    <3>1. BoxAgrees(r)'
      <4>1. ToServe(r)' = ToServe(r)
        BY <1>3, <2>3, <2>6 DEF ToServe, Waits
      <4>2. \A i \in ToServe(r) : queue'[i].op = queue[i].op
        BY <2>5 DEF Keeps, ToServe, Waits, Queued
      <4>3. BoxAgrees(r)
        BY <2>8 DEF Agrees
      <4> QED
        BY <1>1, <4>1, <4>2, <4>3, BoxStays DEF history
    <3>2. ASSUME NEW f \in Flags PROVE FlagAgrees(r, f)'
      <4>1. /\ Balanced(Since(r, f), folded, WithServer(r, f))
            /\ EndsIn(Since(r, f), WithServer(r, f), f \in wish[MessageOf(r)].flags)
        BY <2>8 DEF Agrees, FlagAgrees
      <4>2. /\ Since(r, f) \in SUBSET Nat /\ 0 \notin DOMAIN queue
            /\ Changers(r, f) \subseteq DOMAIN queue
        BY <2>7, SinceIs
      <4>3. Since(r, f)' = Since(r, f) \ {j}
        BY <1>3, <2>1, <2>6, <4>2 DEF Since
      <4>4. \A i \in {0} \cup DOMAIN queue : WithServer(r, f)'[i].op = WithServer(r, f)[i].op
        BY <1>1, <2>5, <2>7, ServersRowStays DEF Keeps
      <4>5. \A i \in Since(r, f) : WithServer(r, f)'[i].op = WithServer(r, f)[i].op
        BY <4>2, <4>4 DEF Since
      <4>6. PICK C, q, p : /\ C = Since(r, f) /\ q = WithServer(r, f)
                           /\ p = WithServer(r, f)'
        OBVIOUS
      <4>7. /\ Balanced(C \ {j}, folded \ {j}, q)
            /\ \A i : IsLast(C \ {j}, i) => EndsAs(C, q, i, j)
        BY <2>1, <2>7, <4>1, <4>2, <4>6, LeastGoes
      <4>8. Balanced(C \ {j}, folded \ {j}, p)
        BY <4>5, <4>6, <4>7, BalancedSame
      <4>9. EndsIn(C \ {j}, p, f \in wish[MessageOf(r)].flags)
        BY <4>1, <4>5, <4>6, <4>7 DEF EndsIn, EndsAs, IsLast
      <4> QED
        BY <1>1, <2>3, <4>3, <4>6, <4>8, <4>9 DEF FlagAgrees, history
    <3>3. ShowsWish(r)'
      BY <1>1, <2>8 DEF Agrees, ShowsWish, Present, history
    <3> QED
      BY <3>1, <3>2, <3>3 DEF Agrees
  <2>9. \A r \in Rows : Queued(r)' \subseteq Queued(r)
    BY <2>6
  <2> QED
    BY <1>1, <1>2, <2>5, <2>8, <2>9, MarkKeeps
<1> QED
  BY <1>4, <1>5

\* The server carries out the first change of a flag: the changes it has still to see
\* are those after it.
LEMMA ServedGoes ==
    ASSUME NEW D \in SUBSET Nat, 0 \notin D, NEW x \in D, \A i \in D : x <= i,
           NEW q, NEW p, NEW w, Alternating({0} \cup D, q), EndsIn({0} \cup D, q, w),
           p[0].op.kind = q[x].op.kind, \A i \in D : p[i].op = q[i].op
    PROVE  /\ Alternating({0} \cup (D \ {x}), p)
           /\ EndsIn({0} \cup (D \ {x}), p, w)
<1> DEFINE S == {0} \cup D
           T == {0} \cup (D \ {x})
<1>1. /\ S \in SUBSET Nat /\ T \in SUBSET Nat /\ x \in Nat /\ x \in S /\ x # 0
      /\ \A i \in D : i \in Nat /\ 0 < i
      /\ \A i \in D \ {x} : x < i
  OBVIOUS
<1>2. ASSUME NEW i \in T, NEW j \in T, LastBefore(T, i, j)
      PROVE  p[i].op.kind # p[j].op.kind
  <2>1. i < j /\ i \in Nat /\ j \in D \ {x} /\ \A k \in T : ~(i < k /\ k < j)
    BY <1>1, <1>2 DEF LastBefore
  <2>2. CASE i = 0
    <3>1. \A k \in S : ~(x < k /\ k < j)
      <4> SUFFICES ASSUME NEW k \in S, x < k, k < j PROVE FALSE
        OBVIOUS
      <4>1. k \in D \ {x}
        BY <1>1
      <4> QED
        BY <1>1, <2>1, <2>2, <4>1
    <3>2. LastBefore(S, x, j)
      BY <1>1, <2>1, <3>1 DEF LastBefore
    <3>3. q[x].op.kind # q[j].op.kind
      BY <1>1, <2>1, <3>2 DEF Alternating
    <3> QED
      BY <2>1, <2>2, <3>3
  <2>3. CASE i # 0
    <3>1. i \in D \ {x} /\ x < i
      BY <1>1, <2>3
    <3>2. \A k \in S : ~(i < k /\ k < j)
      BY <1>1, <2>1, <3>1
    <3>3. LastBefore(S, i, j)
      BY <2>1, <3>1, <3>2 DEF LastBefore
    <3>4. q[i].op.kind # q[j].op.kind
      BY <2>1, <3>1, <3>3 DEF Alternating
    <3> QED
      BY <2>1, <3>1, <3>4
  <2> QED
    BY <2>2, <2>3
<1>3. ASSUME NEW h \in T, IsLast(T, h)
      PROVE  w <=> p[h].op.kind = "SetFlags"
  <2>1. \A j \in T : ~(h < j)
    BY <1>3 DEF IsLast
  <2>2. CASE h = 0
    <3>1. \A j \in S : ~(x < j)
      BY <1>1, <2>1, <2>2
    <3>2. IsLast(S, x)
      BY <1>1, <3>1 DEF IsLast
    <3>3. w <=> q[x].op.kind = "SetFlags"
      BY <3>2 DEF EndsIn, IsLast
    <3> QED
      BY <2>2, <3>3
  <2>3. CASE h # 0
    <3>1. h \in D \ {x} /\ x < h
      BY <1>1, <2>3
    <3>2. \A j \in S : ~(h < j)
      BY <1>1, <2>1, <3>1
    <3>3. IsLast(S, h)
      BY <3>1, <3>2 DEF IsLast
    <3>4. w <=> q[h].op.kind = "SetFlags"
      BY <3>3 DEF EndsIn, IsLast
    <3> QED
      BY <3>1, <3>4
  <2> QED
    BY <2>2, <2>3
<1> QED
  BY <1>2, <1>3 DEF Alternating, EndsIn, IsLast

\* A step that changes a flag runs the first change of it: what is before its rows is
\* deferred and of its kind.
LEMMA FirstOfFlag ==
    ASSUME QueueType, NEW r, RunsFirst(r), NEW f, Alternating(Changers(r, f), queue),
           NEW x \in Changers(r, f), x \in step.rows
    PROVE  \A i \in Changers(r, f) : x <= i
<1> DEFINE D == Changers(r, f)
<1>1. D \in SUBSET Nat /\ D \subseteq Queued(r)
  BY QueueIs DEF Changers, Queued
<1>2. \A i \in D : queue[i].op.kind \in FlagKinds /\ Class(i) = queue[i].op.kind
  BY KindsApart DEF Changers, Touches, Class, ClassOf
<1> SUFFICES ASSUME NEW i \in D, i < x PROVE FALSE
  BY <1>1
<1>3. PICK y \in D : LastBefore(D, y, x)
  <2>1. x \in Nat
    BY <1>1
  <2> HIDE DEF D
  <2> QED
    BY <1>1, <2>1, LastBelow
<1>4. y < x
  BY <1>3 DEF LastBefore
<1>5. y \in step.rows \/ Deferred(y)
  BY <1>1, <1>4 DEF RunsFirst
<1>6. Class(y) = Class(x)
  BY <1>1, <1>5 DEF RunsFirst
<1>7. queue[y].op.kind # queue[x].op.kind
  BY <1>3 DEF Alternating
<1> QED
  BY <1>2, <1>6, <1>7

\* What the server has of the message once it has carried out the step.
ServedBox(m)   == server'[m].box = IF step.op.kind \in MoveKinds THEN step.op.to ELSE server[m].box
ServedFlags(m) == \A f : f \in server'[m].flags <=>
    IF step.op.kind \in FlagKinds /\ f \in step.op.flags
    THEN step.op.kind = "SetFlags" ELSE f \in server[m].flags

LEMMA ServedIs ==
    ASSUME ServerType, step.op \in Ops, Serve, NEW m \in Named
    PROVE  ServedBox(m) /\ ServedFlags(m)
<1>1. m \in Messages /\ server[m] \in ServerRows
  BY DEF Named, ServerType
<1>2. CASE step.op.kind \in FlagKinds
  <2> DEFINE new == Performed([flags |-> server[m].flags], step.op).flags
  <2>1. server'[m] = [server[m] EXCEPT !.flags = new]
    BY <1>1, <1>2 DEF Serve
  <2>2. \A f : f \in new <=> IF f \in step.op.flags THEN step.op.kind = "SetFlags"
                             ELSE f \in server[m].flags
    <3>1. CASE step.op.kind = "SetFlags"
      <4>1. Performed([flags |-> server[m].flags], step.op)
               = [flags |-> server[m].flags \cup step.op.flags]
        BY <3>1 DEF Performed
      <4> QED
        BY <3>1, <4>1
    <3>2. CASE step.op.kind = "ClearFlags"
      <4>1. Performed([flags |-> server[m].flags], step.op)
               = [flags |-> server[m].flags \ step.op.flags]
        BY <3>2 DEF Performed
      <4> QED
        BY <3>2, <4>1
    <3> QED
      BY <1>2, <3>1, <3>2 DEF FlagKinds
  <2> HIDE DEF new
  <2>3. server'[m].flags = new /\ server'[m].box = server[m].box
    BY <1>1, <2>1 DEF ServerRows
  <2>4. ~(step.op.kind \in MoveKinds)
    BY <1>2, OpIs
  <2> QED
    BY <1>2, <2>2, <2>3, <2>4 DEF ServedBox, ServedFlags
<1>3. CASE step.op.kind \in MoveKinds
  <2>1. ~(step.op.kind \in FlagKinds)
    BY <1>3, OpIs
  <2>2. server'[m] = [box |-> step.op.to, uid |-> uidNext[step.op.to], flags |-> server[m].flags]
    BY <1>1, <2>1 DEF Serve
  <2> QED
    BY <1>3, <2>1, <2>2 DEF ServedBox, ServedFlags
<1> QED
  BY <1>2, <1>3, OpIs

\* The step's rows have brought the message where it is now.
LEMMA ServedBoxAgrees ==
    ASSUME QueueType, NEW r \in Rows, BoxAgrees(r), StepDoes(step, queue), step.op \in Ops,
           queue' = queue, folded = {}, folded' = {}, Served(r) = {}, Served(r)' = step.rows,
           step.rows \subseteq Queued(r), Queued(r)' = Queued(r), wish' = wish,
           ServedBox(MessageOf(r)),
           step.op.kind \in MoveKinds => server[MessageOf(r)].box = step.op.from
    PROVE  BoxAgrees(r)'
<1> DEFINE m == MessageOf(r)
<1>1. ToServe(r) = Queued(r) /\ ToServe(r)' = Queued(r) \ step.rows
  BY DEF ToServe, Waits
<1>2. IsFiniteSet(Queued(r))
  BY QueueIs, FS_Subset DEF Queued
<1> SUFFICES ASSUME NEW b \in Mailboxes
             PROVE  Net(Queued(r) \ step.rows, b, queue)
                    = At(b, wish[m].box) - At(b, server'[m].box)
  BY <1>1 DEF BoxAgrees, Carries
<1>3. Net(Queued(r), b, queue) = At(b, wish[m].box) - At(b, server[m].box)
  BY <1>1 DEF BoxAgrees, Carries
<1>4. /\ Net(step.rows, b, queue) \in Int
      /\ Net(Queued(r) \ step.rows, b, queue) = Net(Queued(r), b, queue) - Net(step.rows, b, queue)
  <2>1. IsFiniteSet(Queued(r)) /\ step.rows \subseteq Queued(r)
    BY <1>2
  <2>2. PICK Q, R, q : Q = Queued(r) /\ R = step.rows /\ q = queue
    OBVIOUS
  <2>3. IsFiniteSet(Q) /\ R \subseteq Q
    BY <2>1, <2>2
  <2>4. Net(R, b, q) \in Int /\ Net(Q \ R, b, q) = Net(Q, b, q) - Net(R, b, q)
    BY <2>3, NetLess
  <2> QED
    BY <2>2, <2>4
<1>5. At(b, wish[m].box) \in Int /\ At(b, server[m].box) \in Int /\ At(b, server'[m].box) \in Int
  BY DEF At
<1>6. CASE step.op.kind \in MoveKinds
  <2>1. Net(step.rows, b, queue) = At(b, step.op.to) - At(b, step.op.from)
    BY <1>6 DEF StepDoes, Carries
  <2>2. server'[m].box = step.op.to /\ server[m].box = step.op.from
    BY <1>6 DEF ServedBox
  <2> QED
    BY <1>3, <1>4, <1>5, <2>1, <2>2
<1>7. CASE step.op.kind \in FlagKinds
  <2>1. \A i \in step.rows : queue[i].op.kind \notin MoveKinds
    BY <1>7, KindsApart DEF StepDoes, StepRuns
  <2>2. Net(step.rows, b, queue) = 0
    BY <2>1, NetNone
  <2>3. server'[m].box = server[m].box
    BY <1>7, KindsApart DEF ServedBox
  <2> QED
    BY <1>3, <1>4, <1>5, <2>2, <2>3
<1> QED
  BY <1>6, <1>7, OpIs

\* And so have they with its flags.
LEMMA ServedFlagAgrees ==
    ASSUME TypeInv, QueueType', OneFlagEach, NEW r \in Rows,
           RowFits(r), RunsFirst(r), NEW f \in Flags,
           FlagAgrees(r, f), StepDoes(step, queue), step.op \in Ops,
           queue' = queue, folded = {}, folded' = {}, Served(r) = {}, Served(r)' = step.rows,
           wish' = wish, ServedFlags(MessageOf(r))
    PROVE  FlagAgrees(r, f)'
<1> DEFINE D == Changers(r, f)
<1>1. QueueType
  BY DEF TypeInv
<1>2. /\ D \subseteq DOMAIN queue /\ D \in SUBSET Nat /\ 0 \notin D
      /\ \A i \in DOMAIN queue : i \in Nat /\ 0 < i /\ WithServer(r, f)[i] = queue[i]
  BY <1>1, SinceIs
<1>3. Since(r, f) = {0} \cup D /\ Since(r, f)' = {0} \cup (D \ step.rows)
  BY SameQueueKeeps DEF Since
<1>4. D \subseteq Queued(r)
  BY DEF Changers
<1>5. ASSUME D \cap step.rows = {},
             f \in server'[MessageOf(r)].flags <=> f \in server[MessageOf(r)].flags
      PROVE  FlagAgrees(r, f)'
  <2>1. Since(r, f)' = Since(r, f)
    BY <1>3, <1>5
  <2>2. \A i \in {0} \cup DOMAIN queue : WithServer(r, f)'[i].op = WithServer(r, f)[i].op
    BY <1>1, <1>5, ServersRowStays
  <2>3. \A i \in Since(r, f) : WithServer(r, f)'[i].op = WithServer(r, f)[i].op
    BY <1>2, <1>3, <2>2
  <2> QED
    BY <2>1, <2>3, FlagStays
<1>6. CASE step.op.kind \in MoveKinds
  <2>1. D \cap step.rows = {}
    BY <1>6, KindsApart DEF StepDoes, StepRuns, Changers, Touches
  <2>2. f \in server'[MessageOf(r)].flags <=> f \in server[MessageOf(r)].flags
    BY <1>6, KindsApart DEF ServedFlags
  <2> QED
    BY <1>5, <2>1, <2>2
<1>7. CASE step.op.kind \in FlagKinds /\ f \notin step.op.flags
  <2>1. D \cap step.rows = {}
    BY <1>7 DEF StepDoes, StepRuns, Changers, Touches
  <2>2. f \in server'[MessageOf(r)].flags <=> f \in server[MessageOf(r)].flags
    BY <1>7 DEF ServedFlags
  <2> QED
    BY <1>5, <2>1, <2>2
<1>8. CASE step.op.kind \in FlagKinds /\ f \in step.op.flags
  <2>1. PICK x \in step.rows : f \in queue[x].op.flags
    BY <1>8 DEF StepDoes, AsksAll
  <2>2. x \in D /\ queue[x].op.kind = step.op.kind
    BY <1>8, <2>1 DEF StepDoes, StepRuns, Changers, Touches, RunsFirst
  <2>3. Alternating(D, queue)
    <3>1. Balanced(D, {}, queue)
      BY DEF RowFits, FlagFits
    <3> QED
      BY <3>1, BalancedAlone
  <2>4. \A y \in D \cap step.rows : \A i \in D : y <= i
    BY <1>1, <2>3, FirstOfFlag
  <2>5. D \ step.rows = D \ {x}
    <3>1. \A y \in D \cap step.rows : y = x
      BY <1>2, <2>1, <2>2, <2>4
    <3> QED
      BY <2>1, <2>2, <3>1
  <2>6. PICK q, p, w : /\ q = WithServer(r, f) /\ p = WithServer(r, f)'
                       /\ w = (f \in wish[MessageOf(r)].flags)
    OBVIOUS
  <2>7. Alternating({0} \cup D, q) /\ EndsIn({0} \cup D, q, w)
    <3>1. Balanced({0} \cup D, {}, q)
      BY <1>3, <2>6 DEF FlagAgrees
    <3>2. EndsIn({0} \cup D, q, f \in wish[MessageOf(r)].flags)
      BY <1>3, <2>6 DEF FlagAgrees
    <3> HIDE DEF D
    <3> QED
      BY <2>6, <3>1, <3>2, BalancedAlone DEF EndsIn
  <2>8. p[0].op.kind = q[x].op.kind /\ \A i \in D : p[i].op = q[i].op
    <3>1. p[0] = ServersRow(r, f)' /\ \A i \in D : p[i] = queue[i]
      <4>1. 0 \notin DOMAIN queue
        BY <1>1, SinceIs
      <4> QED
        BY <1>2, <2>6, <4>1 DEF WithServer
    <3>2. p[0].op.kind = step.op.kind
      <4>1. f \in server'[MessageOf(r)].flags <=> step.op.kind = "SetFlags"
        BY <1>8 DEF ServedFlags
      <4>2. ServersRow(r, f)'.op.kind =
               IF f \in server'[MessageOf(r)].flags THEN "SetFlags" ELSE "ClearFlags"
        BY DEF ServersRow, FlagOp
      <4> QED
        BY <1>8, <3>1, <4>1, <4>2 DEF FlagKinds
    <3> QED
      BY <1>2, <2>2, <2>6, <3>1, <3>2
  <2>9. x \in D /\ \A i \in D : x <= i
    BY <2>1, <2>2, <2>4
  <2> HIDE DEF D
  <2>10. Alternating({0} \cup (D \ {x}), p) /\ EndsIn({0} \cup (D \ {x}), p, w)
    BY <1>2, <2>7, <2>8, <2>9, ServedGoes
  <2>11. Balanced({0} \cup (D \ {x}), {}, p)
    BY <2>10, BalancedAlone
  <2>12. EndsIn({0} \cup (D \ {x}), p, f \in wish[MessageOf(r)].flags)
    BY <2>6, <2>10 DEF EndsIn
  <2> QED
    BY <1>3, <2>5, <2>6, <2>11, <2>12 DEF FlagAgrees
<1> QED
  BY <1>6, <1>7, <1>8, OpIs

\* The server carries the step out, or the message is given up.
LEMMA ConvServe ==
    ASSUME TypeInv, TypeInv', IdInv, ShowInv, ConvInv, Store \/ Move \/ ReplyLost
    PROVE  ConvInv'
<1> DEFINE m == MessageOf(step.target)
<1>1. /\ pc = "ready" /\ ~StaleAddress /\ Serve
      /\ queue' = queue /\ local' = local /\ plan' = plan /\ folded' = folded /\ step' = step
      /\ wish' = wish /\ doubled' = doubled
  BY DEF Store, Move, ReplyLost
<1>2. /\ astray \subseteq astray' /\ pc' \in {"adopt", "settle"}
      /\ m \notin astray' => Named # {} /\ outcome' = "Applied"
  BY DEF Store, Move, ReplyLost, Decide, Lost
<1>3. StepFits(step, queue) /\ step.op \in Ops /\ step.target \in Rows
  BY <1>1 DEF TypeInv, PassType, Busy, StepFits
<1>4. \A n \in Named : n = m
  BY <1>1, NamedIsOwn DEF IdInv
<1>5. \A n \in Messages : n # m => server'[n] = server[n]
  BY <1>1, <1>3, <1>4, ServeIs
<1>6. folded = {} /\ folded' = {} /\ OneFlagEach /\ QueueType /\ QueueType' /\ ServerType
  BY <1>1 DEF ShowInv, PlanFits, TypeInv
<1>7. Unmoved
  BY <1>1, SameQueueKeeps DEF Unmoved, Present
<1>8. \A r \in Rows : MessageOf(r) \in Messages
  BY IdsAre
<1>9. ASSUME NEW r \in Rows, MessageOf(r) \notin astray', OnlyRow(r), Agrees(r)
      PROVE  OnlyRow(r)' /\ Agrees(r)'
  <2>1. Queued(r)' = Queued(r) /\ Served(r) = {}
    BY <1>1, SameQueueKeeps DEF Served
  <2>2. CASE MessageOf(r) # m
    <3>1. Served(r)' = {}
      BY <1>1, <2>2 DEF Served
    <3>2. server'[MessageOf(r)] = server[MessageOf(r)]
      BY <1>5, <1>8, <2>2
    <3>3. Still(r)
      BY <1>1, <2>1, <3>1, <3>2 DEF Still, Waits
    <3> QED
      BY <1>7, <1>9, <3>3, UnmovedAgrees
  <2>3. CASE MessageOf(r) = m
    <3>1. Named # {} /\ outcome' = "Applied" /\ m \notin astray /\ m \in Named
      BY <1>2, <1>4, <1>9, <2>3
    <3>2. RowFits(step.target)
      BY <1>3, <3>1 DEF ShowInv, RowsFit
    <3>3. RunsFirst(step.target)
      BY <1>1, <3>2 DEF RowFits, Busy
    <3>4. step.target = r
      <4>1. Queued(step.target) # {}
        BY <1>3, <3>3 DEF RunsFirst, StepFits
      <4> QED
        BY <1>3, <1>9, <2>3, <4>1 DEF OnlyRow, InUse
    <3>5. Served(r)' = step.rows
      BY <1>1, <1>2, <3>1, <3>4 DEF Served
    <3>6. StepDoes(step, queue) /\ (step.op.kind \in MoveKinds => address.box = step.op.from)
      BY <1>1, <3>1 DEF ConvInv, SendsIt
    <3>7. ServedBox(m) /\ ServedFlags(m)
      BY <1>1, <1>3, <1>6, <3>1, ServedIs
    <3>8. server[m].box = address.box
      BY <3>1 DEF Named
    <3>9. BoxAgrees(r)'
      <4>1. /\ ServedBox(MessageOf(r)) /\ BoxAgrees(r) /\ step.rows \subseteq Queued(r)
            /\ step.op.kind \in MoveKinds => server[MessageOf(r)].box = step.op.from
        BY <1>9, <2>3, <3>3, <3>4, <3>6, <3>7, <3>8 DEF Agrees, RunsFirst
      <4> QED
        BY <1>1, <1>3, <1>6, <2>1, <3>5, <3>6, <4>1, ServedBoxAgrees
    <3>10. ASSUME NEW f \in Flags PROVE FlagAgrees(r, f)'
      <4>1. ServedFlags(MessageOf(r)) /\ FlagAgrees(r, f) /\ RowFits(r) /\ RunsFirst(r)
        BY <1>9, <2>3, <3>2, <3>3, <3>4, <3>7 DEF Agrees
      <4> QED
        BY <1>1, <1>3, <1>6, <2>1, <3>5, <3>6, <4>1, ServedFlagAgrees
    <3>11. OnlyRow(r)' /\ ShowsWish(r)'
      BY <1>1, <1>7, <1>9, UnmovedIs DEF Agrees
    <3> QED
      BY <3>9, <3>10, <3>11 DEF Agrees
  <2> QED
    BY <2>2, <2>3
<1>10. EachAgrees'
  <2>1. EachKeeps
    BY <1>1, <1>2, <1>9 DEF EachKeeps
  <2> QED
    BY <2>1, EachKeepsIs DEF ConvInv
<1>11. PlanDoes'
  BY <1>1, <1>2, PlanStill DEF ConvInv, OpsStay
<1>12. RowsWere'
  BY <1>1, RowsStill DEF ConvInv
<1>13. SendsIt' /\ EndsWell'
  BY <1>1, <1>2 DEF SendsIt, EndsWell
<1> QED
  BY <1>10, <1>11, <1>12, <1>13 DEF ConvInv

\* A new row of the queue.
Adds(r, op, n) ==
    /\ n \in Nat /\ 0 < n /\ n \notin DOMAIN queue
    /\ DOMAIN queue' = DOMAIN queue \cup {n}
    /\ \A i \in DOMAIN queue : i < n /\ queue'[i] = queue[i]
    /\ queue'[n].op = op /\ queue'[n].target = r
    /\ Queued(r)' = Queued(r) \cup {n}
    /\ \A u : u # r => Queued(u)' = Queued(u)

LEMMA AddsIs ==
    ASSUME TypeInv, NEW r \in Rows, NEW op \in Ops, Enqueue(r, op)
    PROVE  \E n : Adds(r, op, n)
<1> DEFINE x == [target |-> r, op |-> op, snapshot |-> local[r].rid,
                 state |-> "pending", attempts |-> 0, due |-> TRUE]
<1>1. PICK n : n = Len(queue) + 1
  OBVIOUS
<1>2. x.target = r /\ x.op = op /\ x.state = "pending" /\ queue' = Append(queue, x)
  BY DEF Enqueue
<1>3. DOMAIN queue' = DOMAIN queue \cup {n}
  BY <1>1, EnqueuedRow
<1> HIDE DEF x
<1>4. queue \in Seq(QueueRow) /\ Len(queue) \in Nat /\ DOMAIN queue = 1 .. Len(queue)
  BY QueueIs DEF TypeInv, QueueType
<1>5. /\ n \in Nat /\ 0 < n /\ n \notin DOMAIN queue /\ queue'[n] = x
      /\ \A i \in DOMAIN queue : i < n /\ queue'[i] = queue[i]
  BY <1>1, <1>2, <1>4
<1>6. \A u : \A i : i \in Queued(u)' <=> i \in Queued(u) \/ (i = n /\ u = r)
  BY <1>2, <1>3, <1>5 DEF Queued, Pending
<1>7. Queued(r)' = Queued(r) \cup {n} /\ \A u : u # r => Queued(u)' = Queued(u)
  <2>1. Queued(r)' = Queued(r) \cup {n}
    BY <1>6
  <2>2. ASSUME NEW u, u # r PROVE Queued(u)' = Queued(u)
    <3>1. \A i \in Queued(u)' : i \in Queued(u)
      BY <1>6, <2>2
    <3>2. \A i \in Queued(u) : i \in Queued(u)'
      BY <1>6
    <3> QED
      BY <3>1, <3>2
  <2> QED
    BY <2>1, <2>2
<1> QED
  BY <1>2, <1>3, <1>5, <1>7 DEF Adds

\* The user asks for what the row asks for: a flag to be what it was not, or the message
\* to be elsewhere.
Wishes(m, op) ==
    /\ op.kind \in MoveKinds => op.from = wish[m].box /\ op.to = wish'[m].box
    /\ op.kind \in FlagKinds => wish'[m].box = wish[m].box
    /\ \A f : IF op.kind \in FlagKinds /\ f \in op.flags
              THEN /\ f \in wish[m].flags <=> op.kind = "ClearFlags"
                   /\ f \in wish'[m].flags <=> op.kind = "SetFlags"
              ELSE f \in wish'[m].flags <=> f \in wish[m].flags

LEMMA AddedWaits ==
    ASSUME TypeInv, NEW r \in Rows, NEW op \in Ops, NEW n, Adds(r, op, n), UNCHANGED pass_vars
    PROVE  /\ n \notin folded /\ folded' = folded /\ n \notin Waits(r)
           /\ Waits(r)' = Waits(r) \cup {n}
           /\ ToServe(r)' = ToServe(r) \cup {n}
           /\ OpsStay
<1>1. UNCHANGED <<pc, folded, step, outcome>>
  BY DEF pass_vars
<1>2. folded \subseteq DOMAIN queue
  BY DEF TypeInv, PassType
<1>3. Served(r) \subseteq DOMAIN queue /\ Served(r)' = Served(r)
  BY <1>1 DEF Served, TypeInv, PassType, StepFits, Busy
<1>4. Waits(r) \subseteq DOMAIN queue
  BY DEF Waits, Queued
<1>5. n \notin DOMAIN queue /\ Queued(r)' = Queued(r) \cup {n}
  BY DEF Adds
<1>6. Waits(r)' = Waits(r) \cup {n}
  BY <1>3, <1>5 DEF Waits
<1>7. ToServe(r)' = ToServe(r) \cup {n}
  BY <1>1, <1>2, <1>5, <1>6 DEF ToServe
<1>8. OpsStay
  BY DEF Adds, OpsStay
<1> QED
  BY <1>1, <1>2, <1>4, <1>5, <1>6, <1>7, <1>8

LEMMA AddedBoxAgrees ==
    ASSUME TypeInv, NEW r \in Rows, NEW op \in Ops, NEW n, Adds(r, op, n),
           UNCHANGED <<server, pass_vars>>, BoxAgrees(r), Wishes(MessageOf(r), op)
    PROVE  BoxAgrees(r)'
<1> DEFINE m == MessageOf(r)
<1>1. /\ n \notin ToServe(r) /\ ToServe(r)' = ToServe(r) \cup {n} /\ OpsStay
  BY AddedWaits DEF ToServe
<1>2. IsFiniteSet(ToServe(r)) /\ ToServe(r) \subseteq DOMAIN queue
  BY QueueIs, FS_Subset DEF ToServe, Waits, Queued, TypeInv
<1> SUFFICES ASSUME NEW b \in Mailboxes
             PROVE  Net(ToServe(r) \cup {n}, b, queue') = At(b, wish'[m].box) - At(b, server[m].box)
  BY <1>1 DEF BoxAgrees, Carries
<1>3. Net(ToServe(r), b, queue') = At(b, wish[m].box) - At(b, server[m].box)
  <2>1. Net(ToServe(r), b, queue) = At(b, wish[m].box) - At(b, server[m].box)
    BY DEF BoxAgrees, Carries
  <2>2. \A i \in ToServe(r) : queue[i].op = queue'[i].op
    BY <1>1, <1>2 DEF OpsStay
  <2>3. Net(ToServe(r), b, queue) = Net(ToServe(r), b, queue')
    BY <2>2, NetSame
  <2> QED
    BY <2>1, <2>3
<1>4. /\ Net({n}, b, queue') \in Int
      /\ Net(ToServe(r) \cup {n}, b, queue') = Net(ToServe(r), b, queue') + Net({n}, b, queue')
  <2>1. PICK S, p : S = ToServe(r) /\ p = queue'
    OBVIOUS
  <2>2. IsFiniteSet(S) /\ IsFiniteSet({n}) /\ S \cap {n} = {}
    BY <1>1, <1>2, <2>1, FS_Singleton
  <2>3. Net({n}, b, p) \in Int /\ Net(S \cup {n}, b, p) = Net(S, b, p) + Net({n}, b, p)
    BY <2>2, NetJoin
  <2> QED
    BY <2>1, <2>3
<1>5. At(b, wish[m].box) \in Int /\ At(b, server[m].box) \in Int /\ At(b, wish'[m].box) \in Int
  BY DEF At
<1>6. queue'[n].op = op
  BY DEF Adds
<1>7. CASE op.kind \in MoveKinds
  <2>1. Net({n}, b, queue') = At(b, op.to) - At(b, op.from)
    BY <1>6, <1>7, NetOne
  <2>2. op.to = wish'[m].box /\ op.from = wish[m].box
    BY <1>7 DEF Wishes
  <2> QED
    BY <1>3, <1>4, <1>5, <2>1, <2>2
<1>8. CASE op.kind \in FlagKinds
  <2>1. Net({n}, b, queue') = 0
    BY <1>6, <1>8, KindsApart, NetNone
  <2>2. wish'[m].box = wish[m].box
    BY <1>8 DEF Wishes
  <2> QED
    BY <1>3, <1>4, <1>5, <2>1, <2>2
<1> QED
  BY <1>7, <1>8, OpIs

LEMMA AddedFlagAgrees ==
    ASSUME TypeInv, QueueType', NEW r \in Rows, NEW op \in Ops, NEW n, Adds(r, op, n),
           UNCHANGED <<server, pass_vars>>, NEW f, FlagAgrees(r, f), Wishes(MessageOf(r), op)
    PROVE  FlagAgrees(r, f)'
<1> DEFINE w == f \in wish[MessageOf(r)].flags
<1>1. QueueType /\ n \notin folded /\ folded' = folded /\ OpsStay
      /\ Waits(r)' = Waits(r) \cup {n} /\ n \notin Waits(r)
  BY AddedWaits DEF TypeInv
<1>2. /\ Since(r, f) = {0} \cup {i \in Waits(r) : Touches(queue, i, f)}
      /\ Since(r, f)' = {0} \cup {i \in Waits(r)' : Touches(queue', i, f)}
  BY DEF Since, Changers, Waits
<1>3. /\ n \in Nat /\ 0 < n /\ queue'[n].op = op
      /\ \A i \in DOMAIN queue : i < n /\ queue'[i] = queue[i]
  BY DEF Adds
<1>4. Waits(r) \subseteq DOMAIN queue
  BY DEF Waits, Queued
<1>5. \A i \in Waits(r) : Touches(queue', i, f) <=> Touches(queue, i, f)
  BY <1>3, <1>4 DEF Touches
<1>6. \A i \in Since(r, f) : WithServer(r, f)'[i].op = WithServer(r, f)[i].op
  <2>1. \A i \in {0} \cup DOMAIN queue : WithServer(r, f)'[i].op = WithServer(r, f)[i].op
    BY <1>1, ServersRowStays DEF OpsStay
  <2> QED
    BY <1>2, <1>4, <2>1
<1>7. CASE ~(op.kind \in FlagKinds /\ f \in op.flags)
  <2>1. Since(r, f)' = Since(r, f)
    <3>1. ~Touches(queue', n, f)
      BY <1>3, <1>7 DEF Touches
    <3> QED
      BY <1>1, <1>2, <1>5, <3>1
  <2>2. f \in wish'[MessageOf(r)].flags <=> f \in wish[MessageOf(r)].flags
    BY <1>7 DEF Wishes
  <2> QED
    BY <1>1, <1>6, <2>1, <2>2, FlagStays
<1>8. CASE op.kind \in FlagKinds /\ f \in op.flags
  <2>1. Since(r, f)' = Since(r, f) \cup {n}
    <3>1. Touches(queue', n, f)
      BY <1>3, <1>8 DEF Touches
    <3> QED
      BY <1>1, <1>2, <1>5, <3>1
  <2>2. /\ Since(r, f) \in SUBSET Nat /\ Since(r, f) \subseteq {0} \cup DOMAIN queue
        /\ \A i \in Since(r, f) : Touches(WithServer(r, f), i, f)
    BY <1>1, <1>2, <1>4, SinceIs
  <2>3. \A i \in Since(r, f) : i < n
    BY <1>3, <2>2
  <2>4. WithServer(r, f)'[n].op = op
    <3>1. n # 0 /\ n \in DOMAIN queue'
      BY <1>3 DEF Adds
    <3> QED
      BY <1>3, <3>1 DEF WithServer
  <2>5. /\ f \in wish[MessageOf(r)].flags <=> op.kind = "ClearFlags"
        /\ f \in wish'[MessageOf(r)].flags <=> op.kind = "SetFlags"
    BY <1>8 DEF Wishes
  <2>6. PICK C, q, p : C = Since(r, f) /\ q = WithServer(r, f) /\ p = WithServer(r, f)'
    OBVIOUS
  <2>7. /\ Balanced(C, folded, q)
        /\ \A i : IsLast(C, i) => (f \in wish[MessageOf(r)].flags <=> q[i].op.kind = "SetFlags")
    BY <2>6 DEF FlagAgrees, EndsIn, IsLast
  <2>8. Balanced(C, folded, p)
    BY <1>6, <2>6, <2>7, BalancedSame
  <2>9. \A i : IsLast(C, i) => p[i].op.kind # p[n].op.kind
    <3> SUFFICES ASSUME NEW i, IsLast(C, i) PROVE p[i].op.kind # p[n].op.kind
      OBVIOUS
    <3>1. i \in C /\ p[i].op = q[i].op /\ p[n].op = op
      BY <1>6, <2>4, <2>6 DEF IsLast
    <3>2. op.kind = "ClearFlags" <=> q[i].op.kind = "SetFlags"
      BY <2>5, <2>7
    <3>3. q[i].op.kind \in FlagKinds
      BY <2>2, <2>6, <3>1 DEF Touches
    <3> QED
      BY <1>8, <3>1, <3>2, <3>3 DEF FlagKinds
  <2>10. Balanced(C \cup {n}, folded, p)
    BY <1>1, <1>3, <2>2, <2>3, <2>6, <2>8, <2>9, ChangeStands
  <2>11. \A i : IsLast(C \cup {n}, i) => i = n
    BY <2>3, <2>6 DEF IsLast
  <2>12. EndsIn(C \cup {n}, p, f \in wish'[MessageOf(r)].flags)
    BY <2>4, <2>5, <2>6, <2>11 DEF EndsIn
  <2> QED
    BY <1>1, <2>1, <2>6, <2>10, <2>12 DEF FlagAgrees
<1> QED
  BY <1>7, <1>8

\* What the user asks of a row is asked of the one row of its message.
LEMMA UserKeeps ==
    ASSUME TypeInv, TypeInv', ConvInv, NEW u \in Rows, Present(u), local'[u].box # "none",
           NEW op \in Ops, Enqueue(u, op),
           UNCHANGED <<server, pass_vars, astray, doubled>>,
           \A r \in Rows : r # u => local'[r] = local[r],
           \A m \in Messages : m # MessageOf(u) => wish'[m] = wish[m],
           ShowsWish(u) => Wishes(MessageOf(u), op) /\ ShowsWish(u)'
    PROVE  ConvInv'
<1>1. PICK n : Adds(u, op, n)
  BY AddsIs
<1>2. OpsStay
  BY <1>1, AddedWaits
<1>3. QueueType' /\ QueueType
  BY DEF TypeInv
<1>4. \A r \in Rows : InUse(r)' => InUse(r)
  BY <1>1 DEF Adds, InUse, Present
<1>5. ASSUME NEW r \in Rows, OnlyRow(r), Agrees(r)
      PROVE  OnlyRow(r)' /\ Agrees(r)'
  <2>1. OnlyRow(r)'
    BY <1>4, <1>5 DEF OnlyRow
  <2>2. CASE r = u
    <3>1. Wishes(MessageOf(u), op) /\ ShowsWish(u)' /\ BoxAgrees(u)
      BY <1>5, <2>2 DEF Agrees
    <3>2. BoxAgrees(u)'
      BY <1>1, <3>1, AddedBoxAgrees
    <3>3. \A f \in Flags : FlagAgrees(u, f)'
      BY <1>1, <1>3, <1>5, <2>2, <3>1, AddedFlagAgrees DEF Agrees
    <3> QED
      BY <2>1, <2>2, <3>1, <3>2, <3>3 DEF Agrees
  <2>3. CASE r # u
    <3>1. MessageOf(r) # MessageOf(u) /\ MessageOf(r) \in Messages
      BY <1>5, <2>3, IdsAre DEF OnlyRow, InUse
    <3>2. wish'[MessageOf(r)] = wish[MessageOf(r)] /\ local'[r] = local[r]
      BY <2>3, <3>1
    <3>3. Waits(r)' = Waits(r) /\ folded' = folded
      BY <1>1, <2>3 DEF Adds, Waits, Served, pass_vars
    <3>4. Still(r)
      BY <1>2, <3>2, <3>3 DEF Still, OpsStay
    <3>5. ShowsWish(r)'
      BY <1>5, <3>2 DEF Agrees, ShowsWish, Present
    <3> QED
      BY <1>5, <2>1, <3>4, <3>5, StillAgrees
  <2> QED
    BY <2>2, <2>3
<1>6. EachAgrees'
  <2>1. EachKeeps
    BY <1>5 DEF EachKeeps
  <2> QED
    BY <2>1, EachKeepsIs DEF ConvInv
<1>7. PlanDoes' /\ SendsIt' /\ EndsWell'
  <2>1. PlanDoes'
    BY <1>2, PlanStill DEF ConvInv, pass_vars
  <2>2. SendsIt'
    BY <1>2, SendsStill DEF ConvInv
  <2>3. EndsWell'
    BY DEF ConvInv, EndsWell, pass_vars
  <2> QED
    BY <2>1, <2>2, <2>3
<1>8. RowsWere'
  <2> SUFFICES ASSUME NEW i \in DOMAIN queue' PROVE local'[queue'[i].target].box # "none"
    BY DEF RowsWere
  <2>1. CASE i \in DOMAIN queue
    <3>1. queue'[i] = queue[i] /\ queue[i].target \in Rows /\ local[queue[i].target].box # "none"
      BY <1>1, <1>3, <2>1, QueueIs DEF Adds, ConvInv, RowsWere, QueueRow
    <3> QED
      BY <3>1
  <2>2. CASE i \notin DOMAIN queue
    BY <1>1, <2>2 DEF Adds
  <2> QED
    BY <2>1, <2>2
<1> QED
  BY <1>6, <1>7, <1>8 DEF ConvInv

\* A flag that is turned.
Flipped(kind, f, L) == IF kind = "SetFlags" THEN L \cup {f} ELSE L \ {f}

LEMMA ConvChangeFlag ==
    ASSUME TypeInv, TypeInv', ConvInv, NEW u \in Rows, NEW f \in Flags, ChangeFlag(u, f)
    PROVE  ConvInv'
<1> DEFINE m == MessageOf(u)
<1>1. /\ Present(u) /\ UNCHANGED <<server, pass_vars, astray, doubled>> /\ m \in Messages
      /\ local[u] \in Whole /\ local \in [Rows -> LocalRows]
      /\ wish \in [Messages -> [box : Mailboxes, flags : SUBSET Flags]]
  BY IdsAre, PresentRow DEF ChangeFlag, server_vars, TypeInv, UserType, Whole
<1>2. PICK kind \in FlagKinds :
         /\ Enqueue(u, FlagOp(kind, {f})) /\ (f \in local[u].flags <=> kind = "ClearFlags")
         /\ local' = [local EXCEPT ![u].flags = Flipped(kind, f, local[u].flags)]
         /\ wish' = [wish EXCEPT ![m].flags = Flipped(kind, f, wish[m].flags)]
  <2>1. CASE f \notin local[u].flags
    <3>1. \A L : Flipped("SetFlags", f, L) = L \cup {f}
      BY DEF Flipped
    <3>2. /\ Enqueue(u, FlagOp("SetFlags", {f}))
          /\ local' = [local EXCEPT ![u].flags = local[u].flags \cup {f}]
          /\ wish' = [wish EXCEPT ![m].flags = wish[m].flags \cup {f}]
      BY <2>1 DEF ChangeFlag
    <3>3. "SetFlags" \in FlagKinds /\ (f \in local[u].flags <=> "SetFlags" = "ClearFlags")
      BY <2>1 DEF FlagKinds
    <3> QED
      BY <3>1, <3>2, <3>3
  <2>2. CASE f \in local[u].flags
    <3>1. \A L : Flipped("ClearFlags", f, L) = L \ {f}
      BY DEF Flipped
    <3>2. /\ Enqueue(u, FlagOp("ClearFlags", {f}))
          /\ local' = [local EXCEPT ![u].flags = local[u].flags \ {f}]
          /\ wish' = [wish EXCEPT ![m].flags = wish[m].flags \ {f}]
      BY <2>2 DEF ChangeFlag
    <3>3. "ClearFlags" \in FlagKinds /\ (f \in local[u].flags <=> "ClearFlags" = "ClearFlags")
      BY <2>2 DEF FlagKinds
    <3> QED
      BY <3>1, <3>2, <3>3
  <2> QED
    BY <2>1, <2>2
<1>3. PICK op : op = FlagOp(kind, {f})
  OBVIOUS
<1>4. op \in Ops /\ op.kind = kind /\ op.flags = {f} /\ op.kind \notin MoveKinds
  <2>1. kind \in FlagKinds /\ {f} \in SUBSET Flags
    BY <1>2
  <2>2. op \in Ops
    BY <1>3, <2>1 DEF Ops
  <2>3. op.kind = kind /\ op.flags = {f}
    BY <1>3 DEF FlagOp
  <2> QED
    BY <2>1, <2>2, <2>3, KindsApart
<1>5. /\ local'[u].box = local[u].box
      /\ local'[u].flags = Flipped(kind, f, local[u].flags)
      /\ \A r \in Rows : r # u => local'[r] = local[r]
  BY <1>1, <1>2 DEF Whole
<1>6. /\ wish'[m].box = wish[m].box /\ wish'[m].flags = Flipped(kind, f, wish[m].flags)
      /\ \A n \in Messages : n # m => wish'[n] = wish[n]
  BY <1>1, <1>2
<1>7. local'[u].box # "none"
  BY <1>1, <1>5, MailboxesAssumption DEF Present
<1>8. ASSUME ShowsWish(u) PROVE Wishes(m, op) /\ ShowsWish(u)'
  <2>1. local[u].box = wish[m].box /\ local[u].flags = wish[m].flags
    BY <1>1, <1>8 DEF ShowsWish
  <2>2. Wishes(m, op)
    BY <1>2, <1>4, <1>6, <2>1 DEF Wishes, Flipped, FlagKinds
  <2>3. ShowsWish(u)'
    BY <1>2, <1>5, <1>6, <2>1 DEF ShowsWish
  <2> QED
    BY <2>2, <2>3
<1>9. Enqueue(u, op)
  BY <1>2, <1>3
<1> QED
  BY <1>1, <1>4, <1>5, <1>6, <1>7, <1>8, <1>9, UserKeeps

LEMMA ConvRelocate ==
    ASSUME TypeInv, TypeInv', ConvInv, NEW u \in Rows, NEW to \in Mailboxes, Relocate(u, to)
    PROVE  ConvInv'
<1> DEFINE m == MessageOf(u)
<1>1. /\ Present(u) /\ UNCHANGED <<server, pass_vars, astray, doubled>> /\ m \in Messages
      /\ local[u] \in Whole /\ local \in [Rows -> LocalRows]
      /\ wish \in [Messages -> [box : Mailboxes, flags : SUBSET Flags]]
      /\ local' = [local EXCEPT ![u].box = to, ![u].rid = NoRid]
      /\ wish' = [wish EXCEPT ![m].box = to]
  BY IdsAre, PresentRow DEF Relocate, server_vars, TypeInv, UserType, Whole
<1>2. PICK kind \in MoveKinds : Enqueue(u, MoveOp(kind, local[u].box, to))
  BY DEF Relocate, MoveKinds
<1>3. PICK op : op = MoveOp(kind, local[u].box, to)
  OBVIOUS
<1>4. /\ op \in Ops /\ op.kind \in MoveKinds /\ op.kind \notin FlagKinds
      /\ op.from = local[u].box /\ op.to = to
  <2>1. local[u].box \in Mailboxes
    BY <1>1 DEF Whole
  <2>2. op \in Ops
    BY <1>3, <2>1 DEF Ops
  <2>3. op.kind = kind /\ op.from = local[u].box /\ op.to = to
    BY <1>3 DEF MoveOp
  <2> QED
    BY <2>2, <2>3, KindsApart
<1>5. /\ local'[u].box = to /\ local'[u].flags = local[u].flags
      /\ \A r \in Rows : r # u => local'[r] = local[r]
  BY <1>1 DEF Whole
<1>6. /\ wish'[m].box = to /\ wish'[m].flags = wish[m].flags
      /\ \A n \in Messages : n # m => wish'[n] = wish[n]
  BY <1>1
<1>7. local'[u].box # "none"
  BY <1>5, MailboxesAssumption
<1>8. ASSUME ShowsWish(u) PROVE Wishes(m, op) /\ ShowsWish(u)'
  <2>1. local[u].box = wish[m].box /\ local[u].flags = wish[m].flags
    BY <1>1, <1>8 DEF ShowsWish
  <2>2. Wishes(m, op)
    BY <1>4, <1>6, <2>1 DEF Wishes
  <2>3. ShowsWish(u)'
    BY <1>5, <1>6, <2>1 DEF ShowsWish
  <2> QED
    BY <2>2, <2>3
<1>9. Enqueue(u, op)
  BY <1>2, <1>3
<1> QED
  BY <1>1, <1>4, <1>5, <1>6, <1>7, <1>8, <1>9, UserKeeps

\* Without changes queued, a fetched flag is what the server had.
LEMMA MergedAsFetched ==
    ASSUME QueueType, NEW r, NEW F \in SUBSET Flags, NEW f, Changers(r, f) = {}
    PROVE  f \in Merged(r, F) <=> f \in F
<1>1. PICK c, p, n : MergesBy(c, p, n, r, F)
  BY MergedRuns
<1>2. /\ n \in Nat
      /\ \A k \in 1 .. n : p[k] \in FlagRows(r) /\ c[k] = Performed(c[k - 1], queue[p[k]].op)
      /\ \A k \in 0 .. n : \E G \in SUBSET Flags : c[k] = [flags |-> G]
      /\ c[0] = [flags |-> F] /\ Merged(r, F) = c[n].flags
  BY <1>1 DEF MergesBy
<1>3. \A j \in FlagRows(r) : queue[j].op.kind \in FlagKinds /\ f \notin queue[j].op.flags
  BY DEF FlagRows, Changers, Touches
<1> DEFINE Right(k) == f \in c[k].flags <=> f \in F
           S == {k \in 0 .. n : Right(k)}
<1>4. ASSUME NEW k \in 1 .. n, Right(k - 1) PROVE Right(k)
  <2>1. k - 1 \in 0 .. n
    BY <1>2
  <2>2. PICK G \in SUBSET Flags : c[k - 1] = [flags |-> G]
    BY <1>2, <2>1
  <2>3. PICK o : o = queue[p[k]].op
    OBVIOUS
  <2>4. c[k] = Performed([flags |-> G], o) /\ o.kind \in FlagKinds /\ f \notin o.flags
    BY <1>2, <1>3, <2>2, <2>3
  <2>5. f \in G <=> f \in F
    BY <1>4, <2>2
  <2>6. CASE o.kind = "SetFlags"
    <3>1. c[k] = [flags |-> G \cup o.flags]
      BY <2>4, <2>6 DEF Performed
    <3> QED
      BY <2>4, <2>5, <3>1
  <2>7. CASE o.kind = "ClearFlags"
    <3>1. c[k] = [flags |-> G \ o.flags]
      BY <2>4, <2>7 DEF Performed
    <3> QED
      BY <2>4, <2>5, <3>1
  <2> QED
    BY <2>4, <2>6, <2>7 DEF FlagKinds
<1>5. Right(0)
  BY <1>2
<1> HIDE DEF Right
<1>6. 0 \in S /\ \A k \in 1 .. n : k - 1 \in S => k \in S
  BY <1>2, <1>4, <1>5
<1> HIDE DEF S
<1>7. n \in S
  <2>1. \A k \in 0 .. n : k \in S
    BY <1>2, <1>6, InductionUpTo
  <2> QED
    BY <1>2, <2>1
<1>8. Right(n)
  BY <1>7 DEF S
<1> QED
  BY <1>2, <1>8 DEF Right

\* The row that agrees is given what the user wants when it is given what the server has.
LEMMA MergedIsWished ==
    ASSUME TypeInv, NEW r \in Rows, RowFits(r), Agrees(r), Present(r) \/ Queued(r) = {}
    PROVE  Merged(r, server[MessageOf(r)].flags) = wish[MessageOf(r)].flags
<1> DEFINE m == MessageOf(r)
           F == server[m].flags
<1>1. QueueType /\ m \in Messages /\ F \in SUBSET Flags /\ wish[m].flags \in SUBSET Flags
  BY IdsAre DEF TypeInv, ServerType, ServerRows, UserType
<1>2. Merged(r, F) \in SUBSET Flags
  BY <1>1, MergedType
<1>3. ASSUME NEW f \in Flags PROVE f \in Merged(r, F) <=> f \in wish[m].flags
  <2>1. CASE Changers(r, f) = {}
    <3>1. f \in Merged(r, F) <=> f \in F
      BY <1>1, <2>1, MergedAsFetched
    <3>2. Since(r, f) = {0}
      BY <2>1 DEF Since
    <3>3. IsLast(Since(r, f), 0) /\ 0 \in Since(r, f)
      BY <3>2 DEF IsLast
    <3>4. f \in wish[m].flags <=> WithServer(r, f)[0].op.kind = "SetFlags"
      BY <1>3, <3>3 DEF Agrees, FlagAgrees, EndsIn
    <3>5. WithServer(r, f)[0].op.kind = "SetFlags" <=> f \in F
      BY <1>1, SinceIs, ServersKind
    <3> QED
      BY <3>1, <3>4, <3>5
  <2>2. CASE Changers(r, f) # {}
    <3>1. Present(r)
      BY <2>2 DEF Changers
    <3>2. PICK i : IsLast(Changers(r, f), i)
      <4>1. /\ Changers(r, f) \in SUBSET Nat /\ Len(queue) \in Nat
            /\ \A i \in Changers(r, f) : i <= Len(queue)
        BY <1>1, QueueIs DEF Changers, Queued
      <4> QED
        BY <2>2, <4>1, LastExists
    <3>3. f \in Merged(r, F) <=> queue[i].op.kind = "SetFlags"
      BY <1>1, <3>2, MergedShows
    <3>4. f \in local[r].flags <=> queue[i].op.kind = "SetFlags"
      BY <3>1, <3>2 DEF RowFits, FlagFits, Shows, IsLast
    <3>5. local[r].flags = wish[m].flags
      BY <3>1 DEF Agrees, ShowsWish
    <3> QED
      BY <3>3, <3>4, <3>5
  <2> QED
    BY <2>1, <2>2
<1> QED
  BY <1>1, <1>2, <1>3

\* Nothing is queued: the server has the message where the user wants it.
LEMMA ServerIsWished ==
    ASSUME TypeInv, NEW r \in Rows, Agrees(r), Queued(r) = {}
    PROVE  /\ server[MessageOf(r)].box = wish[MessageOf(r)].box
           /\ server[MessageOf(r)].flags = wish[MessageOf(r)].flags
<1> DEFINE m == MessageOf(r)
<1>1. /\ QueueType /\ m \in Messages
      /\ server[m].flags \in SUBSET Flags /\ wish[m].flags \in SUBSET Flags
      /\ wish[m].box \in Mailboxes
  BY IdsAre DEF TypeInv, ServerType, ServerRows, UserType
<1>2. server[m].box = wish[m].box
  <2>1. ToServe(r) = {}
    BY DEF ToServe, Waits
  <2>2. Net({}, wish[m].box, queue) = 0
    BY NetNone
  <2>3. 0 = At(wish[m].box, wish[m].box) - At(wish[m].box, server[m].box)
    BY <1>1, <2>1, <2>2 DEF Agrees, BoxAgrees, Carries
  <2> QED
    BY <2>3 DEF At
<1>3. ASSUME NEW f \in Flags PROVE f \in server[m].flags <=> f \in wish[m].flags
  <2>1. Since(r, f) = {0}
    BY DEF Since, Changers
  <2>2. IsLast(Since(r, f), 0) /\ 0 \in Since(r, f)
    BY <2>1 DEF IsLast
  <2>3. f \in wish[m].flags <=> WithServer(r, f)[0].op.kind = "SetFlags"
    BY <1>3, <2>2 DEF Agrees, FlagAgrees, EndsIn
  <2> QED
    BY <1>1, <2>3, SinceIs, ServersKind
<1> QED
  BY <1>1, <1>2, <1>3

\* The row a fetched copy is stored in, if any: one in the mailbox, or a new one.
LEMMA RowForIs ==
    ASSUME NEW c, c.msg \in Messages
    PROVE  \/ RowFor(c) = {}
           \/ \E u \in Rows : /\ RowFor(c) = {u} /\ MessageOf(u) = c.msg
                              /\ local[u].box = c.rid.box \/ local[u] = Absent
<1> DEFINE row(k) == <<c.msg, k>>
           mine == {k \in 1 .. Copies : local[row(k)].box = c.rid.box}
           same == {k \in mine : local[row(k)].rid = c.rid}
           awaiting == {k \in mine : local[row(k)].rid = NoRid}
           fresh == {k \in 1 .. Copies : local[row(k)] = Absent}
<1>1. \A k \in 1 .. Copies : row(k) \in Rows /\ MessageOf(row(k)) = c.msg
  BY DEF Rows, MessageOf
<1>2. RowFor(c) = IF same # {} THEN {row(Least(same))}
                  ELSE IF awaiting # {} THEN {row(Least(awaiting))}
                  ELSE IF fresh # {} THEN {row(Least(fresh))} ELSE {}
  BY DEF RowFor
<1>3. /\ same \in SUBSET Nat /\ awaiting \in SUBSET Nat /\ fresh \in SUBSET Nat
      /\ same \subseteq mine /\ awaiting \subseteq mine /\ mine \subseteq 1 .. Copies
      /\ fresh \subseteq 1 .. Copies
  BY NumbersAssumption
<1>4. /\ \A k \in mine : local[row(k)].box = c.rid.box
      /\ \A k \in fresh : local[row(k)] = Absent
  OBVIOUS
<1> HIDE DEF row, mine, same, awaiting, fresh
<1>5. CASE same # {}
  <2>1. Least(same) \in mine
    BY <1>3, <1>5, LeastIs
  <2> QED
    BY <1>1, <1>2, <1>3, <1>4, <1>5, <2>1
<1>6. CASE same = {} /\ awaiting # {}
  <2>1. Least(awaiting) \in mine
    BY <1>3, <1>6, LeastIs
  <2> QED
    BY <1>1, <1>2, <1>3, <1>4, <1>6, <2>1
<1>7. CASE same = {} /\ awaiting = {} /\ fresh # {}
  <2>1. Least(fresh) \in fresh
    BY <1>3, <1>7, LeastIs
  <2> QED
    BY <1>1, <1>2, <1>3, <1>4, <1>7, <2>1
<1>8. CASE same = {} /\ awaiting = {} /\ fresh = {}
  BY <1>2, <1>8
<1> QED
  BY <1>5, <1>6, <1>7, <1>8

\* What a sync stores: the copies it was told of that no move is under way for.
News(b) == {c \in passes[b].listing : ~Shadowed(c)}
StoredIn(r, c, b) == /\ local'[r].box = b
                     /\ local'[r].flags = Merged(r, c.flags)

LEMMA StoresNews ==
    ASSUME TypeInv, NEW b \in Mailboxes, SyncStore(b)
    PROVE  /\ News(b) \subseteq FetchedRows /\ \A c \in News(b) : c.rid.box = b
           /\ \A r \in Rows : (\E c \in News(b) : r \in RowFor(c)) =>
                 \E c \in News(b) : r \in RowFor(c) /\ StoredIn(r, c, b)
           /\ \A r \in Rows : (\A c \in News(b) : r \notin RowFor(c)) => local'[r] = local[r]
           /\ \A c \in News(b) : c.msg \notin astray' => c \in Listing(b)
           /\ \A c \in News(b) : c.msg \notin doubled' =>
                 \A u \in Rows : MessageOf(u) = c.msg /\ InUse(u) => u \in RowFor(c)
<1> DEFINE news == News(b)
           pick(r) == CHOOSE c \in news : r \in RowFor(c)
           new(r) == [box |-> b, rid |-> pick(r).rid, flags |-> Merged(r, pick(r).flags)]
           second == {c \in news : \E r \in Rows \ RowFor(c) : MessageOf(r) = c.msg /\ InUse(r)}
<1>1. news \subseteq FetchedRows /\ \A c \in news : c.rid.box = b
  BY DEF TypeInv, SyncType, PassShapes, News
<1>2. local' = [r \in Rows |-> IF \E c \in news : r \in RowFor(c) THEN new(r) ELSE local[r]]
  BY DEF SyncStore, News
<1>3. ASSUME NEW r \in Rows, \E c \in news : r \in RowFor(c)
      PROVE  \E c \in news : r \in RowFor(c) /\ StoredIn(r, c, b)
  <2>1. pick(r) \in news /\ r \in RowFor(pick(r))
    BY <1>3
  <2>2. local'[r] = new(r)
    BY <1>2, <1>3
  <2>3. StoredIn(r, pick(r), b)
    BY <2>2 DEF StoredIn
  <2> QED
    BY <2>1, <2>3
<1>4. ASSUME NEW r \in Rows, \A c \in news : r \notin RowFor(c)
      PROVE  local'[r] = local[r]
  BY <1>2, <1>4
<1>5. \A c \in news : c.msg \notin astray' => c \in Listing(b)
  BY DEF SyncStore, Lost, News
<1>6. \A c \in news : c.msg \notin doubled' =>
         \A u \in Rows : MessageOf(u) = c.msg /\ InUse(u) => u \in RowFor(c)
  <2>1. doubled' = doubled \cup {c.msg : c \in second}
    BY DEF SyncStore, News
  <2> QED
    BY <2>1
<1> QED
  BY <1>1, <1>3, <1>4, <1>5, <1>6

\* A row takes the place of one that is out of use.
LEMMA PlaceTaken ==
    ASSUME TypeInv, UNCHANGED <<server, queue, pass_vars, wish>>, NEW r \in Rows, NEW u \in Rows,
           MessageOf(u) = MessageOf(r), Agrees(r), Queued(r) = {}, Queued(u) = {}, ShowsWish(u)'
    PROVE  Agrees(u)'
<1>1. UNCHANGED <<pc, folded, step, outcome>>
  BY DEF pass_vars
<1>2. Queued(u)' = {}
  BY SameQueueKeeps
<1>3. ToServe(r) = {} /\ ToServe(u)' = {}
  BY <1>2 DEF ToServe, Waits
<1>4. BoxAgrees(u)'
  BY <1>3 DEF Agrees, BoxAgrees, Carries
<1>5. ASSUME NEW f \in Flags PROVE FlagAgrees(u, f)'
  <2>1. Since(r, f) = {0} /\ Since(u, f)' = {0}
    BY <1>2 DEF Since, Changers
  <2>2. WithServer(u, f)' = WithServer(r, f)
    BY DEF WithServer, ServersRow
  <2>3. FlagAgrees(r, f)
    BY <1>5 DEF Agrees
  <2> QED
    BY <1>1, <2>1, <2>2, <2>3 DEF FlagAgrees
<1> QED
  BY <1>4, <1>5 DEF Agrees

\* A message a sync stores has one row afterwards, with what the server had.
LEMMA StoresOne ==
    ASSUME TypeInv, NEW b \in Mailboxes, SyncStore(b), NEW v \in Rows,
           NEW c \in News(b), v \in RowFor(c), MessageOf(v) \notin astray' \cup doubled'
    PROVE  /\ server[MessageOf(v)].box = b
           /\ local'[v].box = b
           /\ local'[v].flags = Merged(v, server[MessageOf(v)].flags)
           /\ \A u \in Rows : MessageOf(u) = MessageOf(v) /\ u # v =>
                 local'[u] = local[u] /\ ~InUse(u)
           /\ local[v].box = b \/ local[v] = Absent
<1> DEFINE m == MessageOf(v)
<1>1. \A d \in News(b) : /\ d \in FetchedRows /\ d.msg \in Messages /\ d.rid.box = b
                         /\ d.msg \notin astray' => d \in Listing(b)
                         /\ d.msg \notin doubled' =>
                               \A u \in Rows : MessageOf(u) = d.msg /\ InUse(u) => u \in RowFor(d)
  <2>1. News(b) \subseteq FetchedRows
    BY StoresNews
  <2>2. \A d \in FetchedRows : d.msg \in Messages
    BY DEF FetchedRows
  <2> QED
    BY <2>1, <2>2, StoresNews
<1>2. ASSUME NEW d \in News(b), NEW u \in Rows, u \in RowFor(d)
      PROVE  /\ RowFor(d) = {u} /\ MessageOf(u) = d.msg
             /\ local[u].box = b \/ local[u] = Absent
  BY <1>1, <1>2, RowForIs
<1>3. /\ RowFor(c) = {v} /\ c.msg = m
      /\ local[v].box = b \/ local[v] = Absent
  BY <1>2
<1>4. ASSUME NEW d \in News(b), d.msg = m
      PROVE  d.rid = ServerRid(m) /\ d.flags = server[m].flags /\ server[m].box = b
             /\ d = c
  <2>1. d \in Listing(b) /\ c \in Listing(b)
    BY <1>1, <1>3, <1>4
  <2>2. \A e \in Listing(b) :
           /\ e = [msg |-> e.msg, rid |-> ServerRid(e.msg), flags |-> server[e.msg].flags]
           /\ server[e.msg].box = b
    BY DEF Listing
  <2>3. /\ d = [msg |-> m, rid |-> ServerRid(m), flags |-> server[m].flags]
        /\ c = [msg |-> m, rid |-> ServerRid(m), flags |-> server[m].flags]
        /\ server[m].box = b
    BY <1>3, <1>4, <2>1, <2>2
  <2> QED
    BY <2>3
<1>5. /\ local'[v].box = b /\ local'[v].flags = Merged(v, server[m].flags)
  <2>1. PICK d \in News(b) : v \in RowFor(d) /\ StoredIn(v, d, b)
    BY StoresNews
  <2>2. d.flags = server[m].flags
    BY <1>2, <1>4, <2>1
  <2> QED
    BY <2>1, <2>2 DEF StoredIn
<1>6. ASSUME NEW u \in Rows, MessageOf(u) = m, u # v
      PROVE  local'[u] = local[u] /\ ~InUse(u)
  <2>1. u \notin RowFor(c)
    BY <1>3, <1>6
  <2>2. \A d \in News(b) : u \notin RowFor(d)
    BY <1>2, <1>4, <1>6, <2>1
  <2>3. local'[u] = local[u]
    BY <2>2, StoresNews
  <2>4. ~InUse(u)
    BY <1>1, <1>3, <1>6, <2>1
  <2> QED
    BY <2>3, <2>4
<1> QED
  BY <1>3, <1>4, <1>5, <1>6

\* The row that agreed does so still, or the one the sync made in its place does.
LEMMA StoredAgrees ==
    ASSUME TypeInv, TypeInv', ShowInv, ConvInv, NEW b \in Mailboxes, SyncStore(b),
           NEW r \in Rows, MessageOf(r) \notin astray' \cup doubled', OnlyRow(r), Agrees(r)
    PROVE  \E u \in Rows : MessageOf(u) = MessageOf(r) /\ OnlyRow(u)' /\ Agrees(u)'
<1> DEFINE m == MessageOf(r)
<1>1. /\ UNCHANGED <<server, queue, pass_vars, wish>> /\ UNCHANGED <<pc, folded, step, outcome>>
      /\ astray \subseteq astray'
  BY DEF SyncStore, Lost, server_vars, pass_vars
<1>2. \A u \in Rows : Queued(u)' = Queued(u)
  BY <1>1, SameQueueKeeps
<1>3. RowFits(r)
  BY <1>1 DEF ShowInv, RowsFit
<1>4. Still(r)
  BY <1>1, <1>2 DEF Still, Waits, Served
<1>5. \A u \in Rows : local'[u] = local[u] => (InUse(u)' <=> InUse(u))
  BY <1>2 DEF InUse, Present
<1>6. CASE \A v \in Rows : MessageOf(v) = m => \A c \in News(b) : v \notin RowFor(c)
  <2>1. \A v \in Rows : MessageOf(v) = m => local'[v] = local[v]
    BY <1>6, StoresNews
  <2>2. OnlyRow(r)'
    BY <1>5, <2>1 DEF OnlyRow
  <2>3. ShowsWish(r)'
    <3>1. ShowsWish(r)
      BY DEF Agrees
    <3>2. local'[r] = local[r]
      BY <2>1
    <3> QED
      BY <1>1, <3>1, <3>2 DEF ShowsWish, Present
  <2>4. Agrees(r)'
    BY <1>4, <2>3, StillAgrees
  <2> QED
    BY <2>2, <2>4
<1>7. ASSUME NEW v \in Rows, MessageOf(v) = m, NEW c \in News(b), v \in RowFor(c)
      PROVE  \E u \in Rows : MessageOf(u) = m /\ OnlyRow(u)' /\ Agrees(u)'
  <2>1. /\ server[m].box = b /\ local'[v].box = b
        /\ local'[v].flags = Merged(v, server[m].flags)
        /\ \A u \in Rows : MessageOf(u) = m /\ u # v => local'[u] = local[u] /\ ~InUse(u)
        /\ local[v].box = b \/ local[v] = Absent
    BY <1>7, StoresOne
  <2>2. OnlyRow(v)'
    BY <1>5, <1>7, <2>1 DEF OnlyRow
  <2>3. CASE Present(v)
    <3>1. r = v
      BY <1>7, <2>3 DEF OnlyRow, InUse
    <3>2. local[v].box = wish[m].box
      BY <2>3, <3>1 DEF Agrees, ShowsWish
    <3>3. local[v].box = b
      BY <2>1, <2>3, MailboxesAssumption DEF Present, Absent
    <3>4. Merged(r, server[m].flags) = wish[m].flags
      BY <1>3, <2>3, <3>1, MergedIsWished
    <3>5. ShowsWish(r)'
      BY <1>1, <2>1, <3>1, <3>2, <3>3, <3>4 DEF ShowsWish
    <3> QED
      BY <1>4, <1>7, <2>2, <3>1, <3>5, StillAgrees
  <2>4. CASE ~Present(v)
    <3>1. local[v] = Absent
      BY <2>1, <2>4 DEF Present
    <3>2. Queued(v) = {}
      BY <3>1 DEF ConvInv, RowsWere, Queued, Absent
    <3>3. Queued(r) = {}
      <4>1. CASE r = v
        BY <3>2, <4>1
      <4>2. CASE r # v
        BY <2>1, <4>2 DEF InUse
      <4> QED
        BY <4>1, <4>2
    <3>4. server[m].box = wish[m].box /\ server[m].flags = wish[m].flags
      BY <3>3, ServerIsWished
    <3>5. Merged(v, server[m].flags) = server[m].flags
      <4>1. QueueType /\ server[m].flags \in SUBSET Flags
        BY IdsAre DEF TypeInv, ServerType, ServerRows
      <4>2. Merged(v, server[m].flags) \in SUBSET Flags
        BY <4>1, MergedType
      <4>3. \A f \in Flags : Changers(v, f) = {}
        BY <3>2 DEF Changers
      <4>4. \A f \in Flags : f \in Merged(v, server[m].flags) <=> f \in server[m].flags
        BY <4>1, <4>3, MergedAsFetched
      <4> QED
        BY <4>1, <4>2, <4>4
    <3>6. ShowsWish(v)'
      BY <1>1, <1>7, <2>1, <3>4, <3>5 DEF ShowsWish
    <3>7. Agrees(v)'
      BY <1>1, <1>7, <3>2, <3>3, <3>6, PlaceTaken
    <3> QED
      BY <1>7, <2>2, <3>7
  <2> QED
    BY <2>3, <2>4
<1> QED
  BY <1>6, <1>7

LEMMA ConvSyncStore ==
    ASSUME TypeInv, TypeInv', ShowInv, ConvInv, NEW b \in Mailboxes, SyncStore(b)
    PROVE  ConvInv'
<1>1. /\ queue' = queue /\ UNCHANGED pass_vars /\ UNCHANGED <<pc, plan, step, outcome>>
      /\ astray \subseteq astray' /\ doubled \subseteq doubled'
  BY DEF SyncStore, Lost, pass_vars
<1>2. PlanDoes'
  BY <1>1, PlanStill DEF ConvInv, OpsStay
<1>3. SendsIt'
  BY <1>1, SendsStill DEF ConvInv, OpsStay
<1>4. EndsWell'
  BY <1>1 DEF ConvInv, EndsWell
<1>5. RowsWere'
  <2>1. ASSUME NEW r \in Rows, local[r].box # "none" PROVE local'[r].box # "none"
    <3>1. CASE \E c \in News(b) : r \in RowFor(c)
      <4>1. local'[r].box = b
        BY <3>1, StoresNews DEF StoredIn
      <4> QED
        BY <4>1, MailboxesAssumption
    <3>2. CASE ~\E c \in News(b) : r \in RowFor(c)
      <4>1. local'[r] = local[r]
        BY <3>2, StoresNews
      <4> QED
        BY <2>1, <4>1
    <3> QED
      BY <3>1, <3>2
  <2> QED
    BY <1>1, <2>1, RowsStill DEF ConvInv
<1>6. EachAgrees'
  <2> SUFFICES ASSUME NEW m \in Messages, m \notin astray' \cup doubled'
               PROVE  \E u \in Rows : MessageOf(u) = m /\ OnlyRow(u)' /\ Agrees(u)'
    BY DEF EachAgrees
  <2>1. PICK r \in Rows : MessageOf(r) = m /\ OnlyRow(r) /\ Agrees(r)
    BY <1>1 DEF ConvInv, EachAgrees
  <2> QED
    BY <2>1, StoredAgrees
<1> QED
  BY <1>2, <1>3, <1>4, <1>5, <1>6 DEF ConvInv

LEMMA InitConv ==
    ASSUME Init
    PROVE  ConvInv
<1>1. TypeInv /\ QueueType
  BY InitType DEF TypeInv
<1>2. /\ DOMAIN queue = {} /\ plan = {} /\ folded = {} /\ pc = "idle"
  BY EmptySeq DEF Init
<1>3. PlanDoes /\ SendsIt /\ EndsWell /\ RowsWere
  BY <1>2 DEF PlanDoes, SendsIt, EndsWell, RowsWere
<1>4. ASSUME NEW m \in Messages
      PROVE  \E r \in Rows : MessageOf(r) = m /\ OnlyRow(r) /\ Agrees(r)
  <2>1. PICK r : r = <<m, 1>>
    OBVIOUS
  <2>2. r \in Rows /\ MessageOf(r) = m /\ r[2] = 1
    BY <2>1, NumbersAssumption DEF Rows, MessageOf
  <2>3. PICK home \in Homes :
           /\ server = [n \in Messages |-> [box |-> home[n], uid |-> 1, flags |-> {}]]
           /\ wish = [n \in Messages |-> [box |-> home[n], flags |-> {}]]
    BY DEF Init
  <2>4. /\ server[m].box = home[m] /\ server[m].flags = {}
        /\ wish[m].box = home[m] /\ wish[m].flags = {}
    BY <2>3
  <2>5. \A u \in Rows : Queued(u) = {} /\ \A f : Changers(u, f) = {}
    BY <1>2 DEF Queued, Changers
  <2>6. OnlyRow(r)
    <3> SUFFICES ASSUME NEW u \in Rows, MessageOf(u) = m, u # r PROVE ~InUse(u)
      BY <2>2 DEF OnlyRow
    <3>1. u[2] # 1
      BY <2>1 DEF Rows, MessageOf
    <3>2. local[u] = Absent
      BY <3>1 DEF Init
    <3>3. ~Present(u)
      BY <3>2, MailboxesAssumption DEF Present, Absent
    <3> QED
      BY <2>5, <3>3 DEF InUse
  <2>7. ShowsWish(r)
    <3>1. local[r].box = server[m].box /\ local[r].flags = {}
      BY <2>1, <2>2 DEF Init
    <3> QED
      BY <2>2, <2>4, <3>1 DEF ShowsWish
  <2>8. BoxAgrees(r)
    <3>1. ToServe(r) = {}
      BY <2>2, <2>5 DEF ToServe, Waits
    <3>2. \A b : Net({}, b, queue) = 0
      BY NetNone
    <3>3. \A b \in Mailboxes : Net({}, b, queue) = At(b, home[m]) - At(b, home[m])
      BY <3>2 DEF At
    <3> QED
      BY <2>2, <2>4, <3>1, <3>3 DEF BoxAgrees, Carries
  <2>9. ASSUME NEW f \in Flags PROVE FlagAgrees(r, f)
    <3>1. Since(r, f) = {0}
      BY <2>2, <2>5 DEF Since
    <3>2. Alternating({0}, WithServer(r, f))
      BY DEF Alternating, LastBefore
    <3>3. Balanced(Since(r, f), folded, WithServer(r, f))
      BY <1>2, <3>1, <3>2, BalancedAlone
    <3>4. ~(WithServer(r, f)[0].op.kind = "SetFlags")
      BY <1>1, <2>2, <2>4, SinceIs, ServersKind
    <3>5. EndsIn(Since(r, f), WithServer(r, f), f \in wish[m].flags)
      BY <2>4, <3>1, <3>4 DEF EndsIn
    <3> QED
      BY <2>2, <3>3, <3>5 DEF FlagAgrees
  <2> QED
    BY <2>2, <2>6, <2>7, <2>8, <2>9 DEF Agrees
<1> QED
  BY <1>3, <1>4 DEF ConvInv, EachAgrees

LEMMA ConvStep ==
    ASSUME TypeInv, TypeInv', IdInv, ShowInv, ConvInv, [Next]_vars
    PROVE  ConvInv'
<1>1. ASSUME NEW r \in Rows, UserStep(r) PROVE ConvInv'
  BY <1>1, ConvChangeFlag, ConvRelocate DEF UserStep
<1>2. CASE DrainerStep
  <2>1. CASE ServeStep
    <3>1. \/ RefuseStale \/ Unserved
          \/ Store \/ Move \/ ReplyLost
      BY <2>1 DEF ServeStep
    <3> QED
      BY <3>1, ConvUnsent, ConvServe
  <2> QED
    BY <1>2, <2>1, ConvStartPass, ConvSettleFolded, ConvEndPass, ConvResolve, ConvAdopt,
       ConvSettleRow DEF DrainerStep
<1>3. ASSUME NEW i \in DOMAIN queue, BackoffElapses(i) PROVE ConvInv'
  BY <1>3, ConvBackoff
<1>4. ASSUME NEW b \in Mailboxes, SyncStep(b) PROVE ConvInv'
  BY <1>4, ConvSyncReads, ConvSyncStore DEF SyncStep
<1>5. CASE PassError \/ Crash
  BY <1>5, ConvInterrupt DEF PassError, Crash
<1>6. CASE UNCHANGED vars
  <2>1. UNCHANGED <<server_vars, queue, pass_vars, history>> /\ local' = local
    BY <1>6 DEF vars
  <2> QED
    BY <2>1, QuietLocal, ConvBeside
<1> QED
  BY <1>1, <1>2, <1>3, <1>4, <1>5, <1>6 DEF Next

LEMMA ConvInvIsStrong ==
    ASSUME TypeInv, ConvInv
    PROVE  SettledAgrees
<1> SUFFICES ASSUME NEW m \in Messages, m \notin astray \cup doubled,
                    \A r \in Rows : MessageOf(r) = m => Queued(r) = {}
             PROVE  wish[m] = [box |-> server[m].box, flags |-> server[m].flags]
  BY DEF SettledAgrees
<1>1. PICK r \in Rows : MessageOf(r) = m /\ Agrees(r)
  BY DEF ConvInv, EachAgrees
<1>2. server[m].box = wish[m].box /\ server[m].flags = wish[m].flags
  BY <1>1, ServerIsWished
<1>3. wish[m] \in [box : Mailboxes, flags : SUBSET Flags]
  BY DEF TypeInv, UserType
<1> QED
  BY <1>2, <1>3

\* The server ends up as the user asked: once nothing of a message is queued, it is in
\* the mailbox the user last put it in, with the flags the user last gave it, however
\* changes and moves were folded together, run while new ones came in, retried after a
\* lost answer or read back by a sync meanwhile.  At every moment the rows that wait
\* take the server's copy to what the user wants: the moves, in any order, as arrows
\* from mailbox to mailbox, the changes of a flag as an alternation that starts with
\* what the server has; folding (coalesce.rs), carrying out a step and marking its rows
\* (drain.rs), and every change the user makes (actions) keep that so.
THEOREM QueueConverges == Spec => []SettledAgrees
<1>1. Init => TypeInv /\ IdInv /\ ShowInv /\ ConvInv
  BY InitType, InitIds, InitShow, InitConv
<1>2. TypeInv /\ IdInv /\ ShowInv /\ ConvInv /\ [Next]_vars
         => TypeInv' /\ IdInv' /\ ShowInv' /\ ConvInv'
  BY StepType, IdStep, ShowStep, ConvStep
<1>3. TypeInv /\ ConvInv => SettledAgrees
  BY ConvInvIsStrong
<1> QED
  BY <1>1, <1>2, <1>3, PTL DEF Spec
=============================================================================

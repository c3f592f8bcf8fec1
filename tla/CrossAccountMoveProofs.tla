------------------------ MODULE CrossAccountMoveProofs ------------------------
(***************************************************************************)
(* Proofs about CrossAccountMove, for every set of accounts, every kind of *)
(* server, a patient user or not, and every bound.                         *)
(***************************************************************************)
EXTENDS CrossAccountMove, SequenceTheorems, FiniteSetTheorems, NumberLemmas

USE HomeAssumption, UidPlusAssumption, PatientAssumption, BoundsAssumption

-----------------------------------------------------------------------------
(* The inductive invariant.                                                *)

CopyShape  == [at : Accounts, deleted : BOOLEAN, gone : BOOLEAN]
RowShape   == [at : Accounts, uid : Nat, hidden : BOOLEAN, gone : BOOLEAN]
SagaShape  == [src : Nat, dst : Nat, phase : Phases]
QueueShape == [op : {"copy", "remove"}, saga : Nat, row : Nat, snap : Nat,
               state : {"pending", "done", "failed", "deleted"},
               attempts : 0 .. MaxAttempts]
PassShape  == [pc : {"idle", "step", "search", "append", "prove", "confirm", "record",
                     "mark", "expunge", "finish", "settle"},
               batch : SUBSET Nat, row : Nat, seen : Phases, uid : Nat,
               outcome : {"None", "Applied", "Obsolete", "Retry", "Failed"}]

\* The variables, each by itself.
Shapes ==
    /\ hasMessageId \in BOOLEAN /\ uidPlus \in UidPlusSets
    /\ copies \in Seq(CopyShape)
    /\ folders \subseteq Accounts
    /\ rows \in Seq(RowShape)
    /\ sagas \in Seq(SagaShape)
    /\ queue \in Seq(QueueShape)
    /\ pass \in [Accounts -> PassShape]
    /\ stack \in Seq(Nat)
    /\ undo = [sagas |-> undo.sagas, read |-> undo.read, writing |-> undo.writing]
    /\ undo.writing \in BOOLEAN
    /\ acts \in 0 .. MaxActs
    /\ faults \in 0 .. MaxFaults

\* u names a copy on the server of account a.
Own(u, a) == u \in DOMAIN copies /\ copies[u].at = a

\* What the variables say of each other.
RowRefs   == \A r \in DOMAIN rows : rows[r].uid # NoUid => Own(rows[r].uid, rows[r].at)
SagaRefs  == \A s \in DOMAIN sagas : {sagas[s].src, sagas[s].dst} \subseteq DOMAIN rows
QueueRefs ==
    \A i \in DOMAIN queue :
        /\ queue[i].saga \in DOMAIN sagas
        /\ queue[i].row \in DOMAIN rows
        /\ queue[i].op = "copy" => queue[i].row = sagas[queue[i].saga].dst
        /\ queue[i].op = "remove" => queue[i].row = sagas[queue[i].saga].src
        /\ queue[i].snap # NoUid => Own(queue[i].snap, rows[queue[i].row].at)
StackRefs == \A j \in DOMAIN stack : stack[j] \in DOMAIN rows
UndoRefs  ==
    \A s \in undo.sagas : /\ s \in DOMAIN sagas
                          /\ undo.read[s].src \in DOMAIN rows
                          /\ undo.read[s].dst \in DOMAIN rows \cup {NoRow}

\* A pass runs rows of its own account.  It copies to its own server, confirms
\* a copy of the target's, and removes one of its own: the one the row was
\* queued for, if that was known.
Copies(a, i) == queue[i].op = "copy" /\ rows[queue[i].row].at = a
PassRef(a) ==
    LET p == pass[a] IN
    /\ \A i \in p.batch : i \in DOMAIN queue /\ rows[queue[i].row].at = a
    /\ p.row \in DOMAIN queue \cup {0}
    /\ p.pc \notin {"idle", "step"} => p.row \in DOMAIN queue
    /\ p.uid \in DOMAIN copies \cup {NoUid}
    /\ p.pc \in {"search", "append", "prove", "confirm", "record"} => Copies(a, p.row)
    /\ p.pc \in {"confirm", "record"} => Own(p.uid, Target(a))
    /\ p.pc \in {"mark", "expunge", "finish"} =>
          /\ Own(p.uid, a)
          /\ queue[p.row].op = "remove" /\ rows[queue[p.row].row].at = a
          /\ queue[p.row].snap \in {NoUid, p.uid}
PassRefs  == \A a \in Accounts : PassRef(a)

\* A saga is finished by its one removal, after the exchange it is for; a mailbox
\* that has gone held nothing.
OneRemoval == \A i, j \in DOMAIN queue :
                 /\ queue[i].op = "remove" /\ queue[j].op = "remove"
                 /\ queue[i].saga = queue[j].saga
                 => i = j
GoneFolder == \A a \in Accounts \ folders : OnServer(a) = {}
FinishGone == \A a \in uidPlus : pass[a].pc = "finish" => copies[pass[a].uid].gone

Refs    == RowRefs /\ SagaRefs /\ QueueRefs /\ StackRefs /\ UndoRefs /\ PassRefs
Removal == OneRemoval /\ GoneFolder /\ FinishGone /\ DoneIsRemoved
MoveInv == Shapes /\ Refs /\ Removal

-----------------------------------------------------------------------------
(* Sequences and records.                                                  *)

LEMMA FunIsSeq ==
    ASSUME NEW S, NEW n \in Nat, NEW f \in [1 .. n -> S]
    PROVE  f \in Seq(S) /\ Len(f) = n
OBVIOUS

LEMMA ElementIn ==
    ASSUME NEW S, NEW s \in Seq(S)
    PROVE  /\ DOMAIN s = 1 .. Len(s) /\ Len(s) \in Nat
           /\ \A i \in DOMAIN s : s[i] \in S
BY LenProperties, ElementOfSeq

\* One element changes, or none if there is no such element.
LEMMA ExceptIn ==
    ASSUME NEW S, NEW s \in Seq(S), NEW i, NEW e, i \in DOMAIN s => e \in S
    PROVE  LET t == [s EXCEPT ![i] = e] IN
           /\ t \in Seq(S) /\ DOMAIN t = DOMAIN s
           /\ \A j \in DOMAIN s : t[j] = IF j = i THEN e ELSE s[j]
<1>1. CASE i \in DOMAIN s
  BY <1>1, ExceptSeq, LenProperties
<1>2. CASE i \notin DOMAIN s
  <2>1. [s EXCEPT ![i] = e] = s
    BY <1>2, LenProperties
  <2> QED
    BY <1>2, <2>1
<1> QED
  BY <1>1, <1>2

LEMMA AppendIn ==
    ASSUME NEW S, NEW s \in Seq(S), NEW e \in S
    PROVE  LET t == Append(s, e) IN
           /\ t \in Seq(S) /\ DOMAIN t = DOMAIN s \cup {Len(s) + 1}
           /\ \A j \in DOMAIN s : t[j] = s[j]
           /\ t[Len(s) + 1] = e
           /\ Len(s) + 1 \notin DOMAIN s /\ DOMAIN s \subseteq DOMAIN t
<1>1. /\ Append(s, e) \in Seq(S) /\ Len(Append(s, e)) = Len(s) + 1
      /\ \A j \in 1 .. Len(s) : Append(s, e)[j] = s[j]
      /\ Append(s, e)[Len(s) + 1] = e
  BY AppendProperties
<1>2. Len(s) \in Nat /\ DOMAIN s = 1 .. Len(s)
  BY LenProperties
<1>3. DOMAIN Append(s, e) = 1 .. Len(s) + 1
  BY <1>1, LenProperties
<1>4. 1 .. Len(s) + 1 = (1 .. Len(s)) \cup {Len(s) + 1} /\ Len(s) + 1 \notin 1 .. Len(s)
  BY <1>2
<1> QED
  BY <1>1, <1>2, <1>3, <1>4

LEMMA LeastIn ==
    ASSUME NEW S \in SUBSET Nat, S # {}
    PROVE  Least(S) \in S
<1>1. \E i \in S : \A j \in S : i <= j
  BY LeastExists
<1> QED
  BY <1>1 DEF Least

LEMMA GreatestIn ==
    ASSUME NEW n \in Nat, NEW S \in SUBSET (0 .. n), S # {}
    PROVE  Greatest(S) \in S
<1> DEFINE T == {n - i : i \in S}
<1>1. T \in SUBSET Nat /\ T # {}
  <2>1. \A i \in S : n - i \in Nat
    OBVIOUS
  <2> QED
    BY <2>1
<1>2. PICK k \in T : \A l \in T : k <= l
  BY <1>1, LeastExists
<1>3. PICK i \in S : k = n - i
  OBVIOUS
<1>4. \A j \in S : n - j \in T /\ j \in 0 .. n
  OBVIOUS
<1>5. \A j \in S : n - i <= n - j
  BY <1>2, <1>3, <1>4
<1>6. i \in 0 .. n
  OBVIOUS
<1> HIDE DEF T
<1>7. \A j \in S : j <= i
  BY <1>4, <1>5, <1>6
<1> QED
  BY <1>3, <1>7 DEF Greatest

-----------------------------------------------------------------------------
(* What every step leaves of what was there.                               *)

CopiesGrow ==
    /\ copies' \in Seq(CopyShape)
    /\ DOMAIN copies \subseteq DOMAIN copies'
    /\ \A u \in DOMAIN copies : copies'[u].at = copies[u].at
    /\ \A u \in DOMAIN copies : copies[u].gone => copies'[u].gone

\* A row's identity stays, goes, or is that of a copy its own server has.
RowsGrow ==
    /\ rows' \in Seq(RowShape)
    /\ DOMAIN rows \subseteq DOMAIN rows'
    /\ \A r \in DOMAIN rows : rows'[r].at = rows[r].at
    /\ \A r \in DOMAIN rows' : \/ rows'[r].uid = NoUid
                               \/ r \in DOMAIN rows /\ rows'[r].uid = rows[r].uid
                               \/ Own(rows'[r].uid, rows'[r].at)

SagasGrow ==
    /\ sagas' \in Seq(SagaShape)
    /\ DOMAIN sagas \subseteq DOMAIN sagas'
    /\ \A s \in DOMAIN sagas : /\ sagas'[s].src = sagas[s].src
                               /\ sagas'[s].dst = sagas[s].dst
    /\ \A s \in DOMAIN sagas' \ DOMAIN sagas : {sagas'[s].src, sagas'[s].dst} \subseteq DOMAIN rows'

\* What is queued is queued with a saga of its own, one removal to a saga.
QueueGrow ==
    /\ queue' \in Seq(QueueShape)
    /\ DOMAIN queue \subseteq DOMAIN queue'
    /\ \A i \in DOMAIN queue : /\ queue'[i].op = queue[i].op
                               /\ queue'[i].saga = queue[i].saga
                               /\ queue'[i].row = queue[i].row
                               /\ queue'[i].snap = queue[i].snap
    /\ \A i \in DOMAIN queue' \ DOMAIN queue :
          /\ queue'[i].saga \in DOMAIN sagas' \ DOMAIN sagas
          /\ queue'[i].row \in DOMAIN rows'
          /\ queue'[i].op = "copy" => queue'[i].row = sagas'[queue'[i].saga].dst
          /\ queue'[i].op = "remove" => queue'[i].row = sagas'[queue'[i].saga].src
          /\ \/ queue'[i].snap = NoUid
             \/ queue'[i].row \in DOMAIN rows /\ queue'[i].snap = rows[queue'[i].row].uid
          /\ \A j \in DOMAIN queue' \ DOMAIN queue :
                queue'[i].op = "remove" /\ queue'[j].op = "remove" => i = j

Grows == CopiesGrow /\ RowsGrow /\ SagasGrow /\ QueueGrow

LEMMA GrowsRows ==
    ASSUME RowRefs, CopiesGrow, RowsGrow
    PROVE  RowRefs'
<1> SUFFICES ASSUME NEW r \in DOMAIN rows', rows'[r].uid # NoUid
             PROVE  /\ rows'[r].uid \in DOMAIN copies'
                    /\ copies'[rows'[r].uid].at = rows'[r].at
  BY DEF RowRefs, Own
<1>1. Own(rows'[r].uid, rows'[r].at)
  BY DEF RowRefs, RowsGrow
<1> QED
  BY <1>1 DEF Own, CopiesGrow

LEMMA GrowsSagas ==
    ASSUME SagaRefs, RowsGrow, SagasGrow
    PROVE  SagaRefs'
BY DEF SagaRefs, RowsGrow, SagasGrow

LEMMA GrowsQueue ==
    ASSUME Shapes, Refs, Grows
    PROVE  QueueRefs'
<1> SUFFICES ASSUME NEW i \in DOMAIN queue'
             PROVE  /\ queue'[i].saga \in DOMAIN sagas'
                    /\ queue'[i].row \in DOMAIN rows'
                    /\ queue'[i].op = "copy" => queue'[i].row = sagas'[queue'[i].saga].dst
                    /\ queue'[i].op = "remove" => queue'[i].row = sagas'[queue'[i].saga].src
                    /\ queue'[i].snap # NoUid =>
                          /\ queue'[i].snap \in DOMAIN copies'
                          /\ copies'[queue'[i].snap].at = rows'[queue'[i].row].at
  BY DEF QueueRefs, Own
<1>1. CASE i \in DOMAIN queue
  <2>1. /\ queue[i].saga \in DOMAIN sagas /\ queue[i].row \in DOMAIN rows
        /\ queue[i].op = "copy" => queue[i].row = sagas[queue[i].saga].dst
        /\ queue[i].op = "remove" => queue[i].row = sagas[queue[i].saga].src
        /\ queue[i].snap # NoUid => Own(queue[i].snap, rows[queue[i].row].at)
    BY <1>1 DEF Refs, QueueRefs
  <2>2. /\ queue'[i].saga = queue[i].saga /\ queue'[i].row = queue[i].row
        /\ queue'[i].snap = queue[i].snap /\ queue'[i].op = queue[i].op
    BY <1>1 DEF Grows, QueueGrow
  <2>3. queue[i].saga \in DOMAIN sagas' /\ queue[i].row \in DOMAIN rows'
    BY <2>1 DEF Grows, SagasGrow, RowsGrow
  <2>4. rows'[queue[i].row].at = rows[queue[i].row].at
    BY <2>1 DEF Grows, RowsGrow
  <2>5. /\ sagas'[queue[i].saga].src = sagas[queue[i].saga].src
        /\ sagas'[queue[i].saga].dst = sagas[queue[i].saga].dst
    BY <2>1 DEF Grows, SagasGrow
  <2> QED
    BY <2>1, <2>2, <2>3, <2>4, <2>5 DEF Own, Grows, CopiesGrow
<1>2. CASE i \notin DOMAIN queue
  <2>1. /\ queue'[i].saga \in DOMAIN sagas' /\ queue'[i].row \in DOMAIN rows'
        /\ queue'[i].op = "copy" => queue'[i].row = sagas'[queue'[i].saga].dst
        /\ queue'[i].op = "remove" => queue'[i].row = sagas'[queue'[i].saga].src
        /\ \/ queue'[i].snap = NoUid
           \/ queue'[i].row \in DOMAIN rows /\ queue'[i].snap = rows[queue'[i].row].uid
    BY <1>2 DEF Grows, QueueGrow
  <2>2. CASE queue'[i].snap # NoUid
    <3>1. /\ queue'[i].row \in DOMAIN rows
          /\ Own(queue'[i].snap, rows[queue'[i].row].at)
      BY <2>1, <2>2 DEF Refs, RowRefs
    <3>2. rows'[queue'[i].row].at = rows[queue'[i].row].at
      BY <3>1 DEF Grows, RowsGrow
    <3> QED
      BY <2>1, <3>1, <3>2 DEF Own, Grows, CopiesGrow
  <2> QED
    BY <2>1, <2>2
<1> QED
  BY <1>1, <1>2

LEMMA GrowsStack ==
    ASSUME StackRefs, RowsGrow, UNCHANGED stack
    PROVE  StackRefs'
BY DEF StackRefs, RowsGrow

LEMMA GrowsUndo ==
    ASSUME UndoRefs, RowsGrow, SagasGrow, undo'.read = undo.read,
           undo'.sagas \subseteq undo.sagas
    PROVE  UndoRefs'
BY DEF UndoRefs, RowsGrow, SagasGrow

\* What the target of a pass is does not change under it.
LEMMA GrowsTarget ==
    ASSUME Shapes, Refs, Grows, NEW a \in Accounts, pass'[a].row = pass[a].row,
           pass[a].row \in DOMAIN queue
    PROVE  Target(a)' = Target(a)
<1> DEFINE i == pass[a].row
           s == queue[i].saga
<1>1. s \in DOMAIN sagas /\ sagas[s].dst \in DOMAIN rows
  BY DEF Refs, QueueRefs, SagaRefs
<1>2. queue'[i].saga = s
  BY DEF Grows, QueueGrow
<1>3. sagas'[s].dst = sagas[s].dst
  BY <1>1 DEF Grows, SagasGrow
<1>4. rows'[sagas[s].dst].at = rows[sagas[s].dst].at
  BY <1>1 DEF Grows, RowsGrow
<1> QED
  BY <1>2, <1>3, <1>4 DEF Target, SagaOf

LEMMA GrowsPass ==
    ASSUME Shapes, Refs, Grows, NEW a \in Accounts, pass'[a] = pass[a]
    PROVE  PassRef(a)'
<1> DEFINE p == pass[a]
<1>1. PassRef(a)
  BY DEF Refs, PassRefs
<1>2. \A i \in p.batch : i \in DOMAIN queue' /\ rows'[queue'[i].row].at = a
  <2> TAKE i \in p.batch
  <2>1. i \in DOMAIN queue /\ rows[queue[i].row].at = a /\ queue[i].row \in DOMAIN rows
    BY <1>1 DEF PassRef, Refs, QueueRefs
  <2> QED
    BY <2>1 DEF Grows, QueueGrow, RowsGrow
<1>3. p.row \in DOMAIN queue' \cup {0} /\ p.uid \in DOMAIN copies' \cup {NoUid}
  BY <1>1 DEF PassRef, Grows, QueueGrow, CopiesGrow
<1>4. p.pc \notin {"idle", "step"} => p.row \in DOMAIN queue'
  BY <1>1 DEF PassRef, Grows, QueueGrow
<1>5. ASSUME p.pc \in {"confirm", "record"} PROVE Own(p.uid, Target(a))'
  <2>1. p.row \in DOMAIN queue /\ Own(p.uid, Target(a))
    BY <1>1, <1>5 DEF PassRef
  <2>2. Target(a)' = Target(a)
    BY <2>1, GrowsTarget
  <2> QED
    BY <2>1, <2>2 DEF Own, Grows, CopiesGrow
<1>6. ASSUME p.pc \in {"mark", "expunge", "finish"}
      PROVE  /\ Own(p.uid, a)'
             /\ queue'[p.row].op = "remove" /\ rows'[queue'[p.row].row].at = a
             /\ queue'[p.row].snap \in {NoUid, p.uid}
  <2>1. p.row \in DOMAIN queue /\ Own(p.uid, a) /\ queue[p.row].op = "remove"
        /\ queue[p.row].snap \in {NoUid, p.uid} /\ rows[queue[p.row].row].at = a
    BY <1>1, <1>6 DEF PassRef
  <2>2. queue[p.row].row \in DOMAIN rows
    BY <2>1 DEF Refs, QueueRefs
  <2> QED
    BY <2>1, <2>2 DEF Own, Grows, CopiesGrow, RowsGrow, QueueGrow
<1>7. ASSUME p.pc \in {"search", "append", "prove", "confirm", "record"}
      PROVE  queue'[p.row].op = "copy" /\ rows'[queue'[p.row].row].at = a
  <2>1. p.row \in DOMAIN queue /\ queue[p.row].op = "copy" /\ rows[queue[p.row].row].at = a
    BY <1>1, <1>7 DEF PassRef, Copies
  <2>2. queue[p.row].row \in DOMAIN rows
    BY <2>1 DEF Refs, QueueRefs
  <2> QED
    BY <2>1, <2>2 DEF Grows, RowsGrow, QueueGrow
<1> QED
  BY <1>2, <1>3, <1>4, <1>5, <1>6, <1>7 DEF PassRef, Copies

LEMMA GrowsOneRemoval ==
    ASSUME Refs, OneRemoval, SagasGrow, QueueGrow
    PROVE  OneRemoval'
BY DEF Refs, QueueRefs, OneRemoval, SagasGrow, QueueGrow

\* The servers gained no copy, and no mailbox went.
LEMMA GrowsGone ==
    ASSUME GoneFolder, CopiesGrow, DOMAIN copies' = DOMAIN copies, UNCHANGED folders
    PROVE  GoneFolder'
BY DEF GoneFolder, OnServer, CopiesGrow

\* A saga that comes to Done has its removal, if that knew what to remove.
NoNewDone == \A s \in DOMAIN sagas' : sagas'[s].phase = "Done" =>
                s \in DOMAIN sagas /\ sagas[s].phase = "Done"

LEMMA GrowsDone ==
    ASSUME Refs, DoneIsRemoved, Grows, NoNewDone, UNCHANGED uidPlus
    PROVE  DoneIsRemoved'
<1> SUFFICES ASSUME NEW i \in DOMAIN queue',
                    queue'[i].op = "remove", sagas'[queue'[i].saga].phase = "Done",
                    queue'[i].snap # NoUid, copies'[queue'[i].snap].at \in uidPlus
             PROVE  copies'[queue'[i].snap].gone
  BY DEF DoneIsRemoved
<1>1. queue'[i].saga \in DOMAIN sagas'
  BY DEF Refs, QueueRefs, Grows, QueueGrow, SagasGrow
<1>2. queue'[i].saga \in DOMAIN sagas /\ sagas[queue'[i].saga].phase = "Done"
  BY <1>1 DEF NoNewDone
<1>3. i \in DOMAIN queue
  BY <1>2 DEF Grows, QueueGrow
<1>4. queue[i].snap \in DOMAIN copies
  BY <1>3 DEF Refs, QueueRefs, Own, Grows, QueueGrow
<1> QED
  BY <1>2, <1>3, <1>4 DEF DoneIsRemoved, Grows, QueueGrow, CopiesGrow

\* Of what does not grow.
RestShapes ==
    /\ folders \subseteq Accounts
    /\ pass \in [Accounts -> PassShape]
    /\ stack \in Seq(Nat)
    /\ undo = [sagas |-> undo.sagas, read |-> undo.read, writing |-> undo.writing]
    /\ undo.writing \in BOOLEAN
    /\ acts \in 0 .. MaxActs
    /\ faults \in 0 .. MaxFaults

LEMMA ShapesRest == Shapes => RestShapes
BY DEF Shapes, RestShapes

LEMMA CopiesStay == Shapes /\ UNCHANGED copies => CopiesGrow /\ DOMAIN copies' = DOMAIN copies
BY DEF Shapes, CopiesGrow

LEMMA RowsStay == Shapes /\ UNCHANGED rows => RowsGrow
BY DEF Shapes, RowsGrow

LEMMA SagasStay == Shapes /\ UNCHANGED sagas => SagasGrow /\ NoNewDone
BY DEF Shapes, SagasGrow, NoNewDone

LEMMA QueueStays == Shapes /\ UNCHANGED queue => QueueGrow
BY DEF Shapes, QueueGrow

\* A step that moves one account's pass, or none.
LEMMA StepKeeps ==
    ASSUME MoveInv, Grows, RestShapes', UNCHANGED fixed_vars, StackRefs', UndoRefs',
           GoneFolder', DoneIsRemoved',
           NEW a \in Accounts, \A b \in Accounts \ {a} : pass'[b] = pass[b], PassRef(a)',
           a \in uidPlus /\ pass'[a].pc = "finish" => copies'[pass'[a].uid].gone
    PROVE  MoveInv'
<1>1. Shapes'
  BY DEF MoveInv, Shapes, RestShapes, Grows, CopiesGrow, RowsGrow, SagasGrow, QueueGrow,
         fixed_vars
<1>2. PassRefs'
  <2> SUFFICES ASSUME NEW b \in Accounts PROVE PassRef(b)'
    BY DEF PassRefs
  <2>1. CASE b = a
    BY <2>1
  <2>2. CASE b # a
    BY <2>2, GrowsPass DEF MoveInv
  <2> QED
    BY <2>1, <2>2
<1>3. Refs'
  BY <1>2, GrowsRows, GrowsSagas, GrowsQueue DEF MoveInv, Refs, Grows
<1>4. FinishGone'
  <2> SUFFICES ASSUME NEW b \in uidPlus, pass'[b].pc = "finish"
               PROVE  copies'[pass'[b].uid].gone
    BY DEF FinishGone, fixed_vars
  <2>1. CASE b = a
    BY <2>1
  <2>2. CASE b # a
    <3>1. b \in Accounts
      BY DEF MoveInv, Shapes
    <3>2. pass'[b] = pass[b]
      BY <2>2, <3>1
    <3>3. copies[pass[b].uid].gone
      BY <3>2 DEF MoveInv, Removal, FinishGone
    <3>4. pass[b].uid \in DOMAIN copies
      BY <3>1, <3>2 DEF MoveInv, Refs, PassRefs, PassRef, Own
    <3> QED
      BY <3>2, <3>3, <3>4 DEF Grows, CopiesGrow
  <2> QED
    BY <2>1, <2>2
<1>5. OneRemoval' /\ GoneFolder' /\ DoneIsRemoved'
  BY GrowsOneRemoval DEF MoveInv, Removal, Grows
<1> QED
  BY <1>1, <1>3, <1>4, <1>5 DEF MoveInv, Removal

\* A step outside the passes.
LEMMA OutsideKeeps ==
    ASSUME MoveInv, Grows, RestShapes', NoNewDone, UNCHANGED <<world_vars, pass>>,
           StackRefs', UndoRefs'
    PROVE  MoveInv'
<1>1. UNCHANGED <<fixed_vars, folders>> /\ DOMAIN copies' = DOMAIN copies
  BY DEF world_vars
<1>2. Shapes /\ Refs
  BY DEF MoveInv
<1>3. PassRef(Home)'
  BY <1>2, GrowsPass
<1>4. ASSUME Home \in uidPlus, pass'[Home].pc = "finish"
      PROVE  copies'[pass'[Home].uid].gone
  BY <1>4 DEF MoveInv, Removal, FinishGone, world_vars
<1>5. \A b \in Accounts \ {Home} : pass'[b] = pass[b]
  OBVIOUS
<1>6. GoneFolder' /\ DoneIsRemoved'
  BY <1>1, GrowsGone, GrowsDone DEF MoveInv, Removal, Grows, fixed_vars
<1> QED
  BY <1>1, <1>3, <1>4, <1>5, <1>6, StepKeeps

-----------------------------------------------------------------------------
(* The user.                                                               *)

LEMMA RowFields ==
    ASSUME NEW x \in RowShape, NEW h \in BOOLEAN, NEW g \in BOOLEAN, NEW u \in Nat
    PROVE  /\ [x EXCEPT !.hidden = h] \in RowShape
           /\ [x EXCEPT !.gone = g] \in RowShape
           /\ [x EXCEPT !.uid = u] \in RowShape
           /\ [x EXCEPT !.gone = g, !.hidden = h] \in RowShape
           /\ [x EXCEPT !.hidden = h].at = x.at /\ [x EXCEPT !.hidden = h].uid = x.uid
           /\ [x EXCEPT !.gone = g].at = x.at /\ [x EXCEPT !.gone = g].uid = x.uid
           /\ [x EXCEPT !.uid = u].at = x.at /\ [x EXCEPT !.uid = u].uid = u
           /\ [x EXCEPT !.gone = g, !.hidden = h].at = x.at
           /\ [x EXCEPT !.gone = g, !.hidden = h].uid = x.uid
BY DEF RowShape

LEMMA NewRowShape == \A a \in Accounts : /\ NewRow(a) \in RowShape
                                         /\ NewRow(a).at = a /\ NewRow(a).uid = NoUid
BY DEF NewRow, RowShape, NoUid

LEMMA RowIn == Shapes => /\ DOMAIN rows = 1 .. Len(rows) /\ Len(rows) \in Nat
                         /\ \A r \in DOMAIN rows : rows[r] \in RowShape
BY ElementIn DEF Shapes

LEMMA SagaIn == Shapes => /\ DOMAIN sagas = 1 .. Len(sagas) /\ Len(sagas) \in Nat
                          /\ \A s \in DOMAIN sagas : sagas[s] \in SagaShape
BY ElementIn DEF Shapes

LEMMA QueueIn == Shapes => /\ DOMAIN queue = 1 .. Len(queue) /\ Len(queue) \in Nat
                           /\ \A i \in DOMAIN queue : queue[i] \in QueueShape
BY ElementIn DEF Shapes

\* A row's flag changes.
Hidden(x, r, h) == [x EXCEPT ![r].hidden = h]

LEMMA HideIn ==
    ASSUME NEW x \in Seq(RowShape), NEW r, NEW h \in BOOLEAN
    PROVE  LET y == Hidden(x, r, h) IN
           /\ y \in Seq(RowShape) /\ DOMAIN y = DOMAIN x /\ Len(y) = Len(x)
           /\ \A q \in DOMAIN x : y[q].at = x[q].at /\ y[q].uid = x[q].uid
<1> DEFINE e == [x[r] EXCEPT !.hidden = h]
           y == Hidden(x, r, h)
<1>0. y = [x EXCEPT ![r] = e]
  BY DEF Hidden
<1>1. \A q \in DOMAIN x : x[q] \in RowShape
  BY ElementIn
<1>2. r \in DOMAIN x => e \in RowShape /\ e.at = x[r].at /\ e.uid = x[r].uid
  BY <1>1, RowFields, ZenonT(40)
<1> HIDE DEF e, y
<1>3. /\ y \in Seq(RowShape) /\ DOMAIN y = DOMAIN x
      /\ \A q \in DOMAIN x : y[q] = IF q = r THEN e ELSE x[q]
  BY <1>0, <1>2, ExceptIn
<1>4. \A q \in DOMAIN x : y[q].at = x[q].at /\ y[q].uid = x[q].uid
  BY <1>2, <1>3
<1>5. DOMAIN x = 1 .. Len(x) /\ Len(x) \in Nat /\ DOMAIN y = 1 .. Len(y) /\ Len(y) \in Nat
  BY <1>3, ElementIn
<1>6. Len(y) = Len(x)
  BY <1>3, <1>5
<1> QED
  BY <1>3, <1>4, <1>6 DEF y

\* Two elements are appended at once.
LEMMA TwoMore ==
    ASSUME NEW S, NEW q \in Seq(S), NEW x \in S, NEW y \in S
    PROVE  LET z == q \o <<x, y>> IN
           /\ z \in Seq(S) /\ DOMAIN z = DOMAIN q \cup {Len(q) + 1, Len(q) + 2}
           /\ Len(q) + 1 \notin DOMAIN q /\ Len(q) + 2 \notin DOMAIN q
           /\ \A i \in DOMAIN q : z[i] = q[i]
           /\ z[Len(q) + 1] = x /\ z[Len(q) + 2] = y
<1> DEFINE n == Len(q)
           two == <<x, y>>
           z == q \o two
<1>1. two \in Seq(S) /\ Len(two) = 2 /\ two[1] = x /\ two[2] = y
  OBVIOUS
<1>2. DOMAIN q = 1 .. n /\ n \in Nat
  BY ElementIn
<1> HIDE DEF two
<1>4. /\ z \in Seq(S) /\ Len(z) = n + 2
      /\ \A i \in 1 .. n + 2 : z[i] = IF i <= n THEN q[i] ELSE two[i - n]
  BY <1>1, ConcatProperties, SMTT(30)
<1> HIDE DEF z
<1>5. DOMAIN z = 1 .. n + 2
  BY <1>4, ElementIn
<1> HIDE DEF n
<1>6. \A i \in DOMAIN q : z[i] = q[i]
  BY <1>2, <1>4
<1>7. z[n + 1] = x /\ z[n + 2] = y
  <2>1. (n + 1) - n = 1 /\ (n + 2) - n = 2
    BY <1>2
  <2>2. n + 1 \in 1 .. n + 2 /\ n + 2 \in 1 .. n + 2 /\ ~(n + 1 <= n) /\ ~(n + 2 <= n)
    BY <1>2
  <2>3. z[n + 1] = two[(n + 1) - n] /\ z[n + 2] = two[(n + 2) - n]
    BY <1>4, <2>2
  <2> QED
    BY <1>1, <2>1, <2>3
<1>8. 1 .. n + 2 = (1 .. n) \cup {n + 1, n + 2} /\ n + 1 \notin 1 .. n /\ n + 2 \notin 1 .. n
  BY <1>2
<1> QED
  BY <1>2, <1>4, <1>5, <1>6, <1>7, <1>8 DEF n, z, two

\* Two rows are queued with a saga of their own.
LEMMA QueuedGrow ==
    ASSUME Shapes, NEW q \in Seq(QueueShape), DOMAIN q = DOMAIN queue,
           \A i \in DOMAIN queue : /\ q[i].op = queue[i].op /\ q[i].saga = queue[i].saga
                                   /\ q[i].row = queue[i].row /\ q[i].snap = queue[i].snap,
           NEW s \in Nat, s \in DOMAIN sagas' \ DOMAIN sagas,
           NEW src \in Nat, src \in DOMAIN rows, src \in DOMAIN rows', sagas'[s].src = src,
           NEW dst \in Nat, dst \in DOMAIN rows', sagas'[s].dst = dst,
           queue' = q \o SagaRows(s, src, dst)
    PROVE  QueueGrow
<1> DEFINE x == QueueRow("copy", s, dst)
           y == QueueRow("remove", s, src)
           n == Len(q)
<1>1. /\ x \in QueueShape /\ x.op = "copy" /\ x.saga = s /\ x.row = dst /\ x.snap = NoUid
  BY DEF QueueRow, SnapOf, QueueShape, NoUid
<1>2. rows[src] \in RowShape
  BY RowIn
<1>3. rows[src].uid \in Nat
  BY <1>2 DEF RowShape
<1>4. /\ y \in QueueShape /\ y.op = "remove" /\ y.saga = s /\ y.row = src
      /\ y.snap = rows[src].uid
  BY <1>3 DEF QueueRow, SnapOf, QueueShape
<1>5. queue' = q \o <<x, y>>
  BY DEF SagaRows
<1> HIDE DEF x, y
<1>6. /\ queue' \in Seq(QueueShape) /\ DOMAIN queue' = DOMAIN queue \cup {n + 1, n + 2}
      /\ n + 1 \notin DOMAIN queue /\ n + 2 \notin DOMAIN queue
      /\ \A i \in DOMAIN queue : queue'[i] = q[i]
      /\ queue'[n + 1] = x /\ queue'[n + 2] = y
  <2>1. LET z == q \o <<x, y>> IN
        /\ z \in Seq(QueueShape) /\ DOMAIN z = DOMAIN q \cup {Len(q) + 1, Len(q) + 2}
        /\ Len(q) + 1 \notin DOMAIN q /\ Len(q) + 2 \notin DOMAIN q
        /\ \A i \in DOMAIN q : z[i] = q[i]
        /\ z[Len(q) + 1] = x /\ z[Len(q) + 2] = y
    BY <1>1, <1>4, TwoMore
  <2> QED
    BY <1>5, <2>1, Zenon
<1> HIDE DEF n
<1>7. \A i \in DOMAIN queue' \ DOMAIN queue :
          /\ queue'[i].saga = s
          /\ queue'[i].row \in DOMAIN rows'
          /\ \/ queue'[i].snap = NoUid
             \/ queue'[i].row \in DOMAIN rows /\ queue'[i].snap = rows[queue'[i].row].uid
          /\ queue'[i].op = "copy" => queue'[i].row = dst
          /\ queue'[i].op = "remove" => i = n + 2 /\ queue'[i].row = src
  BY <1>1, <1>4, <1>6, SMTT(30)
<1>8. \A i \in DOMAIN queue : /\ queue'[i].op = queue[i].op
                               /\ queue'[i].saga = queue[i].saga
                               /\ queue'[i].row = queue[i].row
                               /\ queue'[i].snap = queue[i].snap
  BY <1>6
<1>9. \A i \in DOMAIN queue' \ DOMAIN queue :
         /\ queue'[i].saga \in DOMAIN sagas' \ DOMAIN sagas
         /\ queue'[i].op = "copy" => queue'[i].row = sagas'[queue'[i].saga].dst
         /\ queue'[i].op = "remove" => queue'[i].row = sagas'[queue'[i].saga].src
         /\ \A j \in DOMAIN queue' \ DOMAIN queue :
               queue'[i].op = "remove" /\ queue'[j].op = "remove" => i = j
  BY <1>7
<1> QED
  BY <1>6, <1>7, <1>8, <1>9, SMTT(60) DEF QueueGrow

LEMMA AppendStack ==
    ASSUME Shapes, StackRefs, NEW r \in DOMAIN rows, stack' = Append(stack, r), RowsGrow
    PROVE  stack' \in Seq(Nat) /\ StackRefs'
<1>1. r \in Nat
  BY RowIn
<1>2. /\ stack' \in Seq(Nat) /\ DOMAIN stack' = DOMAIN stack \cup {Len(stack) + 1}
      /\ \A j \in DOMAIN stack : stack'[j] = stack[j]
      /\ stack'[Len(stack) + 1] = r
  <2>1. stack \in Seq(Nat)
    BY DEF Shapes
  <2>2. \A x \in Seq(Nat), y \in Nat :
           LET z == Append(x, y) IN
           /\ z \in Seq(Nat) /\ DOMAIN z = DOMAIN x \cup {Len(x) + 1}
           /\ \A j \in DOMAIN x : z[j] = x[j]
           /\ z[Len(x) + 1] = y
    BY AppendIn, Zenon
  <2> QED
    BY <1>1, <2>1, <2>2, Zenon
<1> QED
  BY <1>2 DEF StackRefs, RowsGrow

LEMMA MoveKeeps ==
    ASSUME MoveInv, NEW r \in DOMAIN rows, NEW t \in Accounts, Move(r, t)
    PROVE  Grows /\ MoveInv'
<1> DEFINE s == Len(sagas) + 1
           copy == Len(rows) + 1
           hid == Hidden(rows, r, TRUE)
           saga == [src |-> r, dst |-> copy, phase |-> "Copying"]
<1>1. Shapes /\ Refs
  BY DEF MoveInv
<1>2. /\ hid \in Seq(RowShape) /\ DOMAIN hid = DOMAIN rows /\ Len(hid) = Len(rows)
      /\ \A q \in DOMAIN rows : hid[q].at = rows[q].at /\ hid[q].uid = rows[q].uid
  BY <1>1, HideIn, ZenonT(40) DEF Shapes
<1>3. rows' = Append(hid, NewRow(t))
  BY DEF Move, Hidden
<1> HIDE DEF hid
<1>4. /\ rows' \in Seq(RowShape) /\ DOMAIN rows' = DOMAIN rows \cup {copy}
      /\ \A q \in DOMAIN rows : rows'[q] = hid[q]
      /\ rows'[copy] = NewRow(t)
  <2>1. NewRow(t) \in RowShape
    BY NewRowShape
  <2>2. LET z == Append(hid, NewRow(t)) IN
        /\ z \in Seq(RowShape) /\ DOMAIN z = DOMAIN hid \cup {Len(hid) + 1}
        /\ \A j \in DOMAIN hid : z[j] = hid[j]
        /\ z[Len(hid) + 1] = NewRow(t)
    BY <1>2, <2>1, AppendIn, ZenonT(40)
  <2> QED
    BY <1>2, <1>3, <2>2, Zenon
<1>5. RowsGrow
  <2>1. NewRow(t).uid = NoUid
    BY NewRowShape
  <2>2. \A q \in DOMAIN rows : rows'[q].at = rows[q].at /\ rows'[q].uid = rows[q].uid
    BY <1>2, <1>4
  <2>3. DOMAIN rows \subseteq DOMAIN rows'
    BY <1>4
  <2>4. rows'[copy].uid = NoUid
    BY <1>4, <2>1
  <2>5. DOMAIN rows' = DOMAIN rows \cup {copy} /\ rows' \in Seq(RowShape)
    BY <1>4
  <2> HIDE DEF copy
  <2>6. \A q \in DOMAIN rows' : \/ rows'[q].uid = NoUid
                                \/ q \in DOMAIN rows /\ rows'[q].uid = rows[q].uid
    BY <2>2, <2>4, <2>5, Zenon
  <2>7. \A q \in DOMAIN rows : rows'[q].at = rows[q].at
    BY <2>2
  <2> QED
    BY <2>3, <2>5, <2>6, <2>7, Zenon DEF RowsGrow
<1>6. r \in Nat /\ copy \in Nat /\ s \in Nat
  BY <1>1, RowIn, SagaIn
<1>7. sagas' = Append(sagas, saga) /\ saga \in SagaShape
  BY <1>6 DEF Move, SagaShape, Phases
<1>8. /\ sagas' \in Seq(SagaShape) /\ DOMAIN sagas' = DOMAIN sagas \cup {s}
      /\ \A x \in DOMAIN sagas : sagas'[x] = sagas[x]
      /\ sagas'[s] = saga /\ s \notin DOMAIN sagas
  BY <1>1, <1>7, AppendIn, SMTT(40) DEF Shapes
<1>9. SagasGrow /\ NoNewDone
  BY <1>4, <1>8 DEF SagasGrow, NoNewDone
<1>10. queue' = queue \o SagaRows(s, r, copy)
  BY DEF Move
<1>11. QueueGrow
  <2>1. sagas'[s].src = r /\ sagas'[s].dst = copy
    BY <1>8
  <2> HIDE DEF s, copy
  <2> QED
    BY <1>1, <1>4, <1>6, <1>8, <1>10, <2>1, QueuedGrow DEF Shapes
<1>12. Grows
  BY <1>1, <1>5, <1>9, <1>11, CopiesStay DEF Grows, Move, world_vars
<1>13. stack' \in Seq(Nat) /\ StackRefs'
  BY <1>1, <1>5, AppendStack DEF Move, Refs
<1>14. UndoRefs'
  BY <1>1, <1>5, <1>9, GrowsUndo DEF Move, Refs
<1>15. RestShapes'
  <2>1. /\ folders' = folders /\ pass' = pass /\ undo' = undo /\ faults' = faults
        /\ acts < MaxActs /\ acts' = acts + 1
    BY DEF Move, world_vars
  <2>2. RestShapes
    BY <1>1, ShapesRest
  <2>3. acts' \in 0 .. MaxActs
    BY <2>1, <2>2 DEF RestShapes
  <2> QED
    BY <1>13, <2>1, <2>2, <2>3 DEF RestShapes
<1> QED
  BY <1>9, <1>12, <1>13, <1>14, <1>15, OutsideKeeps DEF Move

LEMMA NothingGrows == Shapes /\ UNCHANGED <<copies, rows, sagas, queue>> => Grows /\ NoNewDone
BY CopiesStay, RowsStay, SagasStay, QueueStays DEF Grows

LEMMA OtherCommandKeeps ==
    ASSUME MoveInv, NEW r \in DOMAIN rows, OtherCommand(r)
    PROVE  Grows /\ MoveInv'
<1>1. Shapes /\ Refs
  BY DEF MoveInv
<1>2. Grows /\ NoNewDone
  BY <1>1, NothingGrows DEF OtherCommand, world_vars
<1>3. stack' \in Seq(Nat) /\ StackRefs'
  BY <1>1, <1>2, AppendStack DEF OtherCommand, Refs, Grows
<1>4. UndoRefs'
  BY <1>1, <1>2, GrowsUndo DEF OtherCommand, Refs, Grows
<1>5. RestShapes'
  BY <1>1, <1>3, SMTT(40) DEF OtherCommand, Shapes, RestShapes, world_vars
<1> QED
  BY <1>2, <1>3, <1>4, <1>5, OutsideKeeps DEF OtherCommand

\* The sagas as they are read name rows, or say that one has gone.
LEMMA ReadSagaRefs ==
    ASSUME Shapes, SagaRefs, NEW s \in DOMAIN sagas
    PROVE  /\ ReadSaga(s).src \in DOMAIN rows
           /\ ReadSaga(s).dst \in DOMAIN rows \cup {NoRow}
<1>1. sagas[s] \in SagaShape
  BY SagaIn
<1>2. sagas[s].src \in DOMAIN rows /\ sagas[s].dst \in DOMAIN rows
  BY DEF SagaRefs
<1> DEFINE d == IF Live(sagas[s].dst) THEN sagas[s].dst ELSE NoRow
<1>3. ReadSaga(s) = [sagas[s] EXCEPT !.dst = d]
  BY DEF ReadSaga
<1>4. d \in DOMAIN rows \cup {NoRow}
  BY <1>2
<1> HIDE DEF d
<1>5. ReadSaga(s).src = sagas[s].src /\ ReadSaga(s).dst = d
  BY <1>1, <1>3 DEF SagaShape
<1> QED
  BY <1>2, <1>4, <1>5

LEMMA StartUndoKeeps ==
    ASSUME MoveInv, StartUndo
    PROVE  Grows /\ MoveInv'
<1> DEFINE r == stack[Len(stack)]
           n == Len(stack)
<1>1. Shapes /\ Refs
  BY DEF MoveInv
<1>2. Grows /\ NoNewDone
  BY <1>1, NothingGrows DEF StartUndo, world_vars
<1>3. undo' = [sagas |-> SagasOf(r), writing |-> FALSE,
               read |-> [s \in SagasOf(r) |-> ReadSaga(s)]]
  BY DEF StartUndo
<1>4. SagasOf(r) \subseteq DOMAIN sagas
  BY DEF SagasOf
<1> HIDE DEF r
<1>5. /\ undo'.sagas = SagasOf(r)
      /\ \A s \in undo'.sagas : s \in DOMAIN sagas /\ undo'.read[s] = ReadSaga(s)
  <2> DEFINE read == [s \in SagasOf(r) |-> ReadSaga(s)]
  <2>1. \A s \in SagasOf(r) : read[s] = ReadSaga(s)
    OBVIOUS
  <2>2. undo' = [sagas |-> SagasOf(r), writing |-> FALSE, read |-> read]
    BY <1>3
  <2> HIDE DEF read
  <2>3. undo'.sagas = SagasOf(r) /\ undo'.read = read
    BY <2>2
  <2> QED
    BY <1>4, <2>1, <2>3
<1>6. \A s \in DOMAIN sagas : /\ ReadSaga(s).src \in DOMAIN rows
                              /\ ReadSaga(s).dst \in DOMAIN rows \cup {NoRow}
  BY <1>1, ReadSagaRefs DEF Refs
<1>7. UndoRefs'
  BY <1>5, <1>6 DEF UndoRefs, StartUndo
<1>8. stack' = SubSeq(stack, 1, n - 1) /\ n \in Nat /\ \A i \in 1 .. n : stack[i] \in Nat
  BY <1>1, ElementIn, SMTT(30) DEF StartUndo, Shapes
<1>9. DOMAIN stack = 1 .. n
  BY <1>1, ElementIn DEF Shapes
<1> HIDE DEF n
<1>10. \A i \in 1 .. n - 1 : stack[i] \in Nat /\ i \in DOMAIN stack /\ 1 + i - 1 = i
  BY <1>8, <1>9
<1>11. /\ stack' \in Seq(Nat)
       /\ Len(stack') = IF 1 <= n - 1 THEN (n - 1) - 1 + 1 ELSE 0
       /\ \A i \in 1 .. (n - 1) - 1 + 1 : stack'[i] = stack[1 + i - 1]
  <2>1. 1 \in Int /\ n - 1 \in Int
    BY <1>8
  <2> QED
    BY <1>8, <1>10, <2>1, SubSeqProperties
<1>12. DOMAIN stack' = 1 .. Len(stack')
  BY <1>11, ElementIn
<1>13. \A i \in DOMAIN stack' : i \in DOMAIN stack /\ stack'[i] = stack[i]
  BY <1>8, <1>10, <1>11, <1>12
<1>14. StackRefs'
  BY <1>1, <1>13 DEF StackRefs, Refs, StartUndo
<1>15. undo' = [sagas |-> undo'.sagas, read |-> undo'.read, writing |-> undo'.writing]
       /\ undo'.writing = FALSE
  <2> DEFINE read == [s \in SagasOf(r) |-> ReadSaga(s)]
  <2>1. undo' = [sagas |-> SagasOf(r), writing |-> FALSE, read |-> read]
    BY <1>3
  <2> HIDE DEF read
  <2> QED
    BY <2>1
<1>16. RestShapes'
  BY <1>1, <1>11, <1>15 DEF StartUndo, Shapes, RestShapes, world_vars
<1> QED
  BY <1>2, <1>7, <1>14, <1>16, OutsideKeeps DEF StartUndo

\* The undo is refused, begins to write, or has been written.
LEMMA UndoStateKeeps ==
    ASSUME MoveInv, RefuseUndo \/ BeginUndo \/ CommitUndo
    PROVE  Grows /\ MoveInv'
<1>1. Shapes /\ Refs
  BY DEF MoveInv
<1>2. UNCHANGED <<world_vars, rows, sagas, queue, pass, stack, acts, faults>>
  BY DEF RefuseUndo, BeginUndo, CommitUndo
<1>3. Grows /\ NoNewDone
  BY <1>1, <1>2, NothingGrows DEF world_vars
<1>4. StackRefs'
  BY <1>1, <1>2 DEF StackRefs, Refs
<1>5. undo' = NoUndo \/ undo' = [undo EXCEPT !.writing = TRUE]
  BY DEF RefuseUndo, BeginUndo, CommitUndo
<1>6. /\ undo' = [sagas |-> undo'.sagas, read |-> undo'.read, writing |-> undo'.writing]
      /\ undo'.writing \in BOOLEAN
      /\ undo'.sagas = {} \/ (undo'.sagas = undo.sagas /\ undo'.read = undo.read)
  <2>1. CASE undo' = NoUndo
    BY <2>1 DEF NoUndo
  <2>2. CASE undo' = [undo EXCEPT !.writing = TRUE]
    BY <1>1, <2>2 DEF Shapes
  <2> QED
    BY <1>5, <2>1, <2>2
<1>7. UndoRefs'
  BY <1>1, <1>2, <1>6 DEF UndoRefs, Refs
<1>8. RestShapes'
  BY <1>1, <1>2, <1>6 DEF Shapes, RestShapes, world_vars
<1> QED
  BY <1>2, <1>3, <1>4, <1>7, <1>8, OutsideKeeps

\* A settled or withdrawn row is the row it was, but for its state.
LEMMA QueueFields ==
    ASSUME NEW x \in QueueShape, NEW k \in {"pending", "done", "failed", "deleted"},
           NEW n \in 0 .. MaxAttempts
    PROVE  LET y == [x EXCEPT !.state = k, !.attempts = n] IN
           /\ y \in QueueShape
           /\ y.op = x.op /\ y.saga = x.saga /\ y.row = x.row /\ y.snap = x.snap
BY DEF QueueShape

LEMMA WithdrawnIn ==
    ASSUME Shapes, NEW T
    PROVE  /\ Withdrawn(T) \in Seq(QueueShape) /\ DOMAIN Withdrawn(T) = DOMAIN queue
           /\ \A i \in DOMAIN queue :
                 /\ Withdrawn(T)[i].op = queue[i].op /\ Withdrawn(T)[i].saga = queue[i].saga
                 /\ Withdrawn(T)[i].row = queue[i].row /\ Withdrawn(T)[i].snap = queue[i].snap
<1> DEFINE gone(i) == [queue[i] EXCEPT !.state = "deleted", !.attempts = 0]
           new(i)  == IF Pending(i) /\ queue[i].row \in T THEN gone(i) ELSE queue[i]
<1>1. \A i \in DOMAIN queue :
         /\ gone(i) \in QueueShape /\ gone(i).op = queue[i].op /\ gone(i).saga = queue[i].saga
         /\ gone(i).row = queue[i].row /\ gone(i).snap = queue[i].snap
  <2> TAKE i \in DOMAIN queue
  <2>1. 0 \in 0 .. MaxAttempts
    OBVIOUS
  <2>2. queue[i] \in QueueShape
    BY QueueIn
  <2> QED
    BY <2>1, <2>2, QueueFields, ZenonT(40)
<1>2. Withdrawn(T) = [i \in DOMAIN queue |-> new(i)]
  BY DEF Withdrawn
<1> HIDE DEF gone
<1>3. \A i \in DOMAIN queue :
         /\ new(i) \in QueueShape /\ new(i).op = queue[i].op /\ new(i).saga = queue[i].saga
         /\ new(i).row = queue[i].row /\ new(i).snap = queue[i].snap
  BY <1>1, QueueIn
<1> HIDE DEF new
<1>4. Withdrawn(T) \in [1 .. Len(queue) -> QueueShape] /\ Len(queue) \in Nat
  BY <1>2, <1>3, QueueIn
<1>5. Withdrawn(T) \in Seq(QueueShape)
  BY <1>4, FunIsSeq
<1>6. DOMAIN Withdrawn(T) = DOMAIN queue
  BY <1>2
<1>7. \A i \in DOMAIN queue : Withdrawn(T)[i] = new(i)
  BY <1>2
<1> QED
  BY <1>3, <1>5, <1>6, <1>7

LEMMA WithdrawnGrow ==
    ASSUME Shapes, NEW T, queue' = Withdrawn(T)
    PROVE  QueueGrow
BY WithdrawnIn DEF QueueGrow

\* A saga changes its phase, and no other one is added.
WithPhase(s, p) == [sagas EXCEPT ![s].phase = p]

LEMMA PhaseIn ==
    ASSUME Shapes, NEW s, NEW p \in Phases
    PROVE  LET x == WithPhase(s, p) IN
           /\ x \in Seq(SagaShape) /\ DOMAIN x = DOMAIN sagas /\ Len(x) = Len(sagas)
           /\ \A t \in DOMAIN sagas : /\ x[t].src = sagas[t].src /\ x[t].dst = sagas[t].dst
                                      /\ t # s => x[t] = sagas[t]
                                      /\ t = s => x[t].phase = p
<1> DEFINE e == [sagas[s] EXCEPT !.phase = p]
           x == WithPhase(s, p)
<1>0. x = [sagas EXCEPT ![s] = e]
  BY DEF WithPhase
<1>1. \A t \in DOMAIN sagas : sagas[t] \in SagaShape
  BY SagaIn
<1>2. s \in DOMAIN sagas => /\ e \in SagaShape /\ e.src = sagas[s].src /\ e.dst = sagas[s].dst
                            /\ e.phase = p
  BY <1>1 DEF SagaShape
<1> HIDE DEF e, x
<1>3. /\ x \in Seq(SagaShape) /\ DOMAIN x = DOMAIN sagas
      /\ \A t \in DOMAIN sagas : x[t] = IF t = s THEN e ELSE sagas[t]
  BY <1>0, <1>2, ExceptIn DEF Shapes
<1>4. DOMAIN x = 1 .. Len(x) /\ Len(x) \in Nat
  BY <1>3, ElementIn
<1>5. Len(x) = Len(sagas)
  BY <1>3, <1>4, SagaIn
<1>6. \A t \in DOMAIN sagas : /\ x[t].src = sagas[t].src /\ x[t].dst = sagas[t].dst
                              /\ t # s => x[t] = sagas[t]
                              /\ t = s => x[t].phase = p
  BY <1>2, <1>3
<1> QED
  BY <1>3, <1>5, <1>6 DEF x

LEMMA PhaseGrow ==
    ASSUME Shapes, NEW s, NEW p \in Phases, sagas' = WithPhase(s, p)
    PROVE  SagasGrow /\ (p # "Done" => NoNewDone)
<1>1. /\ sagas' \in Seq(SagaShape) /\ DOMAIN sagas' = DOMAIN sagas
      /\ \A t \in DOMAIN sagas : /\ sagas'[t].src = sagas[t].src /\ sagas'[t].dst = sagas[t].dst
                                 /\ t # s => sagas'[t] = sagas[t]
                                 /\ t = s => sagas'[t].phase = p
  BY PhaseIn
<1>2. SagasGrow
  BY <1>1 DEF SagasGrow
<1>3. p # "Done" => NoNewDone
  BY <1>1 DEF NoNewDone
<1> QED
  BY <1>2, <1>3

\* A saga is appended to those there are.
LEMMA AppendGrow ==
    ASSUME Shapes, NEW x \in Seq(SagaShape), DOMAIN x = DOMAIN sagas, Len(x) = Len(sagas),
           \A t \in DOMAIN sagas : /\ x[t].src = sagas[t].src /\ x[t].dst = sagas[t].dst
                                   /\ x[t].phase \in {sagas[t].phase, "Aborted"},
           NEW src \in Nat, src \in DOMAIN rows', NEW dst \in Nat, dst \in DOMAIN rows',
           sagas' = Append(x, [src |-> src, dst |-> dst, phase |-> "Copying"])
    PROVE  /\ SagasGrow /\ NoNewDone
           /\ Len(sagas) + 1 \in DOMAIN sagas' \ DOMAIN sagas
           /\ sagas'[Len(sagas) + 1].src = src /\ sagas'[Len(sagas) + 1].dst = dst
<1> DEFINE e == [src |-> src, dst |-> dst, phase |-> "Copying"]
<1>1. e \in SagaShape /\ e.src = src /\ e.dst = dst /\ e.phase = "Copying"
  BY DEF SagaShape, Phases
<1> HIDE DEF e
<1>2. LET z == Append(x, e) IN
      /\ z \in Seq(SagaShape) /\ DOMAIN z = DOMAIN x \cup {Len(x) + 1}
      /\ \A j \in DOMAIN x : z[j] = x[j]
      /\ z[Len(x) + 1] = e /\ Len(x) + 1 \notin DOMAIN x
  BY <1>1, AppendIn
<1>3. /\ sagas' \in Seq(SagaShape) /\ DOMAIN sagas' = DOMAIN sagas \cup {Len(sagas) + 1}
      /\ \A j \in DOMAIN sagas : sagas'[j] = x[j]
      /\ sagas'[Len(sagas) + 1] = e /\ Len(sagas) + 1 \notin DOMAIN sagas
  BY <1>2, Zenon DEF e
<1> DEFINE n == Len(sagas) + 1
<1> HIDE DEF n
<1>4. /\ sagas' \in Seq(SagaShape) /\ DOMAIN sagas' = DOMAIN sagas \cup {n}
      /\ sagas'[n] = e /\ n \notin DOMAIN sagas
  BY <1>3 DEF n
<1>5. SagasGrow
  BY <1>1, <1>3, <1>4 DEF SagasGrow
<1>6. NoNewDone
  BY <1>1, <1>3, <1>4 DEF NoNewDone
<1> QED
  BY <1>1, <1>4, <1>5, <1>6 DEF n

LEMMA CancelOneGrows ==
    ASSUME Shapes, NEW s, CancelOne(s), UNCHANGED copies
    PROVE  Grows /\ NoNewDone
<1> DEFINE src == undo.read[s].src
           dst == undo.read[s].dst
           new(r) == [rows[r] EXCEPT !.gone = @ \/ r = dst, !.hidden = @ /\ r # src]
<1>1. QueueGrow
  <2>1. queue' = Withdrawn({src, dst})
    BY DEF CancelOne
  <2> QED
    BY <2>1, WithdrawnGrow
<1>2. SagasGrow /\ NoNewDone
  <2>1. sagas' = WithPhase(s, "Aborted") /\ "Aborted" \in Phases
    BY DEF CancelOne, Aborted, WithPhase, Phases
  <2> QED
    BY <2>1, PhaseGrow
<1>3. RowsGrow
  <2>1. rows' = [r \in DOMAIN rows |-> new(r)]
    BY DEF CancelOne
  <2>2. \A r \in DOMAIN rows :
           new(r) \in RowShape /\ new(r).at = rows[r].at /\ new(r).uid = rows[r].uid
    <3> TAKE r \in DOMAIN rows
    <3> DEFINE g == rows[r].gone \/ r = dst
               h == rows[r].hidden /\ r # src
    <3>1. g \in BOOLEAN /\ h \in BOOLEAN /\ rows[r] \in RowShape
      BY RowIn
    <3>2. new(r) = [rows[r] EXCEPT !.gone = g, !.hidden = h]
      OBVIOUS
    <3> HIDE DEF g, h, new
    <3> QED
      BY <3>1, <3>2 DEF RowShape
  <2> HIDE DEF new
  <2>3. rows' \in [1 .. Len(rows) -> RowShape] /\ Len(rows) \in Nat /\ DOMAIN rows' = DOMAIN rows
    BY <2>1, <2>2, RowIn
  <2>4. rows' \in Seq(RowShape)
    BY <2>3, FunIsSeq
  <2>5. \A r \in DOMAIN rows : rows'[r] = new(r)
    BY <2>1
  <2> QED
    BY <2>2, <2>3, <2>4, <2>5 DEF RowsGrow
<1> QED
  BY <1>1, <1>2, <1>3, CopiesStay DEF Grows

LEMMA InvertOneGrows ==
    ASSUME Shapes, Refs, NEW s \in undo.sagas, InvertOne(s), UNCHANGED copies
    PROVE  Grows /\ NoNewDone
<1> DEFINE src == undo.read[s].src
           dst == undo.read[s].dst
           hid == Hidden(rows, src, FALSE)
           n == Len(sagas) + 1
           q == IF Aborts(s) THEN Withdrawn({src}) ELSE queue
           x == IF Aborts(s) THEN Aborted(s) ELSE sagas
<1>1. src \in DOMAIN rows /\ dst \in DOMAIN rows
  BY DEF InvertOne, Inverts, Refs, UndoRefs
<1>2. src \in Nat /\ dst \in Nat /\ n \in Nat
  BY <1>1, RowIn, SagaIn
<1>3. rows' = Hidden(hid, dst, TRUE)
  BY DEF InvertOne, Hidden
<1>4. queue' = q \o SagaRows(n, dst, src)
  BY DEF InvertOne
<1>5. sagas' = Append(x, [src |-> dst, dst |-> src, phase |-> "Copying"])
  BY DEF InvertOne
<1>6. /\ hid \in Seq(RowShape) /\ DOMAIN hid = DOMAIN rows
      /\ \A r \in DOMAIN rows : hid[r].at = rows[r].at /\ hid[r].uid = rows[r].uid
  BY HideIn, ZenonT(40) DEF Shapes
<1>7. /\ q \in Seq(QueueShape) /\ DOMAIN q = DOMAIN queue
      /\ \A i \in DOMAIN queue : /\ q[i].op = queue[i].op /\ q[i].saga = queue[i].saga
                                 /\ q[i].row = queue[i].row /\ q[i].snap = queue[i].snap
  BY WithdrawnIn DEF Shapes
<1>8. /\ x \in Seq(SagaShape) /\ DOMAIN x = DOMAIN sagas /\ Len(x) = Len(sagas)
      /\ \A t \in DOMAIN sagas : /\ x[t].src = sagas[t].src /\ x[t].dst = sagas[t].dst
                                 /\ x[t].phase \in {sagas[t].phase, "Aborted"}
  <2>1. CASE Aborts(s)
    <3>1. x = WithPhase(s, "Aborted") /\ "Aborted" \in Phases
      BY <2>1 DEF Aborted, WithPhase, Phases
    <3> HIDE DEF x
    <3>2. /\ x \in Seq(SagaShape) /\ DOMAIN x = DOMAIN sagas /\ Len(x) = Len(sagas)
          /\ \A t \in DOMAIN sagas : /\ x[t].src = sagas[t].src /\ x[t].dst = sagas[t].dst
                                     /\ t # s => x[t] = sagas[t]
                                     /\ t = s => x[t].phase = "Aborted"
      BY <3>1, PhaseIn
    <3> QED
      BY <3>2
  <2>2. CASE ~Aborts(s)
    BY <2>2 DEF Shapes
  <2> QED
    BY <2>1, <2>2
<1> HIDE DEF src, dst, hid, q, x
<1>9. /\ rows' \in Seq(RowShape) /\ DOMAIN rows' = DOMAIN rows
      /\ \A r \in DOMAIN rows : rows'[r].at = hid[r].at /\ rows'[r].uid = hid[r].uid
  <2> DEFINE y == Hidden(hid, dst, TRUE)
  <2>1. /\ y \in Seq(RowShape) /\ DOMAIN y = DOMAIN hid
        /\ \A r \in DOMAIN hid : y[r].at = hid[r].at /\ y[r].uid = hid[r].uid
    BY <1>6, HideIn, ZenonT(40)
  <2>2. rows' = y
    BY <1>3
  <2> HIDE DEF y
  <2> QED
    BY <1>6, <2>1, <2>2
<1>10. RowsGrow
  BY <1>6, <1>9 DEF RowsGrow
<1>11. dst \in DOMAIN rows' /\ src \in DOMAIN rows'
  BY <1>1, <1>9
<1>12. /\ SagasGrow /\ NoNewDone
       /\ n \in DOMAIN sagas' \ DOMAIN sagas /\ sagas'[n].src = dst /\ sagas'[n].dst = src
  BY <1>2, <1>5, <1>8, <1>11, AppendGrow
<1> HIDE DEF n
<1>13. QueueGrow
  BY <1>1, <1>2, <1>4, <1>7, <1>11, <1>12, QueuedGrow
<1> QED
  BY <1>10, <1>12, <1>13, CopiesStay DEF Grows

LEMMA AbandonOneGrows ==
    ASSUME Shapes, NEW s, AbandonOne(s), UNCHANGED copies
    PROVE  Grows /\ NoNewDone
<1>1. queue' = Withdrawn({undo.read[s].src}) /\ UNCHANGED rows
  BY DEF AbandonOne
<1>2. sagas' = WithPhase(s, "Aborted") /\ "Aborted" \in Phases
  BY DEF AbandonOne, Aborted, WithPhase, Phases
<1>3. SagasGrow /\ NoNewDone
  BY <1>2, PhaseGrow
<1>4. QueueGrow
  BY <1>1, WithdrawnGrow
<1> QED
  BY <1>1, <1>3, <1>4, CopiesStay, RowsStay DEF Grows

LEMMA UndoOneKeeps ==
    ASSUME MoveInv, UndoOne
    PROVE  Grows /\ MoveInv'
<1> DEFINE s == Least(undo.sagas)
<1>1. Shapes /\ Refs
  BY DEF MoveInv
<1>2. undo.sagas \in SUBSET Nat /\ undo.sagas # {}
  BY <1>1, SagaIn DEF Refs, UndoRefs, UndoOne
<1>3. s \in undo.sagas
  BY <1>2, LeastIn
<1>4. UNCHANGED <<world_vars, pass, stack, acts, faults, copies>>
  BY DEF UndoOne, world_vars
<1>5. CancelOne(s) \/ InvertOne(s) \/ AbandonOne(s) \/ SkipOne(s)
  BY DEF UndoOne
<1>6. undo' = [undo EXCEPT !.sagas = @ \ {s}]
  BY DEF UndoOne
<1> HIDE DEF s
<1>7. Grows /\ NoNewDone
  <2>1. CASE SkipOne(s)
    BY <1>1, <1>4, <2>1, NothingGrows DEF SkipOne
  <2> QED
    BY <1>1, <1>3, <1>4, <1>5, <2>1, CancelOneGrows, InvertOneGrows, AbandonOneGrows
<1>8. /\ undo' = [sagas |-> undo'.sagas, read |-> undo'.read, writing |-> undo'.writing]
      /\ undo'.writing = undo.writing /\ undo'.read = undo.read
      /\ undo'.sagas \subseteq undo.sagas
  BY <1>1, <1>6 DEF Shapes
<1>9. UndoRefs'
  BY <1>1, <1>7, <1>8, GrowsUndo DEF Refs, Grows
<1>10. StackRefs'
  BY <1>1, <1>4, <1>7, GrowsStack DEF Refs, Grows
<1>11. RestShapes'
  BY <1>1, <1>4, <1>8 DEF Shapes, RestShapes, world_vars
<1> QED
  BY <1>4, <1>7, <1>9, <1>10, <1>11, OutsideKeeps

-----------------------------------------------------------------------------
(* The drain passes.                                                       *)

\* Only account a's pass moves.
PassMoves(a) == /\ pass' \in [Accounts -> PassShape]
                /\ \A b \in Accounts \ {a} : pass'[b] = pass[b]

LEMMA PassIn == Shapes => \A a \in Accounts : pass[a] \in PassShape
BY DEF Shapes

LEMMA PassToIn ==
    ASSUME Shapes, NEW a \in Accounts, NEW p \in PassShape, pass' = [pass EXCEPT ![a] = p]
    PROVE  PassMoves(a) /\ pass'[a] = p
BY DEF Shapes, PassMoves

Pcs == {"idle", "step", "search", "append", "prove", "confirm", "record",
        "mark", "expunge", "finish", "settle"}
Outcomes == {"None", "Applied", "Obsolete", "Retry", "Failed"}

LEMMA GoIs ==
    ASSUME Shapes, NEW a \in Accounts, NEW q \in Pcs, Go(a, q)
    PROVE  /\ PassMoves(a)
           /\ pass'[a].pc = q /\ pass'[a].batch = pass[a].batch
           /\ pass'[a].row = pass[a].row /\ pass'[a].uid = pass[a].uid
<1> DEFINE p == [pass[a] EXCEPT !.pc = q]
<1>1. pass[a] \in PassShape
  BY PassIn
<1>2. /\ p \in PassShape /\ p.pc = q /\ p.batch = pass[a].batch
      /\ p.row = pass[a].row /\ p.uid = pass[a].uid
  BY <1>1 DEF PassShape, Pcs
<1>3. pass' = [pass EXCEPT ![a] = p]
  BY DEF Go
<1> HIDE DEF p
<1> QED
  BY <1>2, <1>3, PassToIn

LEMMA NoPassIn == /\ NoPass \in PassShape /\ NoPass.pc = "idle" /\ NoPass.batch = {}
                  /\ NoPass.row = 0 /\ NoPass.uid = NoUid
BY DEF NoPass, PassShape, NoUid, Phases

LEMMA EndIs ==
    ASSUME Shapes, NEW a \in Accounts, NEW o \in Outcomes, End(a, o)
    PROVE  /\ PassMoves(a)
           /\ pass'[a].pc = "settle" /\ pass'[a].batch = pass[a].batch
           /\ pass'[a].row = pass[a].row /\ pass'[a].uid = NoUid
<1> DEFINE p == [NoPass EXCEPT !.pc = "settle", !.batch = pass[a].batch,
                               !.row = pass[a].row, !.outcome = o]
<1>1. pass[a] \in PassShape
  BY PassIn
<1>2. NoPass \in PassShape /\ NoPass.uid = NoUid
  BY NoPassIn
<1>3. pass' = [pass EXCEPT ![a] = p]
  BY DEF End
<1>4. /\ p \in PassShape /\ p.pc = "settle" /\ p.batch = pass[a].batch
      /\ p.row = pass[a].row /\ p.uid = NoUid
  <2> DEFINE b == pass[a].batch
             r == pass[a].row
  <2>1. b \in SUBSET Nat /\ r \in Nat
    BY <1>1 DEF PassShape
  <2>2. p = [NoPass EXCEPT !.pc = "settle", !.batch = b, !.row = r, !.outcome = o]
    OBVIOUS
  <2> HIDE DEF b, r, p
  <2>3. p \in PassShape /\ p.pc = "settle" /\ p.batch = b /\ p.row = r /\ p.uid = NoUid
    BY <1>2, <2>1, <2>2 DEF PassShape, Outcomes
  <2> QED
    BY <2>3 DEF b, r
<1> HIDE DEF p
<1> QED
  BY <1>3, <1>4, PassToIn

LEMMA SettledIs ==
    ASSUME Shapes, NEW a \in Accounts, NEW i \in Nat, NEW o \in Outcomes, Settled(a, i, o)
    PROVE  /\ PassMoves(a)
           /\ pass'[a].pc = "settle" /\ pass'[a].batch = pass[a].batch
           /\ pass'[a].row = i /\ pass'[a].uid = pass[a].uid
<1> DEFINE p == [pass[a] EXCEPT !.row = i, !.pc = "settle", !.outcome = o]
<1>1. pass[a] \in PassShape
  BY PassIn
<1>2. /\ p \in PassShape /\ p.pc = "settle" /\ p.batch = pass[a].batch
      /\ p.row = i /\ p.uid = pass[a].uid
  BY <1>1 DEF PassShape, Outcomes
<1>3. pass' = [pass EXCEPT ![a] = p]
  BY DEF Settled
<1> HIDE DEF p
<1> QED
  BY <1>2, <1>3, PassToIn

LEMMA FoundAtIs ==
    ASSUME Shapes, NEW a \in Accounts, NEW u \in Nat, FoundAt(a, u)
    PROVE  /\ PassMoves(a)
           /\ pass'[a].pc = "confirm" /\ pass'[a].batch = pass[a].batch
           /\ pass'[a].row = pass[a].row /\ pass'[a].uid = u
<1> DEFINE p == [pass[a] EXCEPT !.pc = "confirm", !.uid = u]
<1>1. pass[a] \in PassShape
  BY PassIn
<1>2. /\ p \in PassShape /\ p.pc = "confirm" /\ p.batch = pass[a].batch
      /\ p.row = pass[a].row /\ p.uid = u
  BY <1>1 DEF PassShape
<1>3. pass' = [pass EXCEPT ![a] = p]
  BY DEF FoundAt, Go
<1> HIDE DEF p
<1> QED
  BY <1>2, <1>3, PassToIn

\* The account a row's copy goes to.
TargetOf(i) == rows[sagas[queue[i].saga].dst].at

\* What has to hold of a pass after a step, said of what was there before it.
LEMMA PassAfter ==
    ASSUME Shapes, Refs, Grows, NEW a \in Accounts,
           \A i \in pass'[a].batch : i \in DOMAIN queue /\ rows[queue[i].row].at = a,
           pass'[a].row \in DOMAIN queue \/ (pass'[a].row = 0 /\ pass'[a].pc \in {"idle", "step"}),
           pass'[a].uid \in DOMAIN copies' \cup {NoUid},
           pass'[a].pc \in {"search", "append", "prove", "confirm", "record"} => Copies(a, pass'[a].row),
           pass'[a].pc \in {"confirm", "record"} =>
              /\ pass'[a].uid \in DOMAIN copies'
              /\ copies'[pass'[a].uid].at = TargetOf(pass'[a].row),
           pass'[a].pc \in {"mark", "expunge", "finish"} =>
              /\ pass'[a].uid \in DOMAIN copies' /\ copies'[pass'[a].uid].at = a
              /\ queue[pass'[a].row].op = "remove" /\ rows[queue[pass'[a].row].row].at = a
              /\ queue[pass'[a].row].snap \in {NoUid, pass'[a].uid}
    PROVE  PassRef(a)'
<1> DEFINE p == pass'[a]
<1>1. \A i \in p.batch : i \in DOMAIN queue' /\ rows'[queue'[i].row].at = a
  <2> TAKE i \in p.batch
  <2>1. i \in DOMAIN queue /\ rows[queue[i].row].at = a /\ queue[i].row \in DOMAIN rows
    BY DEF Refs, QueueRefs
  <2> QED
    BY <2>1 DEF Grows, QueueGrow, RowsGrow
<1>2. p.row \in DOMAIN queue' \cup {0} /\ (p.pc \notin {"idle", "step"} => p.row \in DOMAIN queue')
  BY DEF Grows, QueueGrow
<1>3. ASSUME p.pc \in {"confirm", "record"} PROVE Own(pass[a].uid, Target(a))'
  <2> DEFINE i == p.row
             s == queue[i].saga
  <2>1. i \in DOMAIN queue
    BY <1>3
  <2>2. s \in DOMAIN sagas /\ sagas[s].dst \in DOMAIN rows
    BY <2>1 DEF Refs, QueueRefs, SagaRefs
  <2>3. queue'[i].saga = s
    BY <2>1 DEF Grows, QueueGrow
  <2>4. sagas'[s].dst = sagas[s].dst
    BY <2>2 DEF Grows, SagasGrow
  <2>5. rows'[sagas[s].dst].at = rows[sagas[s].dst].at
    BY <2>2 DEF Grows, RowsGrow
  <2>6. Target(a)' = TargetOf(i)
    BY <2>3, <2>4, <2>5 DEF Target, SagaOf, TargetOf
  <2> QED
    BY <1>3, <2>6 DEF Own
<1>4. ASSUME p.pc \in {"mark", "expunge", "finish"}
      PROVE  /\ Own(pass[a].uid, a)'
             /\ queue'[p.row].op = "remove" /\ rows'[queue'[p.row].row].at = a
             /\ queue'[p.row].snap \in {NoUid, p.uid}
  <2>1. p.row \in DOMAIN queue
    BY <1>4
  <2>2. queue[p.row].row \in DOMAIN rows
    BY <2>1 DEF Refs, QueueRefs
  <2> QED
    BY <1>4, <2>1, <2>2 DEF Own, Grows, RowsGrow, QueueGrow
<1>5. ASSUME p.pc \in {"search", "append", "prove", "confirm", "record"}
      PROVE  queue'[p.row].op = "copy" /\ rows'[queue'[p.row].row].at = a
  <2>1. p.row \in DOMAIN queue /\ queue[p.row].op = "copy" /\ rows[queue[p.row].row].at = a
    BY <1>5 DEF Copies
  <2>2. queue[p.row].row \in DOMAIN rows
    BY <2>1 DEF Refs, QueueRefs
  <2> QED
    BY <2>1, <2>2 DEF Grows, RowsGrow, QueueGrow
<1> QED
  BY <1>1, <1>2, <1>3, <1>4, <1>5 DEF PassRef, Copies

LEMMA DrainKeeps ==
    ASSUME MoveInv, Grows, GoneFolder', DoneIsRemoved',
           UNCHANGED <<fixed_vars, folders, stack, undo, acts, faults>>, NEW a \in Accounts, PassMoves(a), PassRef(a)',
           a \in uidPlus /\ pass'[a].pc = "finish" => copies'[pass'[a].uid].gone
    PROVE  MoveInv'
<1>1. Shapes /\ Refs
  BY DEF MoveInv
<1>2. RestShapes'
  BY <1>1 DEF Shapes, RestShapes, PassMoves
<1>3. StackRefs' /\ UndoRefs'
  BY <1>1, GrowsStack, GrowsUndo DEF Refs, Grows
<1>4. \A b \in Accounts \ {a} : pass'[b] = pass[b]
  BY DEF PassMoves
<1> QED
  BY <1>2, <1>3, <1>4, StepKeeps

\* A pass that is not between an exchange and the record of it.
LEMMA QuietKeeps ==
    ASSUME MoveInv, Grows, GoneFolder', DoneIsRemoved',
           UNCHANGED <<fixed_vars, folders, stack, undo, acts, faults>>,
           NEW a \in Accounts, PassMoves(a),
           pass'[a].batch \subseteq pass[a].batch,
           pass'[a].row \in DOMAIN queue \/ (pass'[a].row = 0 /\ pass'[a].pc \in {"idle", "step"}),
           pass'[a].uid \in DOMAIN copies' \cup {NoUid},
           pass'[a].pc \in {"search", "append", "prove", "confirm", "record"} => Copies(a, pass'[a].row),
           pass'[a].pc \notin {"confirm", "record", "mark", "expunge", "finish"}
    PROVE  MoveInv'
<1>1. Shapes /\ Refs
  BY DEF MoveInv
<1>2. \A i \in pass'[a].batch : i \in DOMAIN queue /\ rows[queue[i].row].at = a
  BY <1>1 DEF Refs, PassRefs, PassRef
<1>3. PassRef(a)'
  BY <1>1, <1>2, PassAfter
<1> QED
  BY <1>3, DrainKeeps

LEMMA UidStays ==
    ASSUME MoveInv, CopiesGrow, NEW a \in Accounts
    PROVE  pass[a].uid \in DOMAIN copies' \cup {NoUid}
BY DEF MoveInv, Refs, PassRefs, PassRef, CopiesGrow

LEMMA EndKeeps ==
    ASSUME MoveInv, Grows, GoneFolder', DoneIsRemoved',
           UNCHANGED <<fixed_vars, folders, stack, undo, acts, faults>>,
           NEW a \in Accounts, pass[a].pc \notin {"idle", "step"},
           NEW o \in Outcomes, End(a, o)
    PROVE  MoveInv'
<1>1. Shapes /\ PassRef(a)
  BY DEF MoveInv, Refs, PassRefs
<1>2. pass[a].row \in DOMAIN queue
  BY <1>1 DEF PassRef
<1>3. /\ PassMoves(a)
      /\ pass'[a].pc = "settle" /\ pass'[a].batch = pass[a].batch
      /\ pass'[a].row = pass[a].row /\ pass'[a].uid = NoUid
  BY <1>1, EndIs
<1> QED
  BY <1>2, <1>3, QuietKeeps

LEMMA SettledKeeps ==
    ASSUME MoveInv, Grows, GoneFolder', DoneIsRemoved',
           UNCHANGED <<fixed_vars, folders, stack, undo, acts, faults>>,
           NEW a \in Accounts, NEW i \in DOMAIN queue,
           NEW o \in Outcomes, Settled(a, i, o)
    PROVE  MoveInv'
<1>1. Shapes
  BY DEF MoveInv
<1>2. i \in Nat
  BY <1>1, QueueIn
<1>3. /\ PassMoves(a)
      /\ pass'[a].pc = "settle" /\ pass'[a].batch = pass[a].batch
      /\ pass'[a].row = i /\ pass'[a].uid = pass[a].uid
  BY <1>1, <1>2, SettledIs
<1>4. pass'[a].uid \in DOMAIN copies' \cup {NoUid}
  BY <1>3, UidStays DEF Grows
<1> QED
  BY <1>3, <1>4, QuietKeeps

LEMMA GoKeeps ==
    ASSUME MoveInv, Grows, GoneFolder', DoneIsRemoved',
           UNCHANGED <<fixed_vars, folders, stack, undo, acts, faults>>,
           NEW a \in Accounts, pass[a].pc \in {"search", "append"},
           NEW q \in {"append", "prove"}, Go(a, q)
    PROVE  MoveInv'
<1>1. Shapes /\ PassRef(a)
  BY DEF MoveInv, Refs, PassRefs
<1>2. pass[a].row \in DOMAIN queue /\ Copies(a, pass[a].row)
  BY <1>1 DEF PassRef
<1>3. /\ PassMoves(a)
      /\ pass'[a].pc = q /\ pass'[a].batch = pass[a].batch
      /\ pass'[a].row = pass[a].row /\ pass'[a].uid = pass[a].uid
  <2>1. q \in Pcs
    BY DEF Pcs
  <2> QED
    BY <1>1, <2>1, GoIs
<1>4. pass'[a].uid \in DOMAIN copies' \cup {NoUid}
  BY <1>3, UidStays DEF Grows
<1> QED
  BY <1>2, <1>3, <1>4, QuietKeeps

\* A copy of the target's server is found, or was just uploaded there.
LEMMA FoundKeeps ==
    ASSUME MoveInv, Grows, GoneFolder', DoneIsRemoved',
           UNCHANGED <<fixed_vars, folders, stack, undo, acts, faults>>,
           NEW a \in Accounts, pass[a].pc \in {"search", "append", "prove"},
           NEW u \in DOMAIN copies', copies'[u].at = Target(a), FoundAt(a, u)
    PROVE  MoveInv'
<1>1. Shapes /\ Refs /\ PassRef(a)
  BY DEF MoveInv, Refs, PassRefs
<1>2. pass[a].row \in DOMAIN queue /\ Copies(a, pass[a].row)
      /\ \A i \in pass[a].batch : i \in DOMAIN queue /\ rows[queue[i].row].at = a
  BY <1>1 DEF PassRef
<1>3. u \in Nat
  <2>1. copies' \in Seq(CopyShape)
    BY DEF Grows, CopiesGrow
  <2>2. DOMAIN copies' = 1 .. Len(copies')
    BY <2>1, ElementIn
  <2> QED
    BY <2>2
<1>4. /\ PassMoves(a)
      /\ pass'[a].pc = "confirm" /\ pass'[a].batch = pass[a].batch
      /\ pass'[a].row = pass[a].row /\ pass'[a].uid = u
  BY <1>1, <1>3, FoundAtIs
<1>5. Target(a) = TargetOf(pass'[a].row)
  BY <1>4 DEF Target, TargetOf, SagaOf
<1>6. PassRef(a)'
  BY <1>1, <1>2, <1>4, <1>5, PassAfter
<1> QED
  BY <1>4, <1>6, DrainKeeps

\* Nothing but a pass, or the phase of a saga that is not finished by it.
LEMMA WorldSame ==
    ASSUME MoveInv, Grows, NoNewDone, DOMAIN copies' = DOMAIN copies,
           UNCHANGED <<fixed_vars, folders>>
    PROVE  GoneFolder' /\ DoneIsRemoved'
<1>1. UNCHANGED uidPlus
  BY DEF fixed_vars
<1> QED
  BY <1>1, GrowsGone, GrowsDone DEF MoveInv, Removal, Grows

LEMMA PassOverIs ==
    ASSUME NEW B \in SUBSET Nat
    PROVE  /\ PassOver(B) \in PassShape /\ PassOver(B).batch = B
           /\ PassOver(B).row = 0 /\ PassOver(B).uid = NoUid
           /\ PassOver(B).pc \in {"idle", "step"}
<1>1. CASE B = {}
  BY <1>1, NoPassIn DEF PassOver
<1>2. CASE B # {}
  <2>1. PassOver(B) = [NoPass EXCEPT !.pc = "step", !.batch = B]
    BY <1>2 DEF PassOver
  <2> QED
    BY <2>1, NoPassIn DEF PassShape
<1> QED
  BY <1>1, <1>2

LEMMA ListDueKeeps ==
    ASSUME MoveInv, NEW a \in Accounts, ListDue(a)
    PROVE  Grows /\ MoveInv'
<1>1. Shapes /\ Refs
  BY DEF MoveInv
<1>2. Grows /\ NoNewDone
  BY <1>1, NothingGrows DEF ListDue, world_vars
<1>3. UNCHANGED <<fixed_vars, folders, stack, undo, acts, faults>> /\ UNCHANGED copies
  BY DEF ListDue, world_vars, user_vars
<1>4. PICK waiting : pass' = [pass EXCEPT ![a] = PassOver(RowsOf(a) \ waiting)]
  BY DEF ListDue
<1> DEFINE B == RowsOf(a) \ waiting
           p == PassOver(B)
<1>5. \A i \in B : i \in DOMAIN queue /\ rows[queue[i].row].at = a
  BY DEF RowsOf
<1>6. B \in SUBSET Nat
  BY <1>1, <1>5, QueueIn
<1> HIDE DEF B
<1>7. /\ p \in PassShape /\ p.batch = B /\ p.row = 0 /\ p.uid = NoUid
      /\ p.pc \in {"idle", "step"}
  BY <1>6, PassOverIs
<1>8. pass' = [pass EXCEPT ![a] = p]
  BY <1>4 DEF B
<1> HIDE DEF p
<1>9. PassMoves(a) /\ pass'[a] = p
  BY <1>1, <1>7, <1>8, PassToIn
<1>10. PassRef(a)'
  BY <1>1, <1>2, <1>5, <1>7, <1>9, PassAfter
<1>11. GoneFolder' /\ DoneIsRemoved'
  BY <1>2, <1>3, WorldSame
<1> QED
  BY <1>2, <1>3, <1>7, <1>9, <1>10, <1>11, DrainKeeps

\* The row a pass runs next is one of the account's own.
LEMMA NextIn ==
    ASSUME MoveInv, NEW a \in Accounts, NEW i, IsNext(a, i)
    PROVE  /\ i \in DOMAIN queue /\ rows[queue[i].row].at = a
           /\ queue[i].saga \in DOMAIN sagas /\ queue[i].row \in DOMAIN rows
<1>1. Shapes /\ Refs /\ PassRef(a)
  BY DEF MoveInv, Refs, PassRefs
<1>2. pass[a].batch \in SUBSET Nat /\ pass[a].batch # {}
  BY <1>1, PassIn DEF PassShape, IsNext
<1>3. i \in pass[a].batch
  BY <1>2, LeastIn DEF IsNext
<1> QED
  BY <1>1, <1>3 DEF PassRef, Refs, QueueRefs

LEMMA CopyBeginKeeps ==
    ASSUME MoveInv, NEW a \in Accounts, NEW i, CopyBegin(a, i)
    PROVE  Grows /\ MoveInv'
<1> DEFINE s == queue[i].saga
           ph == sagas[s].phase
           p == [pass[a] EXCEPT !.row = i, !.pc = "search", !.seen = ph]
<1>1. Shapes /\ Refs
  BY DEF MoveInv
<1>2. /\ i \in DOMAIN queue /\ rows[queue[i].row].at = a
      /\ queue[i].saga \in DOMAIN sagas /\ queue[i].row \in DOMAIN rows
  BY NextIn DEF CopyBegin
<1>3. UNCHANGED <<world_vars, rows, queue, user_vars, faults>>
  BY DEF CopyBegin
<1>4. UNCHANGED <<fixed_vars, folders, stack, undo, acts, faults>> /\ UNCHANGED copies
      /\ UNCHANGED rows /\ UNCHANGED queue
  BY <1>3 DEF world_vars, user_vars
<1>5. UNCHANGED sagas \/ sagas' = WithPhase(s, "Aborted")
  BY DEF CopyBegin, WithPhase
<1>6. SagasGrow /\ NoNewDone
  <2>1. "Aborted" \in Phases
    BY DEF Phases
  <2> QED
    BY <1>1, <1>5, <2>1, SagasStay, PhaseGrow
<1>7. Grows /\ GoneFolder' /\ DoneIsRemoved'
  <2>1. Grows /\ DOMAIN copies' = DOMAIN copies
    BY <1>1, <1>4, <1>6, CopiesStay, RowsStay, QueueStays DEF Grows
  <2> QED
    BY <1>4, <1>6, <2>1, WorldSame
<1>8. \/ \E o \in Outcomes : Settled(a, i, o)
      \/ pass' = [pass EXCEPT ![a] = p]
  BY DEF CopyBegin, Outcomes
<1>9. CASE \E o \in Outcomes : Settled(a, i, o)
  BY <1>2, <1>4, <1>7, <1>9, SettledKeeps
<1>10. CASE pass' = [pass EXCEPT ![a] = p]
  <2>1. pass[a] \in PassShape /\ i \in Nat
    BY <1>1, <1>2, PassIn, QueueIn
  <2>2. ph \in Phases
    <3>1. sagas[s] \in SagaShape
      BY <1>1, <1>2, SagaIn
    <3> QED
      BY <3>1 DEF SagaShape
  <2> HIDE DEF ph
  <2>3. /\ p \in PassShape /\ p.pc = "search" /\ p.batch = pass[a].batch
        /\ p.row = i /\ p.uid = pass[a].uid
    BY <2>1, <2>2 DEF PassShape
  <2> HIDE DEF p
  <2>4. PassMoves(a) /\ pass'[a] = p
    BY <1>1, <1>10, <2>3, PassToIn
  <2>5. pass'[a].uid \in DOMAIN copies' \cup {NoUid}
    BY <1>7, <2>3, <2>4, UidStays DEF Grows
  <2>6. Copies(a, i)
    BY <1>2 DEF CopyBegin, Copies
  <2> QED
    BY <1>2, <1>4, <1>7, <2>3, <2>4, <2>5, <2>6, QuietKeeps
<1> QED
  BY <1>8, <1>9, <1>10

\* What a search of the target's server answers with is there.
LEMMA FindableIn ==
    ASSUME Shapes, NEW a \in Accounts, Findable(a) # {}
    PROVE  /\ Greatest(Findable(a)) \in DOMAIN copies
           /\ copies[Greatest(Findable(a))].at = Target(a)
<1>1. Findable(a) \subseteq {u \in DOMAIN copies : copies[u].at = Target(a)}
  BY DEF Findable, OnServer
<1>2. DOMAIN copies = 1 .. Len(copies) /\ Len(copies) \in Nat
  BY ElementIn DEF Shapes
<1> DEFINE S == Findable(a)
<1> HIDE DEF S
<1>3. S \in SUBSET (0 .. Len(copies)) /\ S # {}
  BY <1>1, <1>2 DEF S
<1>4. Greatest(S) \in S
  BY <1>2, <1>3, GreatestIn
<1> QED
  BY <1>1, <1>4 DEF S

LEMMA CopySearchKeeps ==
    ASSUME MoveInv, NEW a \in Accounts, CopySearch(a)
    PROVE  Grows /\ MoveInv'
<1>1. Shapes /\ Refs
  BY DEF MoveInv
<1>2. UNCHANGED <<fixed_vars, folders, stack, undo, acts, faults>> /\ UNCHANGED copies
  BY DEF CopySearch, world_vars, user_vars
<1>3. Grows /\ NoNewDone
  BY <1>1, NothingGrows DEF CopySearch, world_vars
<1>4. GoneFolder' /\ DoneIsRemoved'
  BY <1>2, <1>3, WorldSame
<1>5. pass[a].pc = "search"
  BY DEF CopySearch, At
<1>6. CASE Findable(a) # {} /\ FoundAt(a, Greatest(Findable(a)))
  <2>1. /\ Greatest(Findable(a)) \in DOMAIN copies'
        /\ copies'[Greatest(Findable(a))].at = Target(a)
    BY <1>1, <1>2, <1>6, FindableIn
  <2> QED
    BY <1>2, <1>3, <1>4, <1>5, <1>6, <2>1, FoundKeeps
<1>7. CASE Go(a, "append")
  BY <1>2, <1>3, <1>4, <1>5, <1>7, GoKeeps
<1>8. CASE End(a, "Failed") \/ End(a, "Retry")
  BY <1>2, <1>3, <1>4, <1>5, <1>8, EndKeeps DEF Outcomes
<1> QED
  BY <1>6, <1>7, <1>8 DEF CopySearch

LEMMA CopyAppendKeeps ==
    ASSUME MoveInv, NEW a \in Accounts, CopyAppend(a)
    PROVE  Grows /\ MoveInv'
<1> DEFINE n == Len(copies) + 1
           c == [at |-> Target(a), deleted |-> FALSE, gone |-> FALSE]
<1>1. Shapes /\ Refs
  BY DEF MoveInv
<1>2. UNCHANGED <<fixed_vars, folders, stack, undo, acts, faults>>
      /\ UNCHANGED rows /\ UNCHANGED sagas /\ UNCHANGED queue
  BY DEF CopyAppend, user_vars
<1>3. pass[a].pc = "append"
  BY DEF CopyAppend, At
<1>4. RowsGrow /\ SagasGrow /\ QueueGrow /\ NoNewDone
  BY <1>1, <1>2, RowsStay, SagasStay, QueueStays
<1>5. CASE End(a, "Retry") /\ UNCHANGED copies
  <2>1. CopiesGrow /\ DOMAIN copies' = DOMAIN copies
    BY <1>1, <1>5, CopiesStay
  <2>2. Grows
    BY <1>4, <2>1 DEF Grows
  <2>3. GoneFolder' /\ DoneIsRemoved'
    BY <1>2, <1>4, <2>1, <2>2, WorldSame
  <2> QED
    BY <1>2, <1>3, <1>5, <2>2, <2>3, EndKeeps DEF Outcomes
<1>6. CASE Target(a) \in folders /\ copies' = Append(copies, c)
           /\ (FoundAt(a, n) \/ Go(a, "prove") \/ End(a, "Retry"))
  <2>1. c \in CopyShape /\ c.at = Target(a)
    BY <1>1, <1>6 DEF Shapes, CopyShape
  <2> HIDE DEF c
  <2>2. LET t == Append(copies, c) IN
        /\ t \in Seq(CopyShape) /\ DOMAIN t = DOMAIN copies \cup {Len(copies) + 1}
        /\ \A u \in DOMAIN copies : t[u] = copies[u]
        /\ t[Len(copies) + 1] = c
        /\ Len(copies) + 1 \notin DOMAIN copies /\ DOMAIN copies \subseteq DOMAIN t
    BY <1>1, <2>1, AppendIn DEF Shapes
  <2>3. /\ copies' \in Seq(CopyShape) /\ DOMAIN copies' = DOMAIN copies \cup {n}
        /\ \A u \in DOMAIN copies : copies'[u] = copies[u]
        /\ copies'[n] = c
    BY <1>6, <2>2, Zenon
  <2> HIDE DEF n
  <2>4. CopiesGrow
    BY <2>3 DEF CopiesGrow
  <2>5. Grows
    BY <1>4, <2>4 DEF Grows
  <2>6. GoneFolder'
    BY <1>2, <1>6, <2>1, <2>3 DEF MoveInv, Removal, GoneFolder, OnServer
  <2>7. DoneIsRemoved'
    BY <1>1, <1>2, <1>4, <2>5, GrowsDone DEF MoveInv, Removal, fixed_vars
  <2>8. CASE FoundAt(a, n)
    BY <1>2, <1>3, <2>1, <2>3, <2>5, <2>6, <2>7, <2>8, FoundKeeps
  <2>9. CASE Go(a, "prove")
    BY <1>2, <1>3, <2>5, <2>6, <2>7, <2>9, GoKeeps
  <2>10. CASE End(a, "Retry")
    BY <1>2, <1>3, <2>5, <2>6, <2>7, <2>10, EndKeeps DEF Outcomes
  <2> QED
    BY <1>6, <2>8, <2>9, <2>10
<1> QED
  BY <1>5, <1>6 DEF CopyAppend

\* A phase that may not be taken is left alone.
LEMMA AdvanceIs ==
    ASSUME Shapes, NEW s, NEW p \in Phases, Advance(s, p)
    PROVE  SagasGrow /\ (p # "Done" => NoNewDone)
<1>1. sagas' = WithPhase(s, p) \/ UNCHANGED sagas
  BY DEF Advance, WithPhase
<1> QED
  BY <1>1, PhaseGrow, SagasStay

LEMMA CopyProveKeeps ==
    ASSUME MoveInv, NEW a \in Accounts, CopyProve(a)
    PROVE  Grows /\ MoveInv'
<1>1. Shapes /\ Refs
  BY DEF MoveInv
<1>2. UNCHANGED <<fixed_vars, folders, stack, undo, acts, faults>> /\ UNCHANGED copies
      /\ UNCHANGED rows /\ UNCHANGED queue
  BY DEF CopyProve, world_vars, user_vars
<1>3. pass[a].pc = "prove"
  BY DEF CopyProve, At
<1>4. SagasGrow /\ NoNewDone
  <2>1. "Unconfirmed" \in Phases
    BY DEF Phases
  <2>2. UNCHANGED sagas \/ Advance(SagaOf(a), "Unconfirmed")
    BY DEF CopyProve
  <2> QED
    BY <1>1, <2>1, <2>2, SagasStay, AdvanceIs
<1>5. Grows /\ GoneFolder' /\ DoneIsRemoved'
  <2>1. Grows /\ DOMAIN copies' = DOMAIN copies
    BY <1>1, <1>2, <1>4, CopiesStay, RowsStay, QueueStays DEF Grows
  <2> QED
    BY <1>2, <1>4, <2>1, WorldSame
<1>6. CASE Findable(a) # {} /\ FoundAt(a, Greatest(Findable(a)))
  <2>1. /\ Greatest(Findable(a)) \in DOMAIN copies'
        /\ copies'[Greatest(Findable(a))].at = Target(a)
    BY <1>1, <1>2, <1>6, FindableIn
  <2> QED
    BY <1>2, <1>3, <1>5, <1>6, <2>1, FoundKeeps
<1>7. CASE End(a, "Failed")
  BY <1>2, <1>3, <1>5, <1>7, EndKeeps DEF Outcomes
<1> QED
  BY <1>6, <1>7 DEF CopyProve

LEMMA ConfirmKeeps ==
    ASSUME MoveInv, NEW a \in Accounts, Confirm(a)
    PROVE  Grows /\ MoveInv'
<1>1. Shapes /\ Refs /\ PassRef(a)
  BY DEF MoveInv, Refs, PassRefs
<1>2. UNCHANGED <<fixed_vars, folders, stack, undo, acts, faults>> /\ UNCHANGED copies
      /\ UNCHANGED rows /\ UNCHANGED queue
  BY DEF Confirm, world_vars, user_vars
<1>3. pass[a].pc = "confirm"
  BY DEF Confirm, At
<1>4. SagasGrow /\ NoNewDone
  <2>1. "Confirmed" \in Phases
    BY DEF Phases
  <2>2. Advance(SagaOf(a), "Confirmed")
    BY DEF Confirm
  <2> QED
    BY <1>1, <2>1, <2>2, AdvanceIs
<1>5. Grows /\ GoneFolder' /\ DoneIsRemoved'
  <2>1. Grows /\ DOMAIN copies' = DOMAIN copies
    BY <1>1, <1>2, <1>4, CopiesStay, RowsStay, QueueStays DEF Grows
  <2> QED
    BY <1>2, <1>4, <2>1, WorldSame
<1>6. CASE Go(a, "record")
  <2>1. /\ PassMoves(a)
        /\ pass'[a].pc = "record" /\ pass'[a].batch = pass[a].batch
        /\ pass'[a].row = pass[a].row /\ pass'[a].uid = pass[a].uid
    BY <1>1, <1>6, GoIs DEF Pcs
  <2>2. /\ pass[a].row \in DOMAIN queue /\ Own(pass[a].uid, Target(a)) /\ Copies(a, pass[a].row)
        /\ \A i \in pass[a].batch : i \in DOMAIN queue /\ rows[queue[i].row].at = a
    BY <1>1, <1>3 DEF PassRef
  <2>3. Target(a) = TargetOf(pass[a].row)
    BY DEF Target, TargetOf, SagaOf
  <2>4. pass'[a].uid \in DOMAIN copies' /\ copies'[pass'[a].uid].at = TargetOf(pass'[a].row)
    BY <1>2, <2>1, <2>2, <2>3 DEF Own
  <2>5. PassRef(a)'
    BY <1>1, <1>5, <2>1, <2>2, <2>4, PassAfter
  <2> QED
    BY <1>2, <1>5, <2>1, <2>5, DrainKeeps
<1>7. CASE End(a, "Failed")
  BY <1>2, <1>3, <1>5, <1>7, EndKeeps DEF Outcomes
<1> QED
  BY <1>6, <1>7 DEF Confirm

\* A row is given the identity of a copy on its own account's server.
WithUid(r, u) == [rows EXCEPT ![r].uid = u]

LEMMA UidGrows ==
    ASSUME Shapes, NEW r \in DOMAIN rows, NEW u \in Nat, Own(u, rows[r].at),
           rows' = WithUid(r, u)
    PROVE  RowsGrow
<1> DEFINE e == [rows[r] EXCEPT !.uid = u]
<1>1. \A q \in DOMAIN rows : rows[q] \in RowShape
  BY RowIn
<1>2. e \in RowShape /\ e.at = rows[r].at /\ e.uid = u
  BY <1>1 DEF RowShape
<1>3. rows' = [rows EXCEPT ![r] = e]
  BY DEF WithUid
<1> HIDE DEF e
<1>4. /\ rows' \in Seq(RowShape) /\ DOMAIN rows' = DOMAIN rows
      /\ \A q \in DOMAIN rows : rows'[q] = IF q = r THEN e ELSE rows[q]
  BY <1>2, <1>3, ExceptIn DEF Shapes
<1>5. \A q \in DOMAIN rows : rows'[q].at = rows[q].at
  BY <1>2, <1>4
<1>6. \A q \in DOMAIN rows : \/ rows'[q].uid = rows[q].uid
                             \/ Own(rows'[q].uid, rows'[q].at)
  <2> TAKE q \in DOMAIN rows
  <2>1. CASE q = r
    <3>1. rows'[q].uid = u /\ rows'[q].at = rows[r].at
      BY <1>2, <1>4, <2>1
    <3> QED
      BY <3>1
  <2>2. CASE q # r
    BY <1>4, <2>2
  <2> QED
    BY <2>1, <2>2
<1> QED
  BY <1>4, <1>5, <1>6 DEF RowsGrow

LEMMA CopyUidIn == Shapes => \A u \in DOMAIN copies : u \in Nat
BY ElementIn DEF Shapes

LEMMA RecordUidKeeps ==
    ASSUME MoveInv, NEW a \in Accounts, RecordUid(a)
    PROVE  Grows /\ MoveInv'
<1> DEFINE d == sagas[SagaOf(a)].dst
           u == pass[a].uid
<1>1. Shapes /\ Refs /\ PassRef(a)
  BY DEF MoveInv, Refs, PassRefs
<1>2. UNCHANGED <<fixed_vars, folders, stack, undo, acts, faults>> /\ UNCHANGED copies
      /\ UNCHANGED sagas /\ UNCHANGED queue
  BY DEF RecordUid, world_vars, user_vars
<1>3. pass[a].pc = "record"
  BY DEF RecordUid, At
<1>4. pass[a].row \in DOMAIN queue /\ Own(u, rows[d].at)
  BY <1>1, <1>3 DEF PassRef, Target
<1>5. d \in DOMAIN rows
  BY <1>1, <1>4 DEF Refs, QueueRefs, SagaRefs, SagaOf
<1>6. u \in Nat
  BY <1>1, <1>4, CopyUidIn DEF Own
<1>7. rows' = WithUid(d, u)
  BY DEF RecordUid, WithUid
<1> HIDE DEF d, u
<1>8. RowsGrow
  BY <1>1, <1>4, <1>5, <1>6, <1>7, UidGrows
<1>9. Grows /\ NoNewDone /\ DOMAIN copies' = DOMAIN copies
  BY <1>1, <1>2, <1>8, CopiesStay, SagasStay, QueueStays DEF Grows
<1>10. GoneFolder' /\ DoneIsRemoved'
  BY <1>2, <1>9, WorldSame
<1>11. End(a, "Applied")
  BY DEF RecordUid
<1> QED
  BY <1>2, <1>3, <1>9, <1>10, <1>11, EndKeeps DEF Outcomes

\* A saga is finished by its removal, which has removed what it knew of.
LEMMA FinishSaga ==
    ASSUME MoveInv, NEW i \in DOMAIN queue, queue[i].op = "remove",
           sagas' = WithPhase(queue[i].saga, "Done"),
           UNCHANGED <<copies, queue, uidPlus>>,
           queue[i].snap # NoUid /\ copies[queue[i].snap].at \in uidPlus
              => copies[queue[i].snap].gone
    PROVE  DoneIsRemoved'
<1> DEFINE s == queue[i].saga
<1>1. Shapes /\ Refs /\ OneRemoval /\ DoneIsRemoved
  BY DEF MoveInv, Removal
<1>2. \A t \in DOMAIN sagas : t # s => sagas'[t] = sagas[t]
  <2>1. "Done" \in Phases
    BY DEF Phases
  <2> QED
    BY <1>1, <2>1, PhaseIn
<1> SUFFICES ASSUME NEW j \in DOMAIN queue, queue[j].op = "remove",
                    sagas'[queue[j].saga].phase = "Done",
                    queue[j].snap # NoUid, copies[queue[j].snap].at \in uidPlus
             PROVE  copies[queue[j].snap].gone
  BY DEF DoneIsRemoved
<1>3. CASE queue[j].saga = s
  <2>1. j = i
    BY <1>1, <1>3 DEF OneRemoval
  <2> QED
    BY <2>1
<1>4. CASE queue[j].saga # s
  <2>1. queue[j].saga \in DOMAIN sagas
    BY <1>1 DEF Refs, QueueRefs
  <2>2. sagas[queue[j].saga].phase = "Done"
    BY <1>2, <1>4, <2>1
  <2> QED
    BY <1>1, <2>2 DEF DoneIsRemoved
<1> QED
  BY <1>3, <1>4

LEMMA RemoveBeginKeeps ==
    ASSUME MoveInv, NEW a \in Accounts, NEW i, RemoveBegin(a, i)
    PROVE  Grows /\ MoveInv'
<1> DEFINE s == queue[i].saga
           src == sagas[s].src
           uid == IF queue[i].snap # NoUid THEN queue[i].snap
                  ELSE IF Live(src) THEN rows[src].uid ELSE NoUid
           p == [pass[a] EXCEPT !.row = i, !.pc = "mark", !.uid = uid]
<1>1. Shapes /\ Refs /\ PassRef(a) /\ GoneFolder
  BY DEF MoveInv, Refs, PassRefs, Removal
<1>2. /\ i \in DOMAIN queue /\ rows[queue[i].row].at = a
      /\ queue[i].saga \in DOMAIN sagas /\ queue[i].row \in DOMAIN rows
  BY NextIn DEF RemoveBegin
<1>3. queue[i].op = "remove" /\ src = queue[i].row
  BY <1>1, <1>2 DEF RemoveBegin, Refs, QueueRefs
<1>4. UNCHANGED <<fixed_vars, folders, stack, undo, acts, faults>> /\ UNCHANGED copies
      /\ UNCHANGED rows /\ UNCHANGED queue /\ UNCHANGED uidPlus
  BY DEF RemoveBegin, world_vars, user_vars, fixed_vars
<1>5. queue[i].snap # NoUid => Own(queue[i].snap, a)
  BY <1>1, <1>2 DEF Refs, QueueRefs
<1>6. uid # NoUid => Own(uid, a)
  BY <1>1, <1>2, <1>3, <1>5 DEF Refs, RowRefs
<1>7. \/ UNCHANGED sagas
      \/ (uid = NoUid \/ a \notin folders) /\ sagas' = WithPhase(s, "Done")
  BY DEF RemoveBegin, WithPhase
<1>8. SagasGrow
  <2>1. "Done" \in Phases
    BY DEF Phases
  <2> QED
    BY <1>1, <1>7, <2>1, SagasStay, PhaseGrow
<1>9. Grows /\ DOMAIN copies' = DOMAIN copies
  BY <1>1, <1>4, <1>8, CopiesStay, RowsStay, QueueStays DEF Grows
<1>10. GoneFolder'
  BY <1>1, <1>4, <1>9, GrowsGone DEF Grows
<1>11. DoneIsRemoved'
  <2>1. CASE UNCHANGED sagas
    BY <1>1, <1>4, <1>9, <2>1, SagasStay, WorldSame
  <2>2. CASE (uid = NoUid \/ a \notin folders) /\ sagas' = WithPhase(s, "Done")
    <3>1. queue[i].snap # NoUid => uid # NoUid
      OBVIOUS
    <3>2. queue[i].snap # NoUid => a \notin folders
      BY <2>2, <3>1
    <3>3. queue[i].snap # NoUid => copies[queue[i].snap].gone
      <4>1. ASSUME queue[i].snap # NoUid PROVE copies[queue[i].snap].gone
        <5>1. OnServer(a) = {}
          BY <1>1, <3>2, <4>1 DEF GoneFolder
        <5>2. queue[i].snap \in DOMAIN copies /\ copies[queue[i].snap].at = a
          BY <1>5, <4>1 DEF Own
        <5> QED
          BY <5>1, <5>2 DEF OnServer
      <4> QED
        BY <4>1
    <3> QED
      BY <1>2, <1>3, <1>4, <2>2, <3>3, FinishSaga
  <2> QED
    BY <1>7, <2>1, <2>2
<1>12. \/ \E o \in Outcomes : Settled(a, i, o)
       \/ uid # NoUid /\ pass' = [pass EXCEPT ![a] = p]
  BY DEF RemoveBegin, Outcomes
<1>13. queue[i].snap \in {NoUid, uid}
  OBVIOUS
<1> HIDE DEF src, uid
<1>14. CASE \E o \in Outcomes : Settled(a, i, o)
  BY <1>2, <1>4, <1>9, <1>10, <1>11, <1>14, SettledKeeps
<1>15. CASE uid # NoUid /\ pass' = [pass EXCEPT ![a] = p]
  <2>1. pass[a] \in PassShape /\ i \in Nat /\ uid \in Nat
    BY <1>1, <1>2, <1>6, <1>15, PassIn, QueueIn, CopyUidIn DEF Own
  <2>2. /\ p \in PassShape /\ p.pc = "mark" /\ p.batch = pass[a].batch
        /\ p.row = i /\ p.uid = uid
    BY <2>1 DEF PassShape
  <2> HIDE DEF p
  <2>3. PassMoves(a) /\ pass'[a] = p
    BY <1>1, <1>15, <2>2, PassToIn
  <2>4. \A k \in pass[a].batch : k \in DOMAIN queue /\ rows[queue[k].row].at = a
    BY <1>1 DEF PassRef
  <2>5. uid \in DOMAIN copies' /\ copies'[uid].at = a
    BY <1>4, <1>6, <1>15 DEF Own
  <2>6. PassRef(a)'
    BY <1>1, <1>2, <1>3, <1>9, <1>13, <2>2, <2>3, <2>4, <2>5, PassAfter
  <2> QED
    BY <1>4, <1>9, <1>10, <1>11, <2>2, <2>3, <2>6, DrainKeeps
<1> QED
  BY <1>12, <1>14, <1>15

\* One copy changes where it stays.
LEMMA CopyGrows ==
    ASSUME Shapes, NEW u \in DOMAIN copies, NEW e \in CopyShape,
           e.at = copies[u].at, copies[u].gone => e.gone, copies' = [copies EXCEPT ![u] = e]
    PROVE  CopiesGrow /\ DOMAIN copies' = DOMAIN copies /\ copies'[u] = e
<1>1. /\ copies' \in Seq(CopyShape) /\ DOMAIN copies' = DOMAIN copies
      /\ \A v \in DOMAIN copies : copies'[v] = IF v = u THEN e ELSE copies[v]
  BY ExceptIn DEF Shapes
<1> QED
  BY <1>1 DEF CopiesGrow

LEMMA CopyFlags ==
    ASSUME NEW x \in CopyShape
    PROVE  /\ [x EXCEPT !.deleted = TRUE] \in CopyShape
           /\ [x EXCEPT !.deleted = TRUE].at = x.at /\ [x EXCEPT !.deleted = TRUE].gone = x.gone
           /\ [x EXCEPT !.gone = TRUE] \in CopyShape
           /\ [x EXCEPT !.gone = TRUE].at = x.at /\ [x EXCEPT !.gone = TRUE].gone
BY DEF CopyShape

LEMMA CopyIn == Shapes => \A u \in DOMAIN copies : copies[u] \in CopyShape
BY ElementIn DEF Shapes

\* A removal goes on to its next exchange.
LEMMA RemoveGoKeeps ==
    ASSUME MoveInv, Grows, GoneFolder', DoneIsRemoved',
           UNCHANGED <<fixed_vars, folders, stack, undo, acts, faults>>,
           NEW a \in Accounts, pass[a].pc \in {"mark", "expunge"},
           NEW q \in {"expunge", "finish"}, Go(a, q),
           q = "finish" /\ a \in uidPlus => copies'[pass[a].uid].gone
    PROVE  MoveInv'
<1>1. Shapes /\ Refs /\ PassRef(a)
  BY DEF MoveInv, Refs, PassRefs
<1>2. /\ PassMoves(a)
      /\ pass'[a].pc = q /\ pass'[a].batch = pass[a].batch
      /\ pass'[a].row = pass[a].row /\ pass'[a].uid = pass[a].uid
  <2>1. q \in Pcs
    BY DEF Pcs
  <2> QED
    BY <1>1, <2>1, GoIs
<1>3. /\ pass[a].row \in DOMAIN queue /\ Own(pass[a].uid, a)
      /\ queue[pass[a].row].op = "remove" /\ rows[queue[pass[a].row].row].at = a
      /\ queue[pass[a].row].snap \in {NoUid, pass[a].uid}
      /\ \A i \in pass[a].batch : i \in DOMAIN queue /\ rows[queue[i].row].at = a
  BY <1>1 DEF PassRef
<1>4. pass[a].uid \in DOMAIN copies' /\ copies'[pass[a].uid].at = a
  BY <1>3 DEF Own, Grows, CopiesGrow
<1>5. PassRef(a)'
  BY <1>1, <1>2, <1>3, <1>4, PassAfter
<1> QED
  BY <1>2, <1>5, DrainKeeps

LEMMA RemoveMarkKeeps ==
    ASSUME MoveInv, NEW a \in Accounts, RemoveMark(a)
    PROVE  Grows /\ MoveInv'
<1> DEFINE u == pass[a].uid
           e == [copies[u] EXCEPT !.deleted = TRUE]
<1>1. Shapes /\ Refs /\ PassRef(a)
  BY DEF MoveInv, Refs, PassRefs
<1>2. UNCHANGED <<fixed_vars, folders, stack, undo, acts, faults>>
      /\ UNCHANGED rows /\ UNCHANGED sagas /\ UNCHANGED queue
  BY DEF RemoveMark, user_vars
<1>3. pass[a].pc = "mark"
  BY DEF RemoveMark, At
<1>4. u \in DOMAIN copies /\ copies[u] \in CopyShape
  BY <1>1, <1>3, CopyIn DEF PassRef, Own
<1>5. e \in CopyShape /\ e.at = copies[u].at /\ e.gone = copies[u].gone
  BY <1>4, CopyFlags
<1>6. UNCHANGED copies \/ copies' = [copies EXCEPT ![u] = e]
  BY DEF RemoveMark, MarkDeleted
<1> HIDE DEF u, e
<1>7. CopiesGrow /\ DOMAIN copies' = DOMAIN copies
  BY <1>1, <1>4, <1>5, <1>6, CopiesStay, CopyGrows
<1>8. Grows /\ NoNewDone
  BY <1>1, <1>2, <1>7, RowsStay, SagasStay, QueueStays DEF Grows
<1>9. GoneFolder' /\ DoneIsRemoved'
  BY <1>2, <1>7, <1>8, WorldSame
<1>10. CASE Go(a, "expunge")
  BY <1>2, <1>3, <1>8, <1>9, <1>10, RemoveGoKeeps
<1>11. CASE End(a, "Retry")
  BY <1>2, <1>3, <1>8, <1>9, <1>11, EndKeeps DEF Outcomes
<1> QED
  BY <1>10, <1>11 DEF RemoveMark

LEMMA RemoveExpungeKeeps ==
    ASSUME MoveInv, NEW a \in Accounts, RemoveExpunge(a)
    PROVE  Grows /\ MoveInv'
<1> DEFINE u == pass[a].uid
           e == [copies[u] EXCEPT !.gone = TRUE]
<1>1. Shapes /\ Refs /\ PassRef(a)
  BY DEF MoveInv, Refs, PassRefs
<1>2. UNCHANGED <<fixed_vars, folders, stack, undo, acts, faults>>
      /\ UNCHANGED rows /\ UNCHANGED sagas /\ UNCHANGED queue
  BY DEF RemoveExpunge, user_vars
<1>3. pass[a].pc = "expunge"
  BY DEF RemoveExpunge, At
<1>4. u \in DOMAIN copies /\ copies[u] \in CopyShape
  BY <1>1, <1>3, CopyIn DEF PassRef, Own
<1>5. e \in CopyShape /\ e.at = copies[u].at /\ e.gone
  BY <1>4, CopyFlags
<1>6. \/ Go(a, "finish") /\ (a \in uidPlus => copies' = [copies EXCEPT ![u] = e])
      \/ End(a, "Retry")
  BY DEF RemoveExpunge
<1>7. UNCHANGED copies \/ copies' = [copies EXCEPT ![u] = e]
  BY DEF RemoveExpunge
<1> HIDE DEF e
<1>8. /\ CopiesGrow /\ DOMAIN copies' = DOMAIN copies
      /\ copies' = [copies EXCEPT ![u] = e] => copies'[u].gone
  <2>1. CASE UNCHANGED copies
    <3>1. copies' = [copies EXCEPT ![u] = e] => copies'[u] = e
      BY <1>4
    <3> QED
      BY <1>1, <1>5, <2>1, <3>1, CopiesStay
  <2>2. CASE copies' = [copies EXCEPT ![u] = e]
    <3> HIDE DEF u
    <3>1. CopiesGrow /\ DOMAIN copies' = DOMAIN copies /\ copies'[u] = e
      BY <1>1, <1>4, <1>5, <2>2, CopyGrows
    <3> QED
      BY <1>5, <3>1
  <2> QED
    BY <1>7, <2>1, <2>2
<1>9. Grows /\ NoNewDone
  BY <1>1, <1>2, <1>8, RowsStay, SagasStay, QueueStays DEF Grows
<1>10. GoneFolder' /\ DoneIsRemoved'
  BY <1>2, <1>8, <1>9, WorldSame
<1>11. CASE Go(a, "finish") /\ (a \in uidPlus => copies' = [copies EXCEPT ![u] = e])
  BY <1>2, <1>3, <1>8, <1>9, <1>10, <1>11, RemoveGoKeeps
<1>12. CASE End(a, "Retry")
  BY <1>2, <1>3, <1>9, <1>10, <1>12, EndKeeps DEF Outcomes
<1> QED
  BY <1>6, <1>11, <1>12

LEMMA RemoveFinishKeeps ==
    ASSUME MoveInv, NEW a \in Accounts, RemoveFinish(a)
    PROVE  Grows /\ MoveInv'
<1> DEFINE i == pass[a].row
<1>1. Shapes /\ Refs /\ PassRef(a) /\ FinishGone
  BY DEF MoveInv, Refs, PassRefs, Removal
<1>2. UNCHANGED <<fixed_vars, folders, stack, undo, acts, faults>>
      /\ UNCHANGED rows /\ UNCHANGED copies /\ UNCHANGED queue /\ UNCHANGED uidPlus
  BY DEF RemoveFinish, user_vars, world_vars, fixed_vars
<1>3. pass[a].pc = "finish"
  BY DEF RemoveFinish, At
<1>4. /\ i \in DOMAIN queue /\ Own(pass[a].uid, a) /\ queue[i].op = "remove"
      /\ queue[i].snap \in {NoUid, pass[a].uid}
  BY <1>1, <1>3 DEF PassRef
<1>5. UNCHANGED sagas \/ sagas' = WithPhase(queue[i].saga, "Done")
  BY DEF RemoveFinish, Advance, SagaOf, WithPhase
<1>6. SagasGrow
  <2>1. "Done" \in Phases
    BY DEF Phases
  <2> QED
    BY <1>1, <1>5, <2>1, SagasStay, PhaseGrow
<1>7. Grows /\ DOMAIN copies' = DOMAIN copies
  BY <1>1, <1>2, <1>6, CopiesStay, RowsStay, QueueStays DEF Grows
<1>8. GoneFolder'
  BY <1>2, <1>7, GrowsGone DEF MoveInv, Removal, Grows
<1>9. DoneIsRemoved'
  <2>1. CASE UNCHANGED sagas
    BY <1>1, <1>2, <1>7, <2>1, SagasStay, WorldSame
  <2>2. CASE sagas' = WithPhase(queue[i].saga, "Done")
    <3>1. ASSUME queue[i].snap # NoUid, copies[queue[i].snap].at \in uidPlus
          PROVE  copies[queue[i].snap].gone
      <4>1. queue[i].snap = pass[a].uid
        BY <1>4, <3>1
      <4>2. a \in uidPlus
        BY <1>4, <3>1, <4>1 DEF Own
      <4> QED
        BY <1>1, <1>3, <4>1, <4>2 DEF FinishGone
    <3> QED
      BY <1>2, <1>4, <2>2, <3>1, FinishSaga
  <2> QED
    BY <1>5, <2>1, <2>2
<1>10. \E o \in Outcomes : End(a, o)
  BY DEF RemoveFinish, Outcomes
<1> QED
  BY <1>2, <1>3, <1>7, <1>8, <1>9, <1>10, EndKeeps

LEMMA SettleMissingKeeps ==
    ASSUME MoveInv, NEW a \in Accounts, SettleMissing(a)
    PROVE  Grows /\ MoveInv'
<1>1. Shapes /\ Refs
  BY DEF MoveInv
<1>2. UNCHANGED <<fixed_vars, folders, stack, undo, acts, faults>> /\ UNCHANGED copies
  BY DEF SettleMissing, world_vars, user_vars
<1>3. Grows /\ NoNewDone
  BY <1>1, NothingGrows DEF SettleMissing, world_vars
<1>4. GoneFolder' /\ DoneIsRemoved'
  BY <1>2, <1>3, WorldSame
<1>5. pass' = [pass EXCEPT ![a] = NoPass]
  BY DEF SettleMissing
<1>6. PassMoves(a) /\ pass'[a] = NoPass
  BY <1>1, <1>5, NoPassIn, PassToIn
<1> QED
  BY <1>2, <1>3, <1>4, <1>6, NoPassIn, QuietKeeps

LEMMA SettleIs ==
    ASSUME NEW x \in QueueShape
    PROVE  \A k \in {"done", "failed"} :
              /\ Settle(x, k) \in QueueShape
              /\ Settle(x, k).op = x.op /\ Settle(x, k).saga = x.saga
              /\ Settle(x, k).row = x.row /\ Settle(x, k).snap = x.snap
<1> TAKE k \in {"done", "failed"}
<1> DEFINE e == [x EXCEPT !.state = k, !.attempts = 0]
<1>1. Settle(x, k) = e
  BY DEF Settle
<1>2. k \in {"pending", "done", "failed", "deleted"} /\ 0 \in 0 .. MaxAttempts
  OBVIOUS
<1>3. e \in QueueShape /\ e.op = x.op /\ e.saga = x.saga /\ e.row = x.row /\ e.snap = x.snap
  BY <1>2 DEF QueueShape
<1> HIDE DEF e
<1> QED
  BY <1>1, <1>3

LEMMA SettleRowKeeps ==
    ASSUME MoveInv, NEW a \in Accounts, SettleRow(a)
    PROVE  Grows /\ MoveInv'
<1> DEFINE i == pass[a].row
           o == pass[a].outcome
           again == o = "Retry" /\ queue[i].attempts + 1 < MaxAttempts
           e == IF o \in {"Applied", "Obsolete"} THEN Settle(queue[i], "done")
                ELSE IF again THEN Tried(queue[i])
                ELSE Settle(queue[i], "failed")
           B == pass[a].batch \ {i}
           p == PassOver(B)
<1>1. Shapes /\ Refs /\ PassRef(a)
  BY DEF MoveInv, Refs, PassRefs
<1>2. UNCHANGED <<fixed_vars, folders, stack, undo, acts, faults>> /\ UNCHANGED copies
      /\ UNCHANGED rows /\ UNCHANGED sagas
  BY DEF SettleRow, world_vars, user_vars
<1>3. i \in DOMAIN queue
  BY <1>1 DEF PassRef, SettleRow, At
<1>4. queue[i] \in QueueShape
  BY <1>1, <1>3, QueueIn
<1>5. /\ e \in QueueShape /\ e.op = queue[i].op /\ e.saga = queue[i].saga
      /\ e.row = queue[i].row /\ e.snap = queue[i].snap
  <2> DEFINE x == queue[i]
             n == x.attempts + 1
  <2>1. /\ Settle(x, "done") = [x EXCEPT !.state = "done", !.attempts = 0]
        /\ Settle(x, "failed") = [x EXCEPT !.state = "failed", !.attempts = 0]
        /\ Tried(x) = [x EXCEPT !.attempts = n]
    BY DEF Settle, Tried
  <2>2. again => n \in 0 .. MaxAttempts
    BY <1>4 DEF QueueShape
  <2>3. x \in QueueShape /\ x.state \in {"pending", "done", "failed", "deleted"}
        /\ 0 \in 0 .. MaxAttempts
    BY <1>4 DEF QueueShape
  <2> HIDE DEF x, n
  <2>4. again => /\ Tried(x) \in QueueShape
                 /\ Tried(x).op = x.op /\ Tried(x).saga = x.saga
                 /\ Tried(x).row = x.row /\ Tried(x).snap = x.snap
    BY <2>1, <2>2, <2>3 DEF QueueShape
  <2>5. \A k \in {"done", "failed"} :
           /\ Settle(x, k) \in QueueShape
           /\ Settle(x, k).op = x.op /\ Settle(x, k).saga = x.saga
           /\ Settle(x, k).row = x.row /\ Settle(x, k).snap = x.snap
    BY <2>3, SettleIs
  <2> QED
    BY <2>4, <2>5 DEF x
<1>6. queue' = [queue EXCEPT ![i] = e]
  BY DEF SettleRow
<1> HIDE DEF e
<1>7. /\ queue' \in Seq(QueueShape) /\ DOMAIN queue' = DOMAIN queue
      /\ \A j \in DOMAIN queue : queue'[j] = IF j = i THEN e ELSE queue[j]
  <2> HIDE DEF i, o, p, B
  <2>1. queue \in Seq(QueueShape)
    BY <1>1 DEF Shapes
  <2>2. LET t == [queue EXCEPT ![i] = e] IN
        /\ t \in Seq(QueueShape) /\ DOMAIN t = DOMAIN queue
        /\ \A j \in DOMAIN queue : t[j] = IF j = i THEN e ELSE queue[j]
    BY <1>5, <2>1, ExceptIn
  <2> QED
    BY <1>6, <2>2, Zenon
<1>8. QueueGrow
  <2>1. \A j \in DOMAIN queue : /\ queue'[j].op = queue[j].op /\ queue'[j].saga = queue[j].saga
                                /\ queue'[j].row = queue[j].row /\ queue'[j].snap = queue[j].snap
    BY <1>5, <1>7
  <2> QED
    BY <1>7, <2>1 DEF QueueGrow
<1>9. Grows /\ NoNewDone /\ DOMAIN copies' = DOMAIN copies
  BY <1>1, <1>2, <1>8, CopiesStay, RowsStay, SagasStay DEF Grows
<1>10. GoneFolder' /\ DoneIsRemoved'
  BY <1>2, <1>9, WorldSame
<1>11. B \in SUBSET Nat /\ B \subseteq pass[a].batch
  BY <1>1, PassIn DEF PassShape
<1>12. pass' = [pass EXCEPT ![a] = p]
  BY DEF SettleRow
<1> HIDE DEF B
<1>13. /\ p \in PassShape /\ p.batch = B /\ p.row = 0 /\ p.uid = NoUid
       /\ p.pc \in {"idle", "step"}
  BY <1>11, PassOverIs
<1> HIDE DEF p
<1>14. PassMoves(a) /\ pass'[a] = p
  BY <1>1, <1>12, <1>13, PassToIn
<1> QED
  BY <1>2, <1>9, <1>10, <1>11, <1>13, <1>14, QuietKeeps

-----------------------------------------------------------------------------
(* A sync, a mailbox that goes, and process death.                         *)

\* Rows go, and nothing else of them changes.
GoneRows(S) ==
    [r \in DOMAIN rows |-> IF r \in S THEN [rows[r] EXCEPT !.gone = TRUE] ELSE rows[r]]

LEMMA GoneGrows ==
    ASSUME Shapes, NEW S, rows' = GoneRows(S)
    PROVE  RowsGrow
<1> DEFINE new(r) == IF r \in S THEN [rows[r] EXCEPT !.gone = TRUE] ELSE rows[r]
<1>1. \A r \in DOMAIN rows :
         new(r) \in RowShape /\ new(r).at = rows[r].at /\ new(r).uid = rows[r].uid
  BY RowIn, RowFields
<1>2. rows' = [r \in DOMAIN rows |-> new(r)]
  BY DEF GoneRows
<1> HIDE DEF new
<1>3. rows' \in [1 .. Len(rows) -> RowShape] /\ Len(rows) \in Nat /\ DOMAIN rows' = DOMAIN rows
  BY <1>1, <1>2, RowIn
<1>4. rows' \in Seq(RowShape)
  BY <1>3, FunIsSeq
<1>5. \A r \in DOMAIN rows : rows'[r] = new(r)
  BY <1>2
<1> QED
  BY <1>1, <1>3, <1>4, <1>5 DEF RowsGrow

LEMMA SyncVanishedKeeps ==
    ASSUME MoveInv, NEW a \in Accounts, SyncVanished(a)
    PROVE  Grows /\ MoveInv'
<1> DEFINE V == {r \in DOMAIN rows : Live(r) /\ rows[r].at = a
                    /\ rows[r].uid \notin OnServer(a) \cup {NoUid}}
<1>1. Shapes /\ Refs
  BY DEF MoveInv
<1>2. UNCHANGED <<world_vars, sagas, queue, pass, user_vars, faults>>
  BY DEF SyncVanished
<1>3. UNCHANGED copies /\ UNCHANGED sagas /\ UNCHANGED queue /\ UNCHANGED stack /\ UNCHANGED undo
  BY <1>2 DEF world_vars, user_vars
<1>4. RowsGrow
  <2>1. rows' = GoneRows(V)
    BY Zenon DEF SyncVanished, GoneRows
  <2> HIDE DEF V
  <2> QED
    BY <1>1, <2>1, GoneGrows
<1>5. Grows /\ NoNewDone
  BY <1>1, <1>3, <1>4, CopiesStay, SagasStay, QueueStays DEF Grows
<1>6. StackRefs' /\ UndoRefs'
  BY <1>1, <1>3, <1>5, GrowsStack, GrowsUndo DEF Refs, Grows
<1>7. RestShapes'
  BY <1>1, <1>2 DEF Shapes, RestShapes, world_vars, user_vars
<1> QED
  BY <1>2, <1>5, <1>6, <1>7, OutsideKeeps

LEMMA SyncAdoptsKeeps ==
    ASSUME MoveInv, NEW a \in Accounts, NEW r \in DOMAIN rows, NEW u \in DOMAIN copies,
           SyncAdopts(a, r, u)
    PROVE  Grows /\ MoveInv'
<1>1. Shapes /\ Refs
  BY DEF MoveInv
<1>2. UNCHANGED <<world_vars, sagas, queue, pass, user_vars, faults>>
  BY DEF SyncAdopts
<1>3. UNCHANGED copies /\ UNCHANGED sagas /\ UNCHANGED queue /\ UNCHANGED stack /\ UNCHANGED undo
  BY <1>2 DEF world_vars, user_vars
<1>4. Own(u, rows[r].at)
  BY DEF SyncAdopts, OnServer, Awaiting, Own
<1>5. rows' = WithUid(r, u) /\ u \in Nat
  BY <1>1, CopyUidIn DEF SyncAdopts, WithUid
<1>6. RowsGrow
  BY <1>1, <1>4, <1>5, UidGrows
<1>7. Grows /\ NoNewDone
  BY <1>1, <1>3, <1>6, CopiesStay, SagasStay, QueueStays DEF Grows
<1>8. StackRefs' /\ UndoRefs'
  BY <1>1, <1>3, <1>7, GrowsStack, GrowsUndo DEF Refs, Grows
<1>9. RestShapes'
  BY <1>1, <1>2 DEF Shapes, RestShapes, world_vars, user_vars
<1> QED
  BY <1>2, <1>7, <1>8, <1>9, OutsideKeeps

\* Only a mailbox that holds no copy goes.
LEMMA FolderRemovedKeeps ==
    ASSUME MoveInv, NEW a \in Accounts, FolderRemoved(a)
    PROVE  Grows /\ MoveInv'
<1> DEFINE V == {r \in DOMAIN rows : rows[r].at = a}
<1>1. Shapes /\ Refs
  BY DEF MoveInv
<1>2. UNCHANGED <<fixed_vars, copies, sagas, queue, pass, user_vars, faults>>
  BY DEF FolderRemoved
<1>3. /\ UNCHANGED copies /\ UNCHANGED sagas /\ UNCHANGED queue /\ UNCHANGED stack
      /\ UNCHANGED undo /\ UNCHANGED uidPlus /\ UNCHANGED pass
  BY <1>2 DEF user_vars, fixed_vars
<1>4. RowsGrow
  <2>1. rows' = GoneRows(V)
    BY DEF FolderRemoved, GoneRows
  <2> HIDE DEF V
  <2> QED
    BY <1>1, <2>1, GoneGrows
<1>5. Grows /\ NoNewDone
  BY <1>1, <1>3, <1>4, CopiesStay, SagasStay, QueueStays DEF Grows
<1>6. StackRefs' /\ UndoRefs'
  BY <1>1, <1>3, <1>5, GrowsStack, GrowsUndo DEF Refs, Grows
<1>7. folders' = folders \ {a} /\ OnServer(a) = {}
  BY DEF FolderRemoved
<1>8. RestShapes'
  BY <1>1, <1>2, <1>7 DEF Shapes, RestShapes, user_vars
<1>9. GoneFolder'
  <2>1. \A b : OnServer(b)' = OnServer(b)
    BY <1>3 DEF OnServer
  <2> QED
    BY <1>7, <2>1 DEF MoveInv, Removal, GoneFolder
<1>10. DoneIsRemoved'
  BY <1>1, <1>3, <1>5, GrowsDone DEF MoveInv, Removal
<1>11. PassRef(a)'
  BY <1>1, <1>3, <1>5, GrowsPass
<1>12. a \in uidPlus /\ pass'[a].pc = "finish" => copies'[pass'[a].uid].gone
  BY <1>3 DEF MoveInv, Removal, FinishGone
<1>13. \A b \in Accounts \ {a} : pass'[b] = pass[b]
  BY <1>3
<1> QED
  BY <1>2, <1>5, <1>6, <1>8, <1>9, <1>10, <1>11, <1>12, <1>13, StepKeeps

LEMMA CrashKeeps ==
    ASSUME MoveInv, Crash
    PROVE  Grows /\ MoveInv'
<1>1. Shapes /\ Refs /\ Removal
  BY DEF MoveInv
<1>2. /\ UNCHANGED <<fixed_vars, copies, folders, rows, sagas, queue, acts>>
      /\ UNCHANGED uidPlus /\ UNCHANGED copies
  BY DEF Crash, world_vars, fixed_vars
<1>3. Grows /\ NoNewDone
  BY <1>1, <1>2, NothingGrows
<1>4. pass' = [a \in Accounts |-> NoPass] /\ stack' = <<>> /\ undo' = NoUndo
  BY DEF Crash
<1>5. Shapes'
  <2>1. pass' \in [Accounts -> PassShape]
    BY <1>4, NoPassIn
  <2>2. stack' \in Seq(Nat)
    BY <1>4
  <2>3. /\ undo' = [sagas |-> undo'.sagas, read |-> undo'.read, writing |-> undo'.writing]
        /\ undo'.writing \in BOOLEAN
    BY <1>4 DEF NoUndo
  <2>4. faults' \in 0 .. MaxFaults
    BY <1>1 DEF Crash, Shapes
  <2> QED
    BY <1>1, <1>2, <2>1, <2>2, <2>3, <2>4 DEF Shapes, fixed_vars
<1>6. StackRefs' /\ UndoRefs'
  <2>1. DOMAIN stack' = {} /\ undo'.sagas = {}
    BY <1>4 DEF NoUndo
  <2> QED
    BY <2>1 DEF StackRefs, UndoRefs
<1>7. PassRefs' /\ FinishGone'
  <2>1. \A a \in Accounts : pass'[a] = NoPass
    BY <1>4
  <2>2. uidPlus' \subseteq Accounts
    BY <1>5 DEF Shapes
  <2> QED
    BY <2>1, <2>2, NoPassIn DEF PassRefs, PassRef, FinishGone
<1>8. RowRefs' /\ SagaRefs' /\ QueueRefs'
  BY <1>1, <1>3, GrowsRows, GrowsSagas, GrowsQueue DEF Refs, Grows
<1>9. OneRemoval' /\ GoneFolder' /\ DoneIsRemoved'
  <2>1. DOMAIN copies' = DOMAIN copies
    BY <1>2
  <2>2. UNCHANGED folders
    BY <1>2
  <2> QED
    BY <1>1, <1>2, <1>3, <2>1, <2>2, GrowsOneRemoval, GrowsGone, GrowsDone DEF Removal, Grows
<1> QED
  BY <1>3, <1>5, <1>6, <1>7, <1>8, <1>9 DEF MoveInv, Refs, Removal

-----------------------------------------------------------------------------
(* The inductive invariant holds.                                          *)

LEMMA InitKeeps == Init => MoveInv
<1> SUFFICES ASSUME Init PROVE MoveInv
  OBVIOUS
<1> DEFINE c == [at |-> Home, deleted |-> FALSE, gone |-> FALSE]
           r == [NewRow(Home) EXCEPT !.uid = 1]
<1>1. c \in CopyShape /\ c.at = Home
  BY DEF CopyShape
<1>2. r \in RowShape /\ r.at = Home /\ r.uid = 1
  BY NewRowShape DEF RowShape
<1>3. copies = <<c>> /\ rows = <<r>>
  BY DEF Init
<1> HIDE DEF c, r
<1>4. /\ copies \in Seq(CopyShape) /\ DOMAIN copies = {1} /\ copies[1] = c
      /\ rows \in Seq(RowShape) /\ DOMAIN rows = {1} /\ rows[1] = r
  BY <1>1, <1>2, <1>3
<1>5. /\ sagas \in Seq(SagaShape) /\ DOMAIN sagas = {}
      /\ queue \in Seq(QueueShape) /\ DOMAIN queue = {}
      /\ stack \in Seq(Nat) /\ DOMAIN stack = {}
  BY DEF Init
<1>6. /\ pass \in [Accounts -> PassShape]
      /\ \A a \in Accounts : pass[a] = NoPass
  BY NoPassIn DEF Init
<1>7. /\ undo = [sagas |-> undo.sagas, read |-> undo.read, writing |-> undo.writing]
      /\ undo.writing \in BOOLEAN /\ undo.sagas = {}
  BY DEF Init, NoUndo
<1>8. Shapes
  BY <1>4, <1>5, <1>6, <1>7 DEF Init, Shapes
<1>9. RowRefs /\ SagaRefs /\ QueueRefs /\ StackRefs /\ UndoRefs
  BY <1>1, <1>2, <1>4, <1>5, <1>7 DEF RowRefs, SagaRefs, QueueRefs, StackRefs, UndoRefs, Own
<1>10. PassRefs /\ FinishGone
  BY <1>6, <1>8, NoPassIn DEF PassRefs, PassRef, FinishGone, Shapes
<1>11. OneRemoval /\ GoneFolder /\ DoneIsRemoved
  BY <1>5 DEF OneRemoval, GoneFolder, DoneIsRemoved, Init
<1> QED
  BY <1>8, <1>9, <1>10, <1>11 DEF MoveInv, Refs, Removal

LEMMA NextKeeps == MoveInv /\ [Next]_vars => Grows /\ MoveInv'
<1> SUFFICES ASSUME MoveInv, [Next]_vars PROVE Grows /\ MoveInv'
  OBVIOUS
<1>1. CASE UserStep
  BY <1>1, OtherCommandKeeps, MoveKeeps, StartUndoKeeps, UndoStateKeeps DEF UserStep
<1>2. CASE UndoOne \/ CommitUndo
  BY <1>2, UndoOneKeeps, UndoStateKeeps
<1>3. ASSUME NEW a \in Accounts, DrainerStep(a) PROVE Grows /\ MoveInv'
  <2>1. CASE ListDue(a) \/ SettleMissing(a) \/ SettleRow(a)
    BY <2>1, ListDueKeeps, SettleMissingKeeps, SettleRowKeeps
  <2>2. CASE \E i \in DOMAIN queue : CopyBegin(a, i) \/ RemoveBegin(a, i)
    BY <2>2, CopyBeginKeeps, RemoveBeginKeeps
  <2>3. CASE CopyStep(a)
    BY <2>3, CopySearchKeeps, CopyAppendKeeps, CopyProveKeeps, ConfirmKeeps, RecordUidKeeps
       DEF CopyStep
  <2>4. CASE RemoveStep(a)
    BY <2>4, RemoveMarkKeeps, RemoveExpungeKeeps, RemoveFinishKeeps DEF RemoveStep
  <2> QED
    BY <1>3, <2>1, <2>2, <2>3, <2>4 DEF DrainerStep
<1>4. ASSUME NEW a \in Accounts, SyncStep(a) PROVE Grows /\ MoveInv'
  BY <1>4, SyncVanishedKeeps, FolderRemovedKeeps, SyncAdoptsKeeps DEF SyncStep
<1>5. CASE Crash
  BY <1>5, CrashKeeps
<1>6. CASE UNCHANGED vars
  <2>1. Shapes /\ Refs
    BY DEF MoveInv
  <2>2. UNCHANGED <<world_vars, pass>> /\ UNCHANGED <<copies, rows, sagas, queue>>
        /\ UNCHANGED <<stack, undo, acts, faults, folders>>
    BY <1>6 DEF vars, world_vars, user_vars
  <2>3. Grows /\ NoNewDone
    BY <2>1, <2>2, NothingGrows
  <2>4. StackRefs' /\ UndoRefs'
    BY <2>1, <2>2, <2>3, GrowsStack, GrowsUndo DEF Refs, Grows
  <2>5. RestShapes'
    BY <2>1, <2>2 DEF Shapes, RestShapes
  <2> QED
    BY <2>2, <2>3, <2>4, <2>5, OutsideKeeps
<1> QED
  BY <1>1, <1>2, <1>3, <1>4, <1>5, <1>6 DEF Next

THEOREM MoveInvHolds == Spec => []MoveInv
<1>1. Init => MoveInv
  BY InitKeeps
<1>2. MoveInv /\ [Next]_vars => MoveInv'
  BY NextKeeps
<1> QED
  BY <1>1, <1>2, PTL DEF Spec

-----------------------------------------------------------------------------
(* What it says of the properties the runs check.                          *)

\* A sequence holds what its elements are.
LEMMA SeqIn ==
    ASSUME NEW S, NEW T, NEW s \in Seq(S), \A i \in DOMAIN s : s[i] \in T
    PROVE  s \in Seq(T)
<1>1. s \in [1 .. Len(s) -> T] /\ Len(s) \in Nat
  BY ElementIn
<1> QED
  BY <1>1, FunIsSeq

LEMMA MoveTypes == MoveInv => TypeOK
<1> SUFFICES ASSUME MoveInv PROVE TypeOK
  OBVIOUS
<1>1. Shapes /\ Refs
  BY DEF MoveInv
<1>2. DOMAIN copies = 1 .. Len(copies) /\ Len(copies) \in Nat
  BY <1>1, ElementIn DEF Shapes
<1>3. \A u \in DOMAIN copies \cup {NoUid} : u \in 0 .. Len(copies)
  BY <1>2 DEF NoUid
<1>4. DOMAIN queue = 1 .. Len(queue) /\ Len(queue) \in Nat
  BY <1>1, QueueIn
<1>5. copies \in Seq([at : Accounts, deleted : BOOLEAN, gone : BOOLEAN])
  BY <1>1 DEF Shapes, CopyShape
<1>6. rows \in Seq(Rows)
  <2>1. \A r \in DOMAIN rows : rows[r] \in Rows
    <3> TAKE r \in DOMAIN rows
    <3>1. rows[r] \in RowShape
      BY <1>1, RowIn
    <3>2. rows[r].uid \in 0 .. Len(copies)
      BY <1>1, <1>3 DEF Refs, RowRefs, Own
    <3> QED
      BY <3>1, <3>2 DEF RowShape, Rows
  <2> QED
    BY <1>1, <2>1, SeqIn DEF Shapes
<1>7. sagas \in Seq([src : DOMAIN rows, dst : DOMAIN rows, phase : Phases])
  <2>1. \A s \in DOMAIN sagas : sagas[s] \in [src : DOMAIN rows, dst : DOMAIN rows, phase : Phases]
    <3> TAKE s \in DOMAIN sagas
    <3>1. sagas[s] \in SagaShape
      BY <1>1, SagaIn
    <3>2. sagas[s].src \in DOMAIN rows /\ sagas[s].dst \in DOMAIN rows
      BY <1>1 DEF Refs, SagaRefs
    <3> QED
      BY <3>1, <3>2 DEF SagaShape
  <2> QED
    BY <1>1, <2>1, SeqIn DEF Shapes
<1>8. queue \in Seq(QueueRows)
  <2>1. \A i \in DOMAIN queue : queue[i] \in QueueRows
    <3> TAKE i \in DOMAIN queue
    <3>1. queue[i] \in QueueShape
      BY <1>1, QueueIn
    <3>2. queue[i].saga \in DOMAIN sagas /\ queue[i].row \in DOMAIN rows
      BY <1>1 DEF Refs, QueueRefs
    <3>3. queue[i].snap \in 0 .. Len(copies)
      BY <1>1, <1>3 DEF Refs, QueueRefs, Own
    <3> QED
      BY <3>1, <3>2, <3>3 DEF QueueShape, QueueRows
  <2> QED
    BY <1>1, <2>1, SeqIn DEF Shapes
<1>9. pass \in [Accounts -> Passes]
  <2>1. \A a \in Accounts : pass[a] \in Passes
    <3> TAKE a \in Accounts
    <3>1. pass[a] \in PassShape /\ PassRef(a)
      BY <1>1, PassIn DEF Refs, PassRefs
    <3>2. pass[a].batch \in SUBSET DOMAIN queue
      BY <3>1 DEF PassRef
    <3>3. pass[a].row \in 0 .. Len(queue)
      BY <1>4, <3>1 DEF PassRef
    <3>4. pass[a].uid \in 0 .. Len(copies)
      BY <1>3, <3>1 DEF PassRef
    <3> QED
      BY <3>1, <3>2, <3>3, <3>4 DEF PassShape, Passes
  <2> QED
    BY <1>1, <2>1 DEF Shapes
<1>10. stack \in Seq(DOMAIN rows)
  BY <1>1, SeqIn DEF Shapes, Refs, StackRefs
<1>11. undo.sagas \subseteq DOMAIN sagas
  BY <1>1 DEF Refs, UndoRefs
<1> QED
  BY <1>1, <1>5, <1>6, <1>7, <1>8, <1>9, <1>10, <1>11 DEF Shapes, TypeOK

\* Every variable holds what the source's types allow, and every reference
\* between rows, sagas, queue rows and copies resolves, whatever the drainers,
\* the user, a sync and a crash do in between (cross_account.rs, the saga
\* repository).
THEOREM TypeCorrect == Spec => []TypeOK
BY MoveInvHolds, MoveTypes, PTL

\* A row, and a removal's snapshot of one, never names a copy of another
\* account's server: no row takes the UID another server minted (confirm and
\* record in cross_account.rs, find_awaiting_identity in the sync).
THEOREM RowIdentityIsOwn == Spec => []IdentityIsOwn
<1>1. MoveInv => IdentityIsOwn
  BY DEF MoveInv, Refs, RowRefs, QueueRefs, Own, IdentityIsOwn
<1> QED
  BY <1>1, MoveInvHolds, PTL

\* A move recorded Done has removed the original it knew of, where the server
\* can expunge one message (remove in cross_account.rs).
THEOREM DoneHasRemoved == Spec => []DoneIsRemoved
<1>1. MoveInv => DoneIsRemoved
  BY DEF MoveInv, Removal
<1> QED
  BY <1>1, MoveInvHolds, PTL

-----------------------------------------------------------------------------
(* Where a step leaves the pass.                                           *)

\* Where a pass stands once it has listed what is due, or settled a row ...
LEMMA OverPass ==
    ASSUME MoveInv, NEW a \in Accounts, ListDue(a) \/ SettleMissing(a) \/ SettleRow(a)
    PROVE  PassMoves(a) /\ pass'[a].pc \in {"idle", "step"}
<1>1. Shapes
  BY DEF MoveInv
<1>2. PICK p : /\ p = NoPass \/ \E B \in SUBSET Nat : p = PassOver(B)
               /\ pass' = [pass EXCEPT ![a] = p]
  <2>1. CASE ListDue(a)
    <3>1. PICK waiting : pass' = [pass EXCEPT ![a] = PassOver(RowsOf(a) \ waiting)]
      BY <2>1 DEF ListDue
    <3> DEFINE B == RowsOf(a) \ waiting
    <3>2. B \in SUBSET Nat
      BY <1>1, QueueIn DEF RowsOf
    <3>3. pass' = [pass EXCEPT ![a] = PassOver(B)]
      BY <3>1
    <3> HIDE DEF B
    <3> QED
      BY <3>2, <3>3
  <2>2. CASE SettleMissing(a) \/ SettleRow(a)
    <3> DEFINE B == pass[a].batch \ {pass[a].row}
    <3>1. B \in SUBSET Nat
      BY <1>1, PassIn DEF PassShape
    <3>2. pass' = [pass EXCEPT ![a] = NoPass] \/ pass' = [pass EXCEPT ![a] = PassOver(B)]
      BY <2>2 DEF SettleMissing, SettleRow
    <3> HIDE DEF B
    <3> QED
      BY <3>1, <3>2
  <2> QED
    BY <2>1, <2>2
<1>3. p \in PassShape /\ p.pc \in {"idle", "step"}
  BY <1>2, NoPassIn, PassOverIs
<1> QED
  BY <1>1, <1>2, <1>3, PassToIn

\* ... and once it has begun one: with the row's first exchange before it, or
\* the row to settle.
LEMMA CopyBeginPass ==
    ASSUME MoveInv, NEW a \in Accounts, NEW i, CopyBegin(a, i)
    PROVE  PassMoves(a) /\ pass'[a].pc \in {"search", "settle"}
<1> DEFINE ph == sagas[queue[i].saga].phase
           p == [pass[a] EXCEPT !.row = i, !.pc = "search", !.seen = ph]
<1>1. Shapes
  BY DEF MoveInv
<1>2. i \in DOMAIN queue /\ queue[i].saga \in DOMAIN sagas /\ i \in Nat
  <2>1. IsNext(a, i)
    BY DEF CopyBegin
  <2>2. i \in DOMAIN queue /\ queue[i].saga \in DOMAIN sagas
    BY <2>1, NextIn
  <2> QED
    BY <1>1, <2>2, QueueIn
<1>3. \/ \E o \in Outcomes : Settled(a, i, o)
      \/ pass' = [pass EXCEPT ![a] = p]
  BY DEF CopyBegin, Outcomes
<1>4. CASE pass' = [pass EXCEPT ![a] = p]
  <2>1. pass[a] \in PassShape
    BY <1>1, PassIn
  <2>2. ph \in Phases
    <3>1. sagas[queue[i].saga] \in SagaShape
      BY <1>1, <1>2, SagaIn
    <3> QED
      BY <3>1 DEF SagaShape
  <2> HIDE DEF ph
  <2>3. p \in PassShape /\ p.pc = "search"
    BY <1>2, <2>1, <2>2 DEF PassShape
  <2> HIDE DEF p
  <2> QED
    BY <1>1, <1>4, <2>3, PassToIn
<1> QED
  BY <1>1, <1>2, <1>3, <1>4, SettledIs

LEMMA RemoveBeginPass ==
    ASSUME MoveInv, NEW a \in Accounts, NEW i, RemoveBegin(a, i)
    PROVE  /\ PassMoves(a)
           /\ \/ pass'[a].pc = "settle"
              \/ /\ pass'[a].pc = "mark" /\ pass'[a].row = i
                 /\ sagas[queue[i].saga].phase = "Confirmed" /\ UNCHANGED sagas
<1> DEFINE ph == sagas[queue[i].saga].phase
           src == sagas[queue[i].saga].src
           uid == IF queue[i].snap # NoUid THEN queue[i].snap
                  ELSE IF Live(src) THEN rows[src].uid ELSE NoUid
           p == [pass[a] EXCEPT !.row = i, !.pc = "mark", !.uid = uid]
<1>1. Shapes
  BY DEF MoveInv
<1>2. i \in DOMAIN queue /\ queue[i].saga \in DOMAIN sagas /\ i \in Nat
  <2>1. IsNext(a, i)
    BY DEF RemoveBegin
  <2>2. i \in DOMAIN queue /\ queue[i].saga \in DOMAIN sagas
    BY <2>1, NextIn
  <2> QED
    BY <1>1, <2>2, QueueIn
<1>3. ph \in Phases
  <2>1. sagas[queue[i].saga] \in SagaShape
    BY <1>1, <1>2, SagaIn
  <2> QED
    BY <2>1 DEF SagaShape
<1>4. \/ \E o \in Outcomes : Settled(a, i, o)
      \/ pass' = [pass EXCEPT ![a] = p] /\ UNCHANGED sagas /\ ph = "Confirmed"
  BY <1>3 DEF RemoveBegin, Outcomes, Phases, Waits
<1>5. CASE \E o \in Outcomes : Settled(a, i, o)
  BY <1>1, <1>2, <1>5, SettledIs
<1>6. CASE pass' = [pass EXCEPT ![a] = p] /\ UNCHANGED sagas /\ ph = "Confirmed"
  <2>1. pass[a] \in PassShape
    BY <1>1, PassIn
  <2>2. uid \in Nat
    <3>1. queue[i] \in QueueShape
      BY <1>1, <1>2, QueueIn
    <3>2. src \in DOMAIN rows
      BY <1>2 DEF MoveInv, Refs, SagaRefs
    <3>3. rows[src] \in RowShape
      BY <1>1, <3>2, RowIn
    <3> QED
      BY <3>1, <3>3 DEF QueueShape, RowShape, NoUid
  <2> HIDE DEF uid
  <2>3. p \in PassShape /\ p.pc = "mark" /\ p.row = i
    BY <1>2, <2>1, <2>2 DEF PassShape
  <2> HIDE DEF p
  <2> QED
    BY <1>1, <1>6, <2>3, PassToIn
<1> QED
  BY <1>4, <1>5, <1>6

-----------------------------------------------------------------------------
(* One copy each: phase 1 is idempotent by Message-ID.                    *)

\* An upload begins where the search found nothing, and the drainer of an account
\* is the only one that adds to its server.
AppendClear == \A a \in Accounts : pass[a].pc = "append" => OnServer(a) = {}
Alone       == \A a \in Accounts : \A u, v \in OnServer(a) : u = v
OneInv      == hasMessageId => AppendClear /\ Alone

\* What a pass copies, it copies to its own account's server.
LEMMA OwnTarget ==
    ASSUME MoveInv, NEW a \in Accounts, pass[a].pc \in {"search", "append", "prove", "confirm", "record"}
    PROVE  Target(a) = a
<1>1. pass[a].row \in DOMAIN queue /\ Copies(a, pass[a].row)
  BY DEF MoveInv, Refs, PassRefs, PassRef
<1>2. queue[pass[a].row].row = sagas[SagaOf(a)].dst
  BY <1>1 DEF MoveInv, Refs, QueueRefs, Copies, SagaOf
<1> QED
  BY <1>1, <1>2 DEF Copies, Target

\* No server gains a copy, and no pass comes to an upload.
Shrinks     == \A a \in Accounts : OnServer(a)' \subseteq OnServer(a)
NoNewUpload == \A a \in Accounts : pass'[a].pc = "append" => pass[a].pc = "append"

LEMMA ShrinkKeeps ==
    ASSUME OneInv, Shrinks, NoNewUpload, UNCHANGED hasMessageId
    PROVE  OneInv'
BY DEF OneInv, AppendClear, Alone, Shrinks, NoNewUpload

LEMMA CopiesSame ==
    ASSUME UNCHANGED copies
    PROVE  \A a \in Accounts : OnServer(a)' = OnServer(a)
BY DEF OnServer

\* A pass that moves to anything but an upload.
LEMMA PassTo ==
    ASSUME NEW a \in Accounts, PassMoves(a), pass'[a].pc # "append"
    PROVE  NoNewUpload
BY DEF PassMoves, NoNewUpload

LEMMA EndUpload ==
    ASSUME Shapes, NEW a \in Accounts, NEW o \in Outcomes, End(a, o)
    PROVE  NoNewUpload
<1>1. PassMoves(a) /\ pass'[a].pc = "settle"
  BY EndIs
<1> QED
  BY <1>1, PassTo

LEMMA SettledUpload ==
    ASSUME Shapes, NEW a \in Accounts, NEW i \in Nat, NEW o \in Outcomes, Settled(a, i, o)
    PROVE  NoNewUpload
<1>1. PassMoves(a) /\ pass'[a].pc = "settle"
  BY SettledIs
<1> QED
  BY <1>1, PassTo

LEMMA GoUpload ==
    ASSUME Shapes, NEW a \in Accounts, NEW q \in Pcs \ {"append"}, Go(a, q)
    PROVE  NoNewUpload
<1>1. PassMoves(a) /\ pass'[a].pc = q
  BY GoIs
<1> QED
  BY <1>1, PassTo

LEMMA FoundUpload ==
    ASSUME Shapes, NEW a \in Accounts, NEW u \in Nat, FoundAt(a, u)
    PROVE  NoNewUpload
<1>1. PassMoves(a) /\ pass'[a].pc = "confirm"
  BY FoundAtIs
<1> QED
  BY <1>1, PassTo

LEMMA OverUpload ==
    ASSUME MoveInv, NEW a \in Accounts, ListDue(a) \/ SettleMissing(a) \/ SettleRow(a)
    PROVE  NoNewUpload /\ UNCHANGED <<copies, hasMessageId>>
<1>1. NoNewUpload
  BY OverPass, PassTo
<1> QED
  BY <1>1 DEF ListDue, SettleMissing, SettleRow, world_vars, fixed_vars

LEMMA BeginUpload ==
    ASSUME MoveInv, NEW a \in Accounts, NEW i, CopyBegin(a, i) \/ RemoveBegin(a, i)
    PROVE  NoNewUpload /\ UNCHANGED <<copies, hasMessageId>>
<1>1. PassMoves(a) /\ pass'[a].pc # "append"
  BY CopyBeginPass, RemoveBeginPass
<1>2. NoNewUpload
  BY <1>1, PassTo
<1> QED
  BY <1>2 DEF CopyBegin, RemoveBegin, world_vars, fixed_vars

\* What is not there is not there, and the upload it leads to is of a's own.
LEMMA CopySearchOne ==
    ASSUME MoveInv, OneInv, NEW a \in Accounts, CopySearch(a)
    PROVE  OneInv'
<1>1. Shapes
  BY DEF MoveInv
<1>2. UNCHANGED <<copies, hasMessageId>>
  BY DEF CopySearch, world_vars, fixed_vars
<1>3. \A b \in Accounts : OnServer(b)' = OnServer(b)
  BY <1>2, CopiesSame
<1>4. CASE Go(a, "append") /\ Findable(a) = {}
  <2>1. Target(a) = a
    BY OwnTarget DEF CopySearch, At
  <2>2. hasMessageId => OnServer(a) = {}
    BY <1>4, <2>1 DEF Findable
  <2>3. \A b \in Accounts \ {a} : pass'[b] = pass[b]
    BY <1>1, <1>4, GoIs DEF PassMoves, Pcs
  <2> QED
    BY <1>2, <1>3, <2>2, <2>3 DEF OneInv, AppendClear, Alone
<1>5. CASE Findable(a) # {} /\ FoundAt(a, Greatest(Findable(a)))
  <2>1. Greatest(Findable(a)) \in Nat
    BY <1>1, <1>5, FindableIn, CopyUidIn
  <2>2. NoNewUpload
    BY <1>1, <1>5, <2>1, FoundUpload
  <2> QED
    BY <1>2, <1>3, <2>2, ShrinkKeeps DEF Shrinks
<1>6. CASE End(a, "Failed") \/ End(a, "Retry")
  <2>1. NoNewUpload
    BY <1>1, <1>6, EndUpload DEF Outcomes
  <2> QED
    BY <1>2, <1>3, <2>1, ShrinkKeeps DEF Shrinks
<1> QED
  BY <1>4, <1>5, <1>6 DEF CopySearch

\* The one upload lands where there was nothing.
LEMMA CopyAppendOne ==
    ASSUME MoveInv, OneInv, NEW a \in Accounts, CopyAppend(a)
    PROVE  OneInv'
<1> DEFINE n == Len(copies) + 1
           c == [at |-> Target(a), deleted |-> FALSE, gone |-> FALSE]
<1>1. Shapes
  BY DEF MoveInv
<1>2. UNCHANGED hasMessageId /\ pass[a].pc = "append"
  BY DEF CopyAppend, At, fixed_vars
<1>3. CASE End(a, "Retry") /\ UNCHANGED copies
  <2>1. NoNewUpload
    BY <1>1, <1>3, EndUpload DEF Outcomes
  <2> QED
    BY <1>2, <1>3, <2>1, CopiesSame, ShrinkKeeps DEF Shrinks
<1>4. CASE Target(a) \in folders /\ copies' = Append(copies, c)
           /\ (FoundAt(a, n) \/ Go(a, "prove") \/ End(a, "Retry"))
  <2>1. Target(a) = a
    BY <1>2, OwnTarget
  <2>2. c \in CopyShape /\ c.at = a
    BY <2>1 DEF CopyShape
  <2>3. Len(copies) \in Nat /\ n \in Nat
    BY <1>1, ElementIn DEF Shapes
  <2> HIDE DEF c
  <2>4. LET t == Append(copies, c) IN
        /\ t \in Seq(CopyShape) /\ DOMAIN t = DOMAIN copies \cup {Len(copies) + 1}
        /\ \A u \in DOMAIN copies : t[u] = copies[u]
        /\ t[Len(copies) + 1] = c
        /\ Len(copies) + 1 \notin DOMAIN copies /\ DOMAIN copies \subseteq DOMAIN t
    BY <1>1, <2>2, AppendIn DEF Shapes
  <2>5. /\ DOMAIN copies' = DOMAIN copies \cup {n}
        /\ \A u \in DOMAIN copies : copies'[u] = copies[u]
        /\ copies'[n] = c
    BY <1>4, <2>4, Zenon
  <2>6. PassMoves(a) /\ pass'[a].pc # "append"
    <3>1. CASE FoundAt(a, n)
      BY <1>1, <2>3, <3>1, FoundAtIs
    <3>2. CASE Go(a, "prove")
      BY <1>1, <3>2, GoIs DEF Pcs
    <3>3. CASE End(a, "Retry")
      BY <1>1, <3>3, EndIs DEF Outcomes
    <3> QED
      BY <1>4, <3>1, <3>2, <3>3
  <2> HIDE DEF n
  <2>7. \A b \in Accounts : OnServer(b)' \subseteq (OnServer(b) \cup (IF b = a THEN {n} ELSE {}))
    BY <2>2, <2>5 DEF OnServer
  <2>8. \A b \in Accounts \ {a} : pass'[b] = pass[b]
    BY <2>6 DEF PassMoves
  <2>9. hasMessageId => OnServer(a) = {}
    BY <1>2 DEF OneInv, AppendClear
  <2>10. hasMessageId => AppendClear'
    BY <2>6, <2>7, <2>8 DEF OneInv, AppendClear
  <2>11. hasMessageId => Alone'
    BY <2>7, <2>9 DEF OneInv, Alone
  <2> QED
    BY <1>2, <2>10, <2>11 DEF OneInv
<1> QED
  BY <1>3, <1>4 DEF CopyAppend

\* The steps of a pass that neither look for a copy nor upload one.
LEMMA CopyRestUpload ==
    ASSUME MoveInv, NEW a \in Accounts, CopyProve(a) \/ Confirm(a) \/ RecordUid(a)
    PROVE  NoNewUpload /\ UNCHANGED <<copies, hasMessageId>>
<1>1. Shapes
  BY DEF MoveInv
<1>2. UNCHANGED <<copies, hasMessageId>>
  BY DEF CopyProve, Confirm, RecordUid, world_vars, fixed_vars
<1>3. \/ Findable(a) # {} /\ FoundAt(a, Greatest(Findable(a)))
      \/ Go(a, "record")
      \/ \E o \in Outcomes : End(a, o)
  BY DEF CopyProve, Confirm, RecordUid, Outcomes
<1>4. ASSUME Findable(a) # {}, FoundAt(a, Greatest(Findable(a))) PROVE NoNewUpload
  <2>1. Greatest(Findable(a)) \in Nat
    BY <1>1, <1>4, FindableIn, CopyUidIn
  <2> QED
    BY <1>1, <1>4, <2>1, FoundUpload
<1>5. ASSUME Go(a, "record") PROVE NoNewUpload
  BY <1>1, <1>5, GoUpload DEF Pcs
<1>6. NoNewUpload
  BY <1>1, <1>3, <1>4, <1>5, EndUpload
<1> QED
  BY <1>2, <1>6

\* A removal only takes from a server.
LEMMA RemoveShrinks ==
    ASSUME MoveInv, NEW a \in Accounts, RemoveStep(a)
    PROVE  NoNewUpload /\ Shrinks /\ UNCHANGED hasMessageId
<1>1. Shapes
  BY DEF MoveInv
<1>2. \/ \E q \in Pcs \ {"append"} : Go(a, q)
      \/ \E o \in Outcomes : End(a, o)
  BY DEF RemoveStep, RemoveMark, RemoveExpunge, RemoveFinish, Pcs, Outcomes
<1>3. NoNewUpload
  BY <1>1, <1>2, GoUpload, EndUpload
<1>4. \/ UNCHANGED copies
      \/ \E u \in DOMAIN copies : copies' = [copies EXCEPT ![u].deleted = TRUE]
      \/ \E u \in DOMAIN copies : copies' = [copies EXCEPT ![u].gone = TRUE]
  <2>1. pass[a].pc \in {"mark", "expunge"} => pass[a].uid \in DOMAIN copies
    BY DEF MoveInv, Refs, PassRefs, PassRef, Own
  <2> QED
    BY <2>1 DEF RemoveStep, RemoveMark, RemoveExpunge, RemoveFinish, MarkDeleted, At, world_vars
<1>5. Shrinks
  <2>1. CASE UNCHANGED copies
    BY <2>1, CopiesSame DEF Shrinks
  <2>2. CASE \E u \in DOMAIN copies : copies' = [copies EXCEPT ![u].deleted = TRUE]
    BY <1>1, <2>2, CopyIn DEF Shrinks, OnServer, CopyShape
  <2>3. CASE \E u \in DOMAIN copies : copies' = [copies EXCEPT ![u].gone = TRUE]
    BY <1>1, <2>3, CopyIn DEF Shrinks, OnServer, CopyShape
  <2> QED
    BY <1>4, <2>1, <2>2, <2>3
<1> QED
  BY <1>3, <1>5 DEF RemoveStep, RemoveMark, RemoveExpunge, RemoveFinish, world_vars, fixed_vars

LEMMA NextOne == MoveInv /\ OneInv /\ [Next]_vars => OneInv'
<1> SUFFICES ASSUME MoveInv, OneInv, [Next]_vars PROVE OneInv'
  OBVIOUS
<1>0. ASSUME NoNewUpload, UNCHANGED <<copies, hasMessageId>> PROVE OneInv'
  BY <1>0, CopiesSame, ShrinkKeeps DEF Shrinks
<1>1. CASE UNCHANGED <<world_vars, pass>>
  BY <1>0, <1>1 DEF NoNewUpload, world_vars, fixed_vars
<1>2. CASE UserStep \/ UndoOne \/ CommitUndo \/ UNCHANGED vars
  BY <1>1, <1>2 DEF UserStep, OtherCommand, Move, StartUndo, RefuseUndo, BeginUndo, UndoOne,
                    CommitUndo, vars
<1>3. ASSUME NEW a \in Accounts, DrainerStep(a) PROVE OneInv'
  <2>1. CASE ListDue(a) \/ SettleMissing(a) \/ SettleRow(a)
    BY <1>0, <2>1, OverUpload
  <2>2. CASE \E i \in DOMAIN queue : CopyBegin(a, i) \/ RemoveBegin(a, i)
    BY <1>0, <2>2, BeginUpload
  <2>3. CASE CopyStep(a)
    BY <1>0, <2>3, CopySearchOne, CopyAppendOne, CopyRestUpload DEF CopyStep
  <2>4. CASE RemoveStep(a)
    BY <2>4, RemoveShrinks, ShrinkKeeps
  <2> QED
    BY <1>3, <2>1, <2>2, <2>3, <2>4 DEF DrainerStep
<1>4. ASSUME NEW a \in Accounts, SyncStep(a) PROVE OneInv'
  BY <1>0, <1>4 DEF SyncStep, SyncVanished, SyncAdopts, FolderRemoved, world_vars, fixed_vars,
                    NoNewUpload
<1>5. CASE Crash
  <2>1. NoNewUpload
    BY <1>5, NoPassIn DEF Crash, NoNewUpload
  <2> QED
    BY <1>0, <1>5, <2>1 DEF Crash, world_vars, fixed_vars
<1> QED
  BY <1>2, <1>3, <1>4, <1>5 DEF Next

\* A message with a Message-ID is on no server twice, by however many moves,
\* undos, retries, lost answers and restarts: the search before the upload
\* finds what an earlier attempt left there (copy in cross_account.rs).
THEOREM NoSecondCopy == Spec => []OneCopyEach
<1>1. Init => OneInv
  <2> SUFFICES ASSUME Init PROVE AppendClear /\ Alone
    BY DEF OneInv
  <2>1. AppendClear
    BY NoPassIn DEF Init, AppendClear
  <2>2. DOMAIN copies = {1}
    BY DEF Init
  <2> QED
    BY <2>1, <2>2 DEF Alone, OnServer
<1>2. MoveInv /\ OneInv => OneCopyEach
  <2> SUFFICES ASSUME MoveInv, OneInv, hasMessageId, NEW a \in Accounts
               PROVE  Cardinality(OnServer(a)) <= 1
    BY DEF OneCopyEach
  <2>1. \A u, v \in OnServer(a) : u = v
    BY DEF OneInv, Alone
  <2>2. CASE OnServer(a) = {}
    BY <2>2, FS_EmptySet
  <2>3. CASE OnServer(a) # {}
    <3>1. PICK u : OnServer(a) = {u}
      BY <2>1, <2>3
    <3>2. Cardinality({u}) = 1
      BY FS_Singleton, Zenon
    <3> QED
      BY <3>1, <3>2
  <2> QED
    BY <2>2, <2>3
<1>3. MoveInv /\ OneInv /\ [Next]_vars => OneInv'
  BY NextOne
<1> QED
  BY <1>1, <1>2, <1>3, MoveInvHolds, PTL DEF Spec

-----------------------------------------------------------------------------
(* What a step does to the sagas, the removals and the servers.            *)

From(s) == rows[sagas[s].src].at
To(s)   == rows[sagas[s].dst].at

\* The pass of a is about to take saga s's original from its server.
Takes(a, s) == pass[a].pc \in {"mark", "expunge"} /\ SagaOf(a) = s

\* A saga is confirmed by the target's drainer, given up by it or by an undo,
\* and finished only once confirmed.
PhaseStep(s) ==
    \/ sagas'[s].phase = sagas[s].phase
    \/ /\ sagas[s].phase \in {"Copying", "Unconfirmed"}
       /\ sagas'[s].phase = "Confirmed"
       /\ \E a \in Accounts : Confirm(a) /\ SagaOf(a) = s
    \/ /\ sagas[s].phase \in {"Copying", "Unconfirmed"}
       /\ sagas'[s].phase \in {"Unconfirmed", "Aborted"}
       /\ pass[To(s)].pc \in {"step", "prove"}
    \/ sagas[s].phase = "Confirmed" /\ sagas'[s].phase = "Done"
    \/ UndoOne /\ s \in undo.sagas /\ sagas'[s].phase = "Aborted"
PhaseSteps == \A s \in DOMAIN sagas : PhaseStep(s)

\* A removal begins on a confirmed saga.
TakeStep(a) == \A s : Takes(a, s)' =>
                  \/ Takes(a, s)
                  \/ /\ s \in DOMAIN sagas /\ sagas[s].phase = "Confirmed"
                     /\ UNCHANGED <<copies, sagas>>
TakeSteps == \A a \in Accounts : TakeStep(a)

\* No server loses a copy.
NoLoss == \A a \in Accounts : OnServer(a) \subseteq OnServer(a)'

LEMMA Frame ==
    ASSUME MoveInv, Grows, NEW s \in DOMAIN sagas
    PROVE  s \in DOMAIN sagas' /\ From(s)' = From(s) /\ To(s)' = To(s)
BY DEF MoveInv, Refs, SagaRefs, Grows, RowsGrow, SagasGrow, From, To

LEMMA SagaStays ==
    ASSUME MoveInv, Grows, NEW a \in Accounts, pass'[a].row = pass[a].row,
           pass[a].pc \notin {"idle", "step"}
    PROVE  SagaOf(a)' = SagaOf(a)
BY DEF MoveInv, Refs, PassRefs, PassRef, Grows, QueueGrow, SagaOf

LEMMA TakesIs ==
    ASSUME MoveInv, NEW a \in Accounts, NEW s, Takes(a, s)
    PROVE  s \in DOMAIN sagas /\ From(s) = a
BY DEF MoveInv, Refs, PassRefs, PassRef, QueueRefs, Takes, SagaOf, From

LEMMA CopiesTo ==
    ASSUME MoveInv, NEW a \in Accounts,
           pass[a].pc \in {"search", "append", "prove", "confirm", "record"}
    PROVE  SagaOf(a) \in DOMAIN sagas /\ To(SagaOf(a)) = a
<1>1. Target(a) = a
  BY OwnTarget
<1>2. pass[a].row \in DOMAIN queue
  BY DEF MoveInv, Refs, PassRefs, PassRef
<1> QED
  BY <1>1, <1>2 DEF MoveInv, Refs, QueueRefs, Target, To, SagaOf

LEMMA PhasesSame ==
    ASSUME UNCHANGED sagas
    PROVE  PhaseSteps
BY DEF PhaseSteps, PhaseStep

\* A pass that does not come to a removal.
LEMMA TakesNot ==
    ASSUME MoveInv, Grows,
           \A a \in Accounts : pass'[a] = pass[a] \/ pass'[a].pc \notin {"mark", "expunge"}
    PROVE  TakeSteps
<1> SUFFICES ASSUME NEW a \in Accounts, NEW s, Takes(a, s)'
             PROVE  Takes(a, s)
  BY DEF TakeSteps, TakeStep
<1>1. pass'[a] = pass[a]
  BY DEF Takes
<1>2. SagaOf(a)' = SagaOf(a)
  BY <1>1, SagaStays DEF Takes
<1> QED
  BY <1>1, <1>2 DEF Takes

LEMMA PassNot ==
    ASSUME MoveInv, Grows, NEW a \in Accounts, PassMoves(a),
           pass'[a].pc \notin {"mark", "expunge"}
    PROVE  TakeSteps
<1>1. \A b \in Accounts : pass'[b] = pass[b] \/ pass'[b].pc \notin {"mark", "expunge"}
  BY DEF PassMoves
<1> QED
  BY <1>1, TakesNot

LEMMA CopiesKept ==
    ASSUME UNCHANGED copies
    PROVE  NoLoss
BY DEF NoLoss, OnServer

\* What a step of a drainer, or of anyone, comes to.
Effects == PhaseSteps /\ TakeSteps /\ (NoLoss \/ \E a \in Accounts : RemoveExpunge(a))

\* A step that is nobody's removal and changes no phase.
LEMMA QuietEffects ==
    ASSUME MoveInv, Grows, UNCHANGED <<copies, sagas>>,
           \A a \in Accounts : pass'[a] = pass[a] \/ pass'[a].pc \notin {"mark", "expunge"}
    PROVE  Effects
BY TakesNot, CopiesKept, PhasesSame DEF Effects

LEMMA EndTakes ==
    ASSUME MoveInv, Grows, NEW a \in Accounts, NEW o \in Outcomes, End(a, o)
    PROVE  TakeSteps
<1>1. PassMoves(a) /\ pass'[a].pc = "settle"
  BY EndIs DEF MoveInv
<1> QED
  BY <1>1, PassNot

LEMMA GoTakes ==
    ASSUME MoveInv, Grows, NEW a \in Accounts, NEW q \in Pcs \ {"mark", "expunge"}, Go(a, q)
    PROVE  TakeSteps
<1>1. PassMoves(a) /\ pass'[a].pc = q
  BY GoIs DEF MoveInv
<1> QED
  BY <1>1, PassNot

LEMMA FoundTakes ==
    ASSUME MoveInv, Grows, NEW a \in Accounts, NEW u \in Nat, FoundAt(a, u)
    PROVE  TakeSteps
<1>1. PassMoves(a) /\ pass'[a].pc = "confirm"
  BY FoundAtIs DEF MoveInv
<1> QED
  BY <1>1, PassNot

LEMMA OverEffects ==
    ASSUME MoveInv, Grows, NEW a \in Accounts, ListDue(a) \/ SettleMissing(a) \/ SettleRow(a)
    PROVE  Effects
<1>1. PassMoves(a) /\ pass'[a].pc \notin {"mark", "expunge"}
  BY OverPass
<1>2. TakeSteps
  BY <1>1, PassNot
<1>3. UNCHANGED <<copies, sagas>>
  BY DEF ListDue, SettleMissing, SettleRow, world_vars
<1> QED
  BY <1>2, <1>3, CopiesKept, PhasesSame DEF Effects

LEMMA CopyBeginEffects ==
    ASSUME MoveInv, Grows, NEW a \in Accounts, NEW i, CopyBegin(a, i)
    PROVE  Effects
<1> DEFINE s == queue[i].saga
           ph == sagas[s].phase
<1>1. Shapes
  BY DEF MoveInv
<1>2. /\ i \in DOMAIN queue /\ s \in DOMAIN sagas /\ i \in Nat
      /\ rows[queue[i].row].at = a /\ pass[a].pc = "step"
  <2>1. IsNext(a, i)
    BY DEF CopyBegin
  <2>2. i \in DOMAIN queue /\ s \in DOMAIN sagas /\ rows[queue[i].row].at = a
    BY <2>1, NextIn
  <2> QED
    BY <1>1, <2>1, <2>2, QueueIn DEF IsNext, At
<1>3. To(s) = a
  BY <1>2 DEF CopyBegin, MoveInv, Refs, QueueRefs, To
<1>4. PassMoves(a) /\ pass'[a].pc \notin {"mark", "expunge"}
  BY CopyBeginPass
<1>5. TakeSteps
  BY <1>4, PassNot
<1>6. PhaseSteps
  <2>1. \/ UNCHANGED sagas
        \/ sagas' = WithPhase(s, "Aborted") /\ ph \in {"Copying", "Unconfirmed"}
    BY DEF CopyBegin, WithPhase
  <2>2. ASSUME sagas' = WithPhase(s, "Aborted"), ph \in {"Copying", "Unconfirmed"}
        PROVE  PhaseSteps
    <3>1. "Aborted" \in Phases
      BY DEF Phases
    <3>2. \A t \in DOMAIN sagas : /\ t # s => sagas'[t] = sagas[t]
                                  /\ t = s => sagas'[t].phase = "Aborted"
      BY <1>1, <2>2, <3>1, PhaseIn
    <3> QED
      BY <1>2, <1>3, <2>2, <3>2 DEF PhaseSteps, PhaseStep
  <2> QED
    BY <2>1, <2>2, PhasesSame
<1>7. UNCHANGED copies
  BY DEF CopyBegin, world_vars
<1> QED
  BY <1>5, <1>6, <1>7, CopiesKept DEF Effects

LEMMA RemoveBeginEffects ==
    ASSUME MoveInv, Grows, NEW a \in Accounts, NEW i, RemoveBegin(a, i)
    PROVE  Effects
<1> DEFINE s == queue[i].saga
           ph == sagas[s].phase
<1>1. Shapes
  BY DEF MoveInv
<1>2. i \in DOMAIN queue /\ s \in DOMAIN sagas /\ i \in Nat
  <2>1. IsNext(a, i)
    BY DEF RemoveBegin
  <2>2. i \in DOMAIN queue /\ queue[i].saga \in DOMAIN sagas
    BY <2>1, NextIn
  <2> QED
    BY <1>1, <2>2, QueueIn
<1>3. ph \in Phases
  <2>1. sagas[s] \in SagaShape
    BY <1>1, <1>2, SagaIn
  <2> QED
    BY <2>1 DEF SagaShape
<1>4. /\ PassMoves(a)
      /\ \/ pass'[a].pc = "settle"
         \/ /\ pass'[a].pc = "mark" /\ pass'[a].row = i
            /\ ph = "Confirmed" /\ UNCHANGED sagas
  BY RemoveBeginPass
<1>5. TakeSteps
  <2>1. ASSUME pass'[a].row = i, ph = "Confirmed", UNCHANGED sagas PROVE TakeSteps
    <3> SUFFICES ASSUME NEW b \in Accounts, NEW t, Takes(b, t)'
                 PROVE  \/ Takes(b, t)
                        \/ /\ t \in DOMAIN sagas /\ sagas[t].phase = "Confirmed"
                           /\ UNCHANGED <<copies, sagas>>
      BY DEF TakeSteps, TakeStep
    <3>1. CASE b = a
      <4>1. t = queue'[i].saga
        BY <2>1, <3>1 DEF Takes, SagaOf
      <4>2. t = s
        BY <4>1 DEF RemoveBegin
      <4> QED
        BY <1>2, <2>1, <4>2 DEF RemoveBegin, world_vars
    <3>2. CASE b # a
      <4>1. pass'[b] = pass[b]
        BY <1>4, <3>2 DEF PassMoves
      <4> QED
        BY <4>1, SagaStays DEF Takes
    <3> QED
      BY <3>1, <3>2
  <2> QED
    BY <1>4, <2>1, PassNot
<1>6. PhaseSteps
  <2>1. \/ UNCHANGED sagas
        \/ sagas' = WithPhase(s, "Done") /\ ph = "Confirmed"
    BY <1>3 DEF RemoveBegin, WithPhase, Phases, Waits
  <2>2. ASSUME sagas' = WithPhase(s, "Done"), ph = "Confirmed"
        PROVE  PhaseSteps
    <3>1. "Done" \in Phases
      BY DEF Phases
    <3>2. \A t \in DOMAIN sagas : /\ t # s => sagas'[t] = sagas[t]
                                  /\ t = s => sagas'[t].phase = "Done"
      BY <1>1, <2>2, <3>1, PhaseIn
    <3> QED
      BY <2>2, <3>2 DEF PhaseSteps, PhaseStep
  <2> QED
    BY <2>1, <2>2, PhasesSame
<1>7. UNCHANGED copies
  BY DEF RemoveBegin, world_vars
<1> QED
  BY <1>5, <1>6, <1>7, CopiesKept DEF Effects

LEMMA AppendAny ==
    ASSUME NEW S, NEW s \in Seq(S), NEW e
    PROVE  /\ DOMAIN s \subseteq DOMAIN Append(s, e)
           /\ \A j \in DOMAIN s : Append(s, e)[j] = s[j]
           /\ Len(Append(s, e)) = Len(s) + 1
<1>1. s \in Seq(S \cup {e}) /\ e \in S \cup {e}
  <2>1. DOMAIN s = 1 .. Len(s) /\ Len(s) \in Nat /\ \A i \in DOMAIN s : s[i] \in S
    BY ElementIn
  <2>2. s \in [1 .. Len(s) -> S \cup {e}]
    BY <2>1
  <2> QED
    BY <2>1, <2>2
<1> DEFINE t == Append(s, e)
<1>2. /\ DOMAIN t = DOMAIN s \cup {Len(s) + 1}
      /\ \A j \in DOMAIN s : t[j] = s[j]
  BY <1>1, AppendIn, ZenonT(40)
<1>3. Len(t) = Len(s) + 1
  BY <1>1, AppendProperties
<1> QED
  BY <1>2, <1>3

\* A copy step comes to no removal.
LEMMA CopyTakes ==
    ASSUME MoveInv, Grows, NEW a \in Accounts, CopyStep(a)
    PROVE  TakeSteps
<1>1. Shapes
  BY DEF MoveInv
<1>2. \/ Findable(a) # {} /\ FoundAt(a, Greatest(Findable(a)))
      \/ FoundAt(a, Len(copies) + 1)
      \/ \E q \in Pcs \ {"mark", "expunge"} : Go(a, q)
      \/ \E o \in Outcomes : End(a, o)
  BY DEF CopyStep, CopySearch, CopyAppend, CopyProve, Confirm, RecordUid, Pcs, Outcomes
<1>3. ASSUME Findable(a) # {}, FoundAt(a, Greatest(Findable(a))) PROVE TakeSteps
  <2>1. Greatest(Findable(a)) \in Nat
    BY <1>1, <1>3, FindableIn, CopyUidIn
  <2> QED
    BY <1>3, <2>1, FoundTakes
<1>4. ASSUME FoundAt(a, Len(copies) + 1) PROVE TakeSteps
  <2>1. Len(copies) + 1 \in Nat
    BY <1>1, ElementIn DEF Shapes
  <2> QED
    BY <1>4, <2>1, FoundTakes
<1> QED
  BY <1>2, <1>3, <1>4, GoTakes, EndTakes

LEMMA AdvanceOne ==
    ASSUME Shapes, NEW s \in DOMAIN sagas, NEW p \in Phases, Advance(s, p)
    PROVE  /\ \A t \in DOMAIN sagas : t # s => sagas'[t] = sagas[t]
           /\ \/ sagas'[s].phase = sagas[s].phase
              \/ Allows(sagas[s].phase, p) /\ sagas'[s].phase = p
<1>1. \/ sagas' = WithPhase(s, p) /\ Allows(sagas[s].phase, p)
      \/ UNCHANGED sagas
  BY DEF Advance, WithPhase
<1> QED
  BY <1>1, PhaseIn

LEMMA CopyProveEffects ==
    ASSUME MoveInv, Grows, NEW a \in Accounts, CopyProve(a)
    PROVE  PhaseSteps
<1> DEFINE s == SagaOf(a)
<1>1. s \in DOMAIN sagas /\ To(s) = a /\ pass[a].pc = "prove"
  BY CopiesTo DEF CopyProve, At
<1>2. UNCHANGED sagas \/ Advance(s, "Unconfirmed")
  BY DEF CopyProve
<1> HIDE DEF s
<1>3. ASSUME Advance(s, "Unconfirmed") PROVE PhaseSteps
  <2>1. Shapes /\ "Unconfirmed" \in Phases
    BY DEF MoveInv, Phases
  <2>2. /\ \A t \in DOMAIN sagas : t # s => sagas'[t] = sagas[t]
        /\ \/ sagas'[s].phase = sagas[s].phase
           \/ Allows(sagas[s].phase, "Unconfirmed") /\ sagas'[s].phase = "Unconfirmed"
    BY <1>1, <1>3, <2>1, AdvanceOne
  <2>3. Allows(sagas[s].phase, "Unconfirmed") => sagas[s].phase = "Copying"
    BY DEF Allows
  <2> QED
    BY <1>1, <2>2, <2>3 DEF PhaseSteps, PhaseStep
<1> QED
  BY <1>2, <1>3, PhasesSame

LEMMA ConfirmEffects ==
    ASSUME MoveInv, Grows, NEW a \in Accounts, Confirm(a)
    PROVE  PhaseSteps
<1> DEFINE s == SagaOf(a)
<1>1. s \in DOMAIN sagas
  BY CopiesTo DEF Confirm, At
<1>2. Shapes /\ "Confirmed" \in Phases
  BY DEF MoveInv, Phases
<1>3. Advance(s, "Confirmed")
  BY DEF Confirm
<1>4. \A t \in DOMAIN sagas : PhaseStep(t)
  <2> TAKE t \in DOMAIN sagas
  <2>1. CASE t # s
    <3> HIDE DEF s
    <3>1. sagas'[t] = sagas[t]
      BY <1>1, <1>2, <1>3, <2>1, AdvanceOne
    <3> QED
      BY <3>1 DEF PhaseStep
  <2>2. CASE t = s
    <3>1. \/ sagas'[s].phase = sagas[s].phase
          \/ Allows(sagas[s].phase, "Confirmed") /\ sagas'[s].phase = "Confirmed"
      <4> HIDE DEF s
      <4> QED
        BY <1>1, <1>2, <1>3, AdvanceOne
    <3>2. Allows(sagas[s].phase, "Confirmed") => sagas[s].phase \in {"Copying", "Unconfirmed"}
      BY DEF Allows
    <3> QED
      BY <2>2, <3>1, <3>2 DEF PhaseStep
  <2> QED
    BY <2>1, <2>2
<1> QED
  BY <1>4 DEF PhaseSteps

LEMMA CopyStepEffects ==
    ASSUME MoveInv, Grows, NEW a \in Accounts, CopyStep(a)
    PROVE  Effects
<1>1. PhaseSteps
  <2>1. CASE CopyProve(a)
    BY <2>1, CopyProveEffects
  <2>2. CASE Confirm(a)
    BY <2>2, ConfirmEffects
  <2>3. CASE UNCHANGED sagas
    BY <2>3, PhasesSame
  <2> QED
    BY <2>1, <2>2, <2>3 DEF CopyStep, CopySearch, CopyAppend, RecordUid
<1>2. NoLoss
  <2>1. CASE UNCHANGED copies
    BY <2>1, CopiesKept
  <2>2. CASE CopyAppend(a)
    <3> DEFINE c == [at |-> Target(a), deleted |-> FALSE, gone |-> FALSE]
    <3>1. CASE copies' = Append(copies, c)
      <4>1. copies \in Seq(CopyShape)
        BY DEF MoveInv, Shapes
      <4>2. \A u \in DOMAIN copies : u \in DOMAIN copies' /\ copies'[u] = copies[u]
        <5> HIDE DEF c
        <5>1. DOMAIN copies = 1 .. Len(copies) /\ Len(copies) \in Nat
          BY <4>1, LenProperties
        <5> QED
          BY <3>1, <4>1, <5>1, AppendAny
      <4> QED
        BY <4>2 DEF NoLoss, OnServer
    <3> QED
      BY <2>2, <3>1, CopiesKept DEF CopyAppend
  <2> QED
    BY <2>1, <2>2 DEF CopyStep, CopySearch, CopyProve, Confirm, RecordUid, world_vars
<1> QED
  BY <1>1, <1>2, CopyTakes DEF Effects

\* A removal under way stays with its saga; the server loses a copy at the
\* expunge alone.
LEMMA RemoveStepEffects ==
    ASSUME MoveInv, Grows, NEW a \in Accounts, RemoveStep(a)
    PROVE  Effects
<1>1. Shapes
  BY DEF MoveInv
<1>2. pass[a].pc \in {"mark", "expunge", "finish"}
  BY DEF RemoveStep, RemoveMark, RemoveExpunge, RemoveFinish, At
<1>3. \/ Go(a, "finish")
      \/ Go(a, "expunge") /\ pass[a].pc = "mark"
      \/ \E o \in Outcomes : End(a, o)
  BY DEF RemoveStep, RemoveMark, RemoveExpunge, RemoveFinish, Outcomes, At
<1>4. ASSUME Go(a, "expunge"), pass[a].pc = "mark" PROVE TakeSteps
  <2>1. PassMoves(a) /\ pass'[a].row = pass[a].row
    BY <1>1, <1>4, GoIs DEF Pcs
  <2> SUFFICES ASSUME NEW b \in Accounts, NEW s, Takes(b, s)'
               PROVE  Takes(b, s)
    BY DEF TakeSteps, TakeStep
  <2>2. CASE b = a
    <3>1. SagaOf(a)' = SagaOf(a)
      BY <1>4, <2>1, SagaStays
    <3> QED
      BY <1>4, <2>2, <3>1 DEF Takes
  <2>3. CASE b # a
    <3>1. pass'[b] = pass[b]
      BY <2>1, <2>3 DEF PassMoves
    <3>2. SagaOf(b)' = SagaOf(b)
      BY <3>1, SagaStays DEF Takes
    <3> QED
      BY <3>1, <3>2 DEF Takes
  <2> QED
    BY <2>2, <2>3
<1>5. TakeSteps
  BY <1>3, <1>4, GoTakes, EndTakes DEF Pcs
<1>6. PhaseSteps
  <2>1. CASE RemoveFinish(a)
    <3> DEFINE s == SagaOf(a)
    <3>1. s \in DOMAIN sagas
      <4>1. pass[a].row \in DOMAIN queue
        BY <1>2 DEF MoveInv, Refs, PassRefs, PassRef
      <4> QED
        BY <4>1 DEF MoveInv, Refs, QueueRefs, SagaOf
    <3>2. Advance(s, "Done")
      BY <2>1 DEF RemoveFinish
    <3> HIDE DEF s
    <3>3. "Done" \in Phases
      BY DEF Phases
    <3>4. /\ \A t \in DOMAIN sagas : t # s => sagas'[t] = sagas[t]
          /\ \/ sagas'[s].phase = sagas[s].phase
             \/ Allows(sagas[s].phase, "Done") /\ sagas'[s].phase = "Done"
      BY <1>1, <3>1, <3>2, <3>3, AdvanceOne
    <3>5. Allows(sagas[s].phase, "Done") => sagas[s].phase = "Confirmed"
      BY DEF Allows
    <3> QED
      BY <3>4, <3>5 DEF PhaseSteps, PhaseStep
  <2>2. CASE UNCHANGED sagas
    BY <2>2, PhasesSame
  <2> QED
    BY <2>1, <2>2 DEF RemoveStep, RemoveMark, RemoveExpunge
<1>7. NoLoss \/ RemoveExpunge(a)
  <2>1. CASE UNCHANGED copies
    BY <2>1, CopiesKept
  <2>2. CASE RemoveMark(a) /\ MarkDeleted(pass[a].uid)
    BY <1>1, <2>2, CopyIn DEF MarkDeleted, NoLoss, OnServer, CopyShape
  <2> QED
    BY <2>1, <2>2 DEF RemoveStep, RemoveMark, RemoveFinish, world_vars
<1> QED
  BY <1>5, <1>6, <1>7 DEF Effects

\* What one saga of an undo does to the sagas.
LEMMA UndoOneIs ==
    ASSUME MoveInv, UndoOne
    PROVE  LET s == Least(undo.sagas) IN
           /\ s \in undo.sagas /\ s \in DOMAIN sagas
           /\ DOMAIN sagas \subseteq DOMAIN sagas'
           /\ \A t \in DOMAIN sagas : t # s => sagas'[t] = sagas[t]
           /\ sagas'[s].phase = sagas[s].phase \/ sagas'[s].phase = "Aborted"
           /\ \/ Len(sagas') = Len(sagas)
              \/ /\ Len(sagas') = Len(sagas) + 1
                 /\ sagas'[Len(sagas) + 1] = [src |-> undo.read[s].dst, dst |-> undo.read[s].src,
                                              phase |-> "Copying"]
                 /\ undo.read[s].dst # NoRow
                 /\ sagas'[s].phase = "Aborted" \/ undo.read[s].phase = "Done"
<1> DEFINE s == Least(undo.sagas)
           e == [src |-> undo.read[s].dst, dst |-> undo.read[s].src, phase |-> "Copying"]
           x == WithPhase(s, "Aborted")
<1>1. Shapes /\ "Aborted" \in Phases
  BY DEF MoveInv, Phases
<1>2. s \in undo.sagas /\ s \in DOMAIN sagas
  <2>1. undo.sagas \in SUBSET Nat /\ undo.sagas # {}
    BY <1>1, SagaIn DEF MoveInv, Refs, UndoRefs, UndoOne
  <2> QED
    BY <2>1, LeastIn DEF MoveInv, Refs, UndoRefs
<1>3. \/ sagas' = x
      \/ UNCHANGED sagas
      \/ /\ sagas' = Append(x, e)
         /\ undo.read[s].dst # NoRow
      \/ /\ sagas' = Append(sagas, e)
         /\ undo.read[s].dst # NoRow /\ undo.read[s].phase = "Done"
  BY DEF UndoOne, CancelOne, InvertOne, AbandonOne, SkipOne, Aborts, Inverts, Aborted, WithPhase
<1>4. /\ x \in Seq(SagaShape) /\ DOMAIN x = DOMAIN sagas /\ Len(x) = Len(sagas)
      /\ \A t \in DOMAIN sagas : t # s => x[t] = sagas[t]
      /\ x[s].phase = "Aborted"
  <2> HIDE DEF s
  <2> QED
    BY <1>1, <1>2, PhaseIn
<1>5. /\ sagas \in Seq(SagaShape) /\ DOMAIN sagas = 1 .. Len(sagas) /\ Len(sagas) \in Nat
  BY <1>1, SagaIn DEF Shapes
<1> HIDE DEF s, e, x
<1>6. CASE sagas' = x \/ UNCHANGED sagas
  BY <1>2, <1>4, <1>6 DEF s
<1>7. ASSUME NEW z \in Seq(SagaShape), DOMAIN z = DOMAIN sagas, Len(z) = Len(sagas),
             sagas' = Append(z, e)
      PROVE  /\ DOMAIN sagas \subseteq DOMAIN sagas' /\ Len(sagas') = Len(sagas) + 1
             /\ \A t \in DOMAIN sagas : sagas'[t] = z[t]
             /\ sagas'[Len(sagas) + 1] = e
  <2>1. /\ DOMAIN z \subseteq DOMAIN Append(z, e) /\ \A j \in DOMAIN z : Append(z, e)[j] = z[j]
        /\ Len(Append(z, e)) = Len(z) + 1
    BY AppendAny
  <2>2. Append(z, e)[Len(z) + 1] = e
    BY <1>5, <1>7
  <2> QED
    BY <1>7, <2>1, <2>2
<1>8. CASE sagas' = Append(x, e) /\ undo.read[s].dst # NoRow
  <2>1. /\ DOMAIN sagas \subseteq DOMAIN sagas' /\ Len(sagas') = Len(sagas) + 1
        /\ \A t \in DOMAIN sagas : sagas'[t] = x[t]
        /\ sagas'[Len(sagas) + 1] = e
    BY <1>4, <1>7, <1>8
  <2> QED
    BY <1>2, <1>4, <1>8, <2>1 DEF s, e
<1>9. CASE sagas' = Append(sagas, e) /\ undo.read[s].dst # NoRow /\ undo.read[s].phase = "Done"
  <2>1. /\ DOMAIN sagas \subseteq DOMAIN sagas' /\ Len(sagas') = Len(sagas) + 1
        /\ \A t \in DOMAIN sagas : sagas'[t] = sagas[t]
        /\ sagas'[Len(sagas) + 1] = e
    BY <1>5, <1>7, <1>9
  <2> QED
    BY <1>2, <1>9, <2>1 DEF s, e
<1> QED
  BY <1>3, <1>6, <1>8, <1>9

LEMMA UndoOneEffects ==
    ASSUME MoveInv, Grows, UndoOne
    PROVE  Effects
<1>1. PhaseSteps
  BY UndoOneIs DEF PhaseSteps, PhaseStep
<1>2. UNCHANGED <<copies, pass>>
  BY DEF UndoOne, world_vars
<1> QED
  BY <1>1, <1>2, TakesNot, CopiesKept DEF Effects

LEMMA MoveEffects ==
    ASSUME MoveInv, Grows, NEW r \in DOMAIN rows, NEW t \in Accounts, Move(r, t)
    PROVE  Effects
<1>1. UNCHANGED <<copies, pass>>
  BY DEF Move, world_vars
<1>2. \A s \in DOMAIN sagas : sagas'[s] = sagas[s]
  <2>1. sagas \in Seq(SagaShape)
    BY DEF MoveInv, Shapes
  <2> QED
    BY <2>1, AppendAny DEF Move
<1> QED
  BY <1>1, <1>2, TakesNot, CopiesKept DEF Effects, PhaseSteps, PhaseStep

LEMMA NextEffects ==
    ASSUME MoveInv, [Next]_vars
    PROVE  Grows /\ MoveInv' /\ Effects
<1>1. Grows /\ MoveInv'
  BY NextKeeps
<1>2. CASE UserStep
  <2>1. CASE \E r \in DOMAIN rows, t \in Accounts : Move(r, t)
    BY <1>1, <2>1, MoveEffects
  <2>2. CASE UNCHANGED <<copies, sagas, pass>>
    BY <1>1, <2>2, QuietEffects
  <2> QED
    BY <1>2, <2>1, <2>2 DEF UserStep, OtherCommand, StartUndo, RefuseUndo, BeginUndo, world_vars
<1>3. CASE UndoOne
  BY <1>1, <1>3, UndoOneEffects
<1>4. CASE CommitUndo \/ UNCHANGED vars
  <2>1. UNCHANGED <<copies, sagas, pass>>
    BY <1>4 DEF CommitUndo, vars, world_vars
  <2> QED
    BY <1>1, <2>1, QuietEffects
<1>5. ASSUME NEW a \in Accounts, DrainerStep(a) PROVE Effects
  BY <1>1, <1>5, OverEffects, CopyBeginEffects, RemoveBeginEffects, CopyStepEffects,
     RemoveStepEffects DEF DrainerStep
<1>6. ASSUME NEW a \in Accounts, SyncStep(a) PROVE Effects
  <2>1. UNCHANGED <<copies, sagas, pass>>
    BY <1>6 DEF SyncStep, SyncVanished, SyncAdopts, FolderRemoved, world_vars
  <2> QED
    BY <1>1, <2>1, QuietEffects
<1>7. CASE Crash
  <2>1. UNCHANGED <<copies, sagas>> /\ \A a \in Accounts : pass'[a].pc \notin {"mark", "expunge"}
    BY <1>7, NoPassIn DEF Crash, world_vars
  <2> QED
    BY <1>1, <2>1, QuietEffects
<1> QED
  BY <1>1, <1>2, <1>3, <1>4, <1>5, <1>6, <1>7 DEF Next

-----------------------------------------------------------------------------
(* A copy is there when it is confirmed.                                   *)

\* What a pass is about to confirm is on its account's server.
ConfirmThere == \A a \in Accounts : pass[a].pc = "confirm" => pass[a].uid \in OnServer(a)

\* A pass comes to a confirmation with a copy it has just found or uploaded.
ConfirmSteps == \A a \in Accounts : pass'[a].pc = "confirm" =>
                   pass'[a] = pass[a] \/ pass'[a].uid \in OnServer(a)'

LEMMA ConfirmNot ==
    ASSUME NEW a \in Accounts, PassMoves(a),
           pass'[a].pc = "confirm" => pass'[a].uid \in OnServer(a)'
    PROVE  ConfirmSteps
BY DEF PassMoves, ConfirmSteps

LEMMA FoundThere ==
    ASSUME MoveInv, NEW a \in Accounts, pass[a].pc \in {"search", "prove"},
           Findable(a) # {}, FoundAt(a, Greatest(Findable(a))), UNCHANGED copies
    PROVE  ConfirmSteps
<1>1. Shapes
  BY DEF MoveInv
<1>2. Findable(a) \subseteq OnServer(a)
  BY OwnTarget DEF Findable
<1>3. DOMAIN copies = 1 .. Len(copies) /\ Len(copies) \in Nat
  BY <1>1, ElementIn DEF Shapes
<1>4. Findable(a) \in SUBSET (0 .. Len(copies))
  BY <1>2, <1>3 DEF OnServer
<1>5. Greatest(Findable(a)) \in Findable(a)
  BY <1>3, <1>4, GreatestIn
<1>6. PassMoves(a) /\ pass'[a].uid = Greatest(Findable(a))
  <2>1. Greatest(Findable(a)) \in Nat
    BY <1>4, <1>5
  <2> QED
    BY <1>1, <2>1, FoundAtIs
<1>7. OnServer(a)' = OnServer(a)
  BY CopiesSame
<1> QED
  BY <1>2, <1>5, <1>6, <1>7, ConfirmNot

LEMMA UploadedThere ==
    ASSUME MoveInv, NEW a \in Accounts, pass[a].pc = "append",
           copies' = Append(copies, [at |-> Target(a), deleted |-> FALSE, gone |-> FALSE]),
           FoundAt(a, Len(copies) + 1)
    PROVE  ConfirmSteps
<1> DEFINE n == Len(copies) + 1
           c == [at |-> Target(a), deleted |-> FALSE, gone |-> FALSE]
<1>1. copies \in Seq(CopyShape) /\ Len(copies) \in Nat
  BY ElementIn DEF MoveInv, Shapes
<1>2. c.at = a /\ ~c.gone
  BY OwnTarget
<1>3. c \in CopyShape
  BY <1>2 DEF CopyShape
<1> HIDE DEF c
<1>4. n \in DOMAIN copies' /\ copies'[n] = c
  <2>1. /\ n \in DOMAIN Append(copies, c) /\ Append(copies, c)[n] = c
    BY <1>1, <1>3, AppendIn
  <2> QED
    BY <2>1 DEF c
<1>5. n \in OnServer(a)'
  BY <1>2, <1>4 DEF OnServer
<1>6. PassMoves(a) /\ pass'[a].uid = n
  BY <1>1, FoundAtIs DEF MoveInv
<1> QED
  BY <1>5, <1>6, ConfirmNot

LEMMA NextConfirms ==
    ASSUME MoveInv, [Next]_vars
    PROVE  ConfirmSteps
<1>1. Shapes
  BY DEF MoveInv
<1>2. CASE UNCHANGED pass
  BY <1>2 DEF ConfirmSteps
<1>3. ASSUME NEW a \in Accounts, PassMoves(a), pass'[a].pc # "confirm" PROVE ConfirmSteps
  BY <1>3, ConfirmNot
<1>4. ASSUME NEW a \in Accounts, NEW o \in Outcomes, End(a, o) PROVE ConfirmSteps
  BY <1>1, <1>3, <1>4, EndIs
<1>5. ASSUME NEW a \in Accounts, NEW q \in Pcs \ {"confirm"}, Go(a, q) PROVE ConfirmSteps
  BY <1>1, <1>3, <1>5, GoIs
<1>6. ASSUME NEW a \in Accounts, CopyStep(a) PROVE ConfirmSteps
  <2>1. CASE CopySearch(a)
    <3>1. \/ Findable(a) # {} /\ FoundAt(a, Greatest(Findable(a)))
          \/ Go(a, "append")
          \/ \E o \in Outcomes : End(a, o)
      BY <2>1 DEF CopySearch, Outcomes
    <3>2. UNCHANGED copies /\ pass[a].pc \in {"search", "prove"}
      BY <2>1 DEF CopySearch, At, world_vars
    <3> QED
      BY <1>4, <1>5, <3>1, <3>2, FoundThere DEF Pcs
  <2>2. CASE CopyAppend(a)
    <3>1. \/ /\ copies' = Append(copies, [at |-> Target(a), deleted |-> FALSE, gone |-> FALSE])
             /\ FoundAt(a, Len(copies) + 1)
          \/ Go(a, "prove")
          \/ \E o \in Outcomes : End(a, o)
      BY <2>2 DEF CopyAppend, Outcomes
    <3>2. pass[a].pc = "append"
      BY <2>2 DEF CopyAppend, At
    <3> QED
      BY <1>4, <1>5, <3>1, <3>2, UploadedThere DEF Pcs
  <2>3. CASE CopyProve(a)
    <3>1. \/ Findable(a) # {} /\ FoundAt(a, Greatest(Findable(a)))
          \/ \E o \in Outcomes : End(a, o)
      BY <2>3 DEF CopyProve, Outcomes
    <3>2. UNCHANGED copies /\ pass[a].pc \in {"search", "prove"}
      BY <2>3 DEF CopyProve, At, world_vars
    <3> QED
      BY <1>4, <3>1, <3>2, FoundThere
  <2>4. CASE Confirm(a) \/ RecordUid(a)
    <3>1. Go(a, "record") \/ \E o \in Outcomes : End(a, o)
      BY <2>4 DEF Confirm, RecordUid, Outcomes
    <3> QED
      BY <1>4, <1>5, <3>1 DEF Pcs
  <2> QED
    BY <1>6, <2>1, <2>2, <2>3, <2>4 DEF CopyStep
<1>7. ASSUME NEW a \in Accounts, RemoveStep(a) PROVE ConfirmSteps
  <2>1. \/ \E q \in Pcs \ {"confirm"} : Go(a, q)
        \/ \E o \in Outcomes : End(a, o)
    BY <1>7 DEF RemoveStep, RemoveMark, RemoveExpunge, RemoveFinish, Pcs, Outcomes
  <2> QED
    BY <1>4, <1>5, <2>1
<1>8. ASSUME NEW a \in Accounts, DrainerStep(a) PROVE ConfirmSteps
  <2>1. CASE ListDue(a) \/ SettleMissing(a) \/ SettleRow(a)
    BY <1>3, <2>1, OverPass
  <2>2. CASE \E i \in DOMAIN queue : CopyBegin(a, i) \/ RemoveBegin(a, i)
    BY <1>3, <2>2, CopyBeginPass, RemoveBeginPass
  <2> QED
    BY <1>6, <1>7, <1>8, <2>1, <2>2 DEF DrainerStep
<1>9. CASE Crash
  BY <1>9, NoPassIn DEF Crash, ConfirmSteps
<1>10. CASE UserStep \/ UndoOne \/ CommitUndo \/ UNCHANGED vars \/ \E a \in Accounts : SyncStep(a)
  BY <1>2, <1>10 DEF UserStep, OtherCommand, Move, StartUndo, RefuseUndo, BeginUndo, UndoOne,
                     CommitUndo, SyncStep, SyncVanished, SyncAdopts, FolderRemoved, vars
<1> QED
  BY <1>8, <1>9, <1>10 DEF Next

\* What an expunge takes is a copy of the account's own, off its own server.
LEMMA ExpungeOwn ==
    ASSUME MoveInv, NEW b \in Accounts, RemoveExpunge(b)
    PROVE  \A a \in Accounts \ {b} : OnServer(a)' = OnServer(a)
<1>1. Shapes
  BY DEF MoveInv
<1>2. Own(pass[b].uid, b)
  BY DEF MoveInv, Refs, PassRefs, PassRef, RemoveExpunge, At
<1>3. \/ UNCHANGED copies
      \/ copies' = [copies EXCEPT ![pass[b].uid].gone = TRUE]
  BY DEF RemoveExpunge
<1> QED
  BY <1>1, <1>2, <1>3, CopyIn DEF OnServer, Own, CopyShape

LEMMA ThereKeeps ==
    ASSUME MoveInv, ConfirmThere, [Next]_vars
    PROVE  ConfirmThere'
<1> SUFFICES ASSUME NEW a \in Accounts, pass'[a].pc = "confirm", pass'[a] = pass[a]
             PROVE  pass[a].uid \in OnServer(a)'
  BY NextConfirms DEF ConfirmThere, ConfirmSteps
<1>1. pass[a].uid \in OnServer(a)
  BY DEF ConfirmThere
<1>2. NoLoss \/ \E b \in Accounts : RemoveExpunge(b)
  BY NextEffects DEF Effects
<1>3. CASE NoLoss
  BY <1>1, <1>3 DEF NoLoss
<1>4. ASSUME NEW b \in Accounts, RemoveExpunge(b) PROVE pass[a].uid \in OnServer(a)'
  <2>1. b # a
    BY <1>4 DEF RemoveExpunge, At
  <2>2. OnServer(a)' = OnServer(a)
    BY <1>4, <2>1, ExpungeOwn
  <2> QED
    BY <1>1, <2>2
<1> QED
  BY <1>2, <1>3, <1>4

LEMMA ConfirmHolds == Spec => []ConfirmThere
<1>1. Init => ConfirmThere
  BY NoPassIn DEF Init, ConfirmThere
<1>2. MoveInv /\ ConfirmThere /\ [Next]_vars => ConfirmThere'
  BY ThereKeeps
<1> QED
  BY <1>1, <1>2, MoveInvHolds, PTL DEF Spec

\* A saga comes to Confirmed only while the target's server has a copy: what
\* the search or APPENDUID named is still there when the phase that lets the
\* original go is recorded (copy and confirm in cross_account.rs).
THEOREM ConfirmedWithCopy ==
    Spec => [][\A s \in DOMAIN sagas :
                  sagas[s].phase # "Confirmed" /\ sagas'[s].phase = "Confirmed"
                  => OnServer(To(s)) # {}]_vars
<1> DEFINE A == \A s \in DOMAIN sagas :
                  sagas[s].phase # "Confirmed" /\ sagas'[s].phase = "Confirmed"
                  => OnServer(To(s)) # {}
<1>1. MoveInv /\ ConfirmThere /\ [Next]_vars => [A]_vars
  <2> SUFFICES ASSUME MoveInv, ConfirmThere, [Next]_vars, NEW s \in DOMAIN sagas,
                      sagas[s].phase # "Confirmed", sagas'[s].phase = "Confirmed"
               PROVE  OnServer(To(s)) # {}
    OBVIOUS
  <2>1. PICK a \in Accounts : Confirm(a) /\ SagaOf(a) = s
    BY NextEffects DEF Effects, PhaseSteps, PhaseStep
  <2>2. pass[a].pc = "confirm"
    BY <2>1 DEF Confirm, At
  <2> QED
    BY <2>1, <2>2, CopiesTo DEF ConfirmThere
<1> HIDE DEF A
<1>2. Spec => [][A]_vars
  BY <1>1, MoveInvHolds, ConfirmHolds, PTL DEF Spec
<1> QED
  BY <1>2 DEF A

-----------------------------------------------------------------------------
(* One command loses nothing.                                              *)

\* A saga joins two accounts, and an undo inverts it as it is.
Apart     == \A s \in DOMAIN sagas : From(s) # To(s)
UndoReads == \A s \in undo.sagas :
    /\ undo.read[s].src = sagas[s].src
    /\ undo.read[s].dst \in {sagas[s].dst, NoRow}
    /\ undo.read[s].phase = "Done" => sagas[s].phase = "Done"

\* The one command that was given is on the stack, or is being undone, or has
\* been: then its saga has at most the one saga that takes it back.
OneCommand ==
    /\ Len(stack) <= acts
    /\ acts = 0 => sagas = <<>>
    /\ stack # <<>> \/ undo.sagas # {} => Len(sagas) <= 1
    /\ stack = <<>> \/ undo.sagas = {}
    /\ Len(sagas) <= 2

\* A move is taken back only after it was given up or has finished.
Back == \A s \in DOMAIN sagas : s # 1 =>
           /\ From(s) = To(1) /\ To(s) = From(1)
           /\ sagas[1].phase \in {"Aborted", "Done"}

\* What a saga confirmed is still on the target's server ...
There(s) == OnServer(To(s)) # {}
Kept == \A s \in DOMAIN sagas : sagas[s].phase = "Confirmed" => There(s)

\* ... for as long as the original is being taken, and the saga that takes the
\* move back does not get to its own removal meanwhile.
Taking == \A a \in Accounts : \A s \in DOMAIN sagas : Takes(a, s) =>
             /\ There(s)
             /\ s # 1 => sagas[s].phase \in {"Confirmed", "Done"}
             /\ s = 1 => \A t \in DOMAIN sagas : t # 1 => sagas[t].phase = "Copying"

OneLoss == OneCommand /\ Back /\ Kept /\ Taking /\ NeverLost
LossInv == Apart /\ UndoReads /\ (acts <= 1 => OneLoss)

\* What a step does to the undo stack, the undo under way and the list of sagas.
OtherStep ==
    /\ DOMAIN sagas' = DOMAIN sagas /\ UNCHANGED acts
    /\ stack' \in {stack, <<>>}
    /\ \/ undo'.sagas = {}
       \/ undo'.sagas = undo.sagas /\ undo'.read = undo.read
CommandStep ==
    \/ \E r \in DOMAIN rows, t \in Accounts : Move(r, t)
    \/ \E r \in DOMAIN rows : OtherCommand(r)
    \/ StartUndo
    \/ UndoOne
    \/ OtherStep

\* A phase changes; no saga comes or goes.
LEMMA PhaseOnly ==
    ASSUME NEW s, NEW p
    PROVE  DOMAIN [sagas EXCEPT ![s].phase = p] = DOMAIN sagas
OBVIOUS

LEMMA NextCommands ==
    ASSUME MoveInv, [Next]_vars
    PROVE  CommandStep
<1>1. CASE UserStep
  <2>1. CASE RefuseUndo
    BY <2>1 DEF RefuseUndo, CommandStep, OtherStep, NoUndo
  <2>2. CASE BeginUndo
    <3>1. undo' = [undo EXCEPT !.writing = TRUE] /\ UNCHANGED <<sagas, stack, acts>>
      BY <2>2 DEF BeginUndo
    <3>2. undo'.sagas = undo.sagas /\ undo'.read = undo.read
      BY <3>1 DEF MoveInv, Shapes
    <3> QED
      BY <3>1, <3>2 DEF CommandStep, OtherStep
  <2> QED
    BY <1>1, <2>1, <2>2 DEF UserStep, CommandStep
<1>2. CASE UndoOne
  BY <1>2 DEF CommandStep
<1>3. CASE CommitUndo \/ UNCHANGED vars
  BY <1>3 DEF CommitUndo, vars, user_vars, NoUndo, CommandStep, OtherStep
<1>4. ASSUME NEW a \in Accounts, DrainerStep(a) PROVE CommandStep
  <2>1. \/ UNCHANGED sagas
        \/ \E s : \E p : sagas' = [sagas EXCEPT ![s].phase = p]
    BY <1>4 DEF DrainerStep, ListDue, CopyBegin, RemoveBegin, SettleMissing, SettleRow, Advance,
       CopyStep, CopySearch, CopyAppend, CopyProve, Confirm, RecordUid,
       RemoveStep, RemoveMark, RemoveExpunge, RemoveFinish
  <2>2. DOMAIN sagas' = DOMAIN sagas
    BY <2>1, PhaseOnly
  <2>3. UNCHANGED user_vars
    BY <1>4 DEF DrainerStep, ListDue, CopyBegin, RemoveBegin, SettleMissing, SettleRow,
       CopyStep, CopySearch, CopyAppend, CopyProve, Confirm, RecordUid,
       RemoveStep, RemoveMark, RemoveExpunge, RemoveFinish
  <2> QED
    BY <2>2, <2>3 DEF user_vars, CommandStep, OtherStep
<1>5. ASSUME NEW a \in Accounts, SyncStep(a) PROVE CommandStep
  BY <1>5 DEF SyncStep, SyncVanished, SyncAdopts, FolderRemoved, user_vars, CommandStep, OtherStep
<1>6. CASE Crash
  BY <1>6 DEF Crash, CommandStep, OtherStep, NoUndo
<1> QED
  BY <1>1, <1>2, <1>3, <1>4, <1>5, <1>6 DEF Next

\* A saga that a step adds is at its start, and joins two accounts.
NewSagas == \A s \in DOMAIN sagas' \ DOMAIN sagas :
               sagas'[s].phase = "Copying" /\ From(s)' # To(s)'

LEMMA MoveNew ==
    ASSUME MoveInv, Grows, NEW r \in DOMAIN rows, NEW t \in Accounts, Move(r, t)
    PROVE  NewSagas /\ Len(sagas') = Len(sagas) + 1
<1> DEFINE e == [src |-> r, dst |-> Len(rows) + 1, phase |-> "Copying"]
           x == Hidden(rows, r, TRUE)
<1>1. sagas \in Seq(SagaShape) /\ rows \in Seq(RowShape) /\ x \in Seq(RowShape)
      /\ DOMAIN x = DOMAIN rows /\ Len(x) = Len(rows)
  BY HideIn DEF MoveInv, Shapes
<1>2. sagas' = Append(sagas, e)
  BY DEF Move
<1>3. rows' = Append(x, NewRow(t))
  BY DEF Move, Hidden
<1>4. Len(sagas') = Len(sagas) + 1 /\ sagas'[Len(sagas) + 1] = e
      /\ DOMAIN sagas' = DOMAIN sagas \cup {Len(sagas) + 1}
  <2>1. e \in SagaShape
    BY <1>1, ElementIn DEF SagaShape, Phases
  <2> HIDE DEF e
  <2> QED
    BY <1>1, <1>2, <2>1, AppendIn, AppendProperties
<1>5. rows'[Len(rows) + 1].at = t
  <2>1. NewRow(t) \in RowShape /\ NewRow(t).at = t
    BY DEF NewRow, RowShape, NoUid
  <2> HIDE DEF x
  <2>2. rows'[Len(x) + 1] = NewRow(t)
    BY <1>1, <1>3, <2>1, AppendIn
  <2> QED
    BY <1>1, <2>1, <2>2
<1>6. rows'[r].at = rows[r].at /\ t # rows[r].at
  BY DEF Grows, RowsGrow, Move
<1> QED
  BY <1>4, <1>5, <1>6 DEF NewSagas, From, To

LEMMA UndoNew ==
    ASSUME MoveInv, Grows, Apart, UndoReads, UndoOne
    PROVE  /\ NewSagas
           /\ Len(sagas') \in {Len(sagas), Len(sagas) + 1}
           /\ \A n \in DOMAIN sagas' \ DOMAIN sagas : \E s \in undo.sagas :
                 /\ From(n)' = To(s) /\ To(n)' = From(s)
                 /\ sagas'[s].phase \in {"Aborted", "Done"}
<1> DEFINE s == Least(undo.sagas)
<1>1. /\ s \in undo.sagas /\ s \in DOMAIN sagas
      /\ sagas'[s].phase = sagas[s].phase \/ sagas'[s].phase = "Aborted"
      /\ \/ Len(sagas') = Len(sagas)
         \/ /\ Len(sagas') = Len(sagas) + 1
            /\ sagas'[Len(sagas) + 1] = [src |-> undo.read[s].dst, dst |-> undo.read[s].src,
                                         phase |-> "Copying"]
            /\ undo.read[s].dst # NoRow
            /\ sagas'[s].phase = "Aborted" \/ undo.read[s].phase = "Done"
  BY UndoOneIs
<1> HIDE DEF s
<1>2. DOMAIN sagas = 1 .. Len(sagas) /\ Len(sagas) \in Nat /\ DOMAIN sagas' = 1 .. Len(sagas')
  BY SagaIn, LenProperties DEF MoveInv, Grows, SagasGrow
<1>3. ASSUME Len(sagas') = Len(sagas) PROVE DOMAIN sagas' \ DOMAIN sagas = {}
  BY <1>2, <1>3
<1>4. ASSUME /\ Len(sagas') = Len(sagas) + 1
             /\ sagas'[Len(sagas) + 1] = [src |-> undo.read[s].dst, dst |-> undo.read[s].src,
                                          phase |-> "Copying"]
             /\ undo.read[s].dst # NoRow
             /\ sagas'[s].phase = "Aborted" \/ undo.read[s].phase = "Done"
      PROVE  /\ NewSagas
             /\ \A n \in DOMAIN sagas' \ DOMAIN sagas :
                   /\ From(n)' = To(s) /\ To(n)' = From(s)
                   /\ sagas'[s].phase \in {"Aborted", "Done"}
  <2>1. /\ undo.read[s].src = sagas[s].src /\ undo.read[s].dst = sagas[s].dst
        /\ undo.read[s].phase = "Done" => sagas[s].phase = "Done"
    BY <1>1, <1>4 DEF UndoReads
  <2>2. /\ rows'[sagas[s].src].at = From(s) /\ rows'[sagas[s].dst].at = To(s)
        /\ From(s) # To(s)
    BY <1>1 DEF MoveInv, Refs, SagaRefs, Grows, RowsGrow, From, To, Apart
  <2>3. sagas'[s].phase \in {"Aborted", "Done"}
    BY <1>1, <1>4, <2>1
  <2>4. ASSUME NEW n \in DOMAIN sagas' \ DOMAIN sagas
        PROVE  From(n)' = To(s) /\ To(n)' = From(s) /\ sagas'[n].phase = "Copying"
    <3>1. n = Len(sagas) + 1
      BY <1>2, <1>4
    <3>2. /\ sagas'[n].src = sagas[s].dst /\ sagas'[n].dst = sagas[s].src
          /\ sagas'[n].phase = "Copying"
      BY <1>4, <2>1, <3>1
    <3> QED
      BY <2>2, <3>2 DEF From, To
  <2> QED
    BY <2>2, <2>3, <2>4 DEF NewSagas
<1> QED
  BY <1>1, <1>3, <1>4 DEF NewSagas

LEMMA NextNew ==
    ASSUME MoveInv, Apart, UndoReads, [Next]_vars
    PROVE  NewSagas
<1>1. Grows
  BY NextEffects
<1>2. CASE \E r \in DOMAIN rows, t \in Accounts : Move(r, t)
  BY <1>1, <1>2, MoveNew
<1>3. CASE UndoOne
  BY <1>1, <1>3, UndoNew
<1>4. CASE DOMAIN sagas' = DOMAIN sagas
  BY <1>4 DEF NewSagas
<1> QED
  BY <1>2, <1>3, <1>4, NextCommands DEF CommandStep, OtherCommand, StartUndo, OtherStep

LEMMA ApartKeeps ==
    ASSUME MoveInv, Apart, UndoReads, [Next]_vars
    PROVE  Apart'
<1>1. Grows
  BY NextEffects
<1>2. ASSUME NEW s \in DOMAIN sagas PROVE From(s)' # To(s)'
  BY <1>1, <1>2, Frame DEF Apart
<1> QED
  BY <1>2, NextNew DEF NewSagas, Apart

LEMMA UndoReadsKeeps ==
    ASSUME MoveInv, UndoReads, [Next]_vars
    PROVE  UndoReads'
<1>1. Grows /\ PhaseSteps
  BY NextEffects DEF Effects
<1>2. ASSUME NEW s \in undo'.sagas, s \in undo.sagas, undo'.read = undo.read,
             sagas[s].phase = "Done" => sagas'[s].phase = "Done"
      PROVE  /\ undo'.read[s].src = sagas'[s].src
             /\ undo'.read[s].dst \in {sagas'[s].dst, NoRow}
             /\ undo'.read[s].phase = "Done" => sagas'[s].phase = "Done"
  <2>1. s \in DOMAIN sagas
    BY <1>2 DEF MoveInv, Refs, UndoRefs
  <2>2. sagas'[s].src = sagas[s].src /\ sagas'[s].dst = sagas[s].dst
    BY <1>1, <2>1 DEF Grows, SagasGrow
  <2> QED
    BY <1>2, <2>2 DEF UndoReads
<1>3. CASE undo'.sagas = {}
  BY <1>3 DEF UndoReads
<1>4. CASE undo'.sagas = undo.sagas /\ undo'.read = undo.read /\ ~UndoOne
  <2>1. ASSUME NEW s \in undo.sagas, sagas[s].phase = "Done" PROVE sagas'[s].phase = "Done"
    <3>1. s \in DOMAIN sagas
      BY DEF MoveInv, Refs, UndoRefs
    <3> QED
      BY <1>1, <1>4, <2>1, <3>1 DEF PhaseSteps, PhaseStep
  <2> QED
    BY <1>2, <1>4, <2>1 DEF UndoReads
<1>5. CASE UndoOne
  <2> DEFINE l == Least(undo.sagas)
  <2>1. undo'.sagas = undo.sagas \ {l} /\ undo'.read = undo.read
    BY <1>5 DEF UndoOne, MoveInv, Shapes
  <2>2. \A t \in DOMAIN sagas : t # l => sagas'[t] = sagas[t]
    BY <1>5, UndoOneIs
  <2> HIDE DEF l
  <2>3. \A s \in undo'.sagas : s \in undo.sagas /\ sagas'[s] = sagas[s]
    BY <2>1, <2>2 DEF MoveInv, Refs, UndoRefs
  <2> QED
    BY <1>2, <2>1, <2>3 DEF UndoReads
<1>6. CASE StartUndo
  <2> DEFINE S == SagasOf(stack[Len(stack)])
  <2>1. /\ undo' = [sagas |-> S, writing |-> FALSE, read |-> [s \in S |-> ReadSaga(s)]]
        /\ UNCHANGED sagas
    BY <1>6 DEF StartUndo
  <2>2. S \subseteq DOMAIN sagas
    BY DEF SagasOf
  <2> HIDE DEF S
  <2>3. \A s \in S : /\ ReadSaga(s).src = sagas[s].src /\ ReadSaga(s).phase = sagas[s].phase
                     /\ ReadSaga(s).dst \in {sagas[s].dst, NoRow}
    BY <2>2, SagaIn DEF MoveInv, ReadSaga, SagaShape
  <2> QED
    BY <2>1, <2>3 DEF UndoReads
<1>7. CASE UNCHANGED undo /\ \A s \in DOMAIN sagas : sagas'[s] = sagas[s]
  BY <1>2, <1>7 DEF UndoReads, MoveInv, Refs, UndoRefs
<1>8. ASSUME NEW r \in DOMAIN rows, NEW t \in Accounts, Move(r, t) PROVE UndoReads'
  <2>1. sagas \in Seq(SagaShape)
    BY DEF MoveInv, Shapes
  <2>2. \A s \in DOMAIN sagas : sagas'[s] = sagas[s]
    BY <1>8, <2>1, AppendAny DEF Move
  <2> QED
    BY <1>7, <1>8, <2>2 DEF Move
<1> QED
  BY <1>3, <1>4, <1>5, <1>6, <1>7, <1>8, NextCommands DEF CommandStep, OtherCommand, OtherStep

LEMMA SameLength ==
    ASSUME NEW m \in Nat, NEW n \in Nat, 1 .. m = 1 .. n
    PROVE  m = n
<1>1. ASSUME NEW j \in Nat, NEW k \in Nat, 1 .. j = 1 .. k, j < k PROVE FALSE
  <2>1. k \in 1 .. k /\ k \notin 1 .. j
    BY <1>1
  <2> QED
    BY <1>1, <2>1
<1> QED
  BY <1>1

\* The one command's saga comes with it, the other with its undo.
LEMMA OneCommandKeeps ==
    ASSUME MoveInv, Apart, UndoReads, OneCommand, [Next]_vars, acts' <= 1
    PROVE  OneCommand'
<1>1. Grows /\ MoveInv'
  BY NextEffects
<1>2. /\ DOMAIN sagas = 1 .. Len(sagas) /\ Len(sagas) \in Nat
      /\ DOMAIN sagas' = 1 .. Len(sagas') /\ Len(sagas') \in Nat
  BY <1>1, SagaIn, LenProperties DEF MoveInv, Grows, SagasGrow
<1>3. /\ stack \in Seq(Nat) /\ acts \in Nat /\ Len(stack) \in Nat
      /\ (Len(stack) = 0 <=> stack = <<>>)
  BY LenProperties, EmptySeq DEF MoveInv, Shapes
<1>4. ASSUME acts' = acts + 1, UNCHANGED undo, NEW r \in Nat, stack' = Append(stack, r)
      PROVE  /\ sagas = <<>> /\ undo.sagas = {} /\ Len(stack') <= acts'
             /\ acts' # 0
  <2>1. acts = 0
    BY <1>3, <1>4
  <2>2. sagas = <<>>
    BY <2>1 DEF OneCommand
  <2>3. undo.sagas = {}
    BY <2>2 DEF MoveInv, Refs, UndoRefs
  <2>4. Len(stack') = Len(stack) + 1
    BY <1>3, <1>4, AppendProperties
  <2> QED
    BY <1>3, <1>4, <2>1, <2>2, <2>3, <2>4 DEF OneCommand
<1>5. ASSUME NEW r \in DOMAIN rows, NEW t \in Accounts, Move(r, t) PROVE OneCommand'
  <2>1. /\ acts' = acts + 1 /\ UNCHANGED undo /\ stack' = Append(stack, r)
    BY <1>5 DEF Move
  <2>2. r \in Nat
    BY ElementIn DEF MoveInv, Shapes
  <2>3. Len(sagas') = Len(sagas) + 1
    BY <1>1, <1>5, MoveNew
  <2>4. Len(sagas') = 1
    BY <1>4, <2>1, <2>2, <2>3
  <2> QED
    BY <1>4, <2>1, <2>2, <2>4 DEF OneCommand
<1>6. ASSUME NEW r \in DOMAIN rows, OtherCommand(r) PROVE OneCommand'
  <2>1. /\ acts' = acts + 1 /\ UNCHANGED undo /\ stack' = Append(stack, r) /\ UNCHANGED sagas
    BY <1>6 DEF OtherCommand
  <2>2. r \in Nat
    BY ElementIn DEF MoveInv, Shapes
  <2>3. sagas' = <<>> /\ Len(sagas') = 0
    BY <1>4, <2>1, <2>2
  <2> QED
    BY <1>4, <2>1, <2>2, <2>3 DEF OneCommand
<1>7. CASE StartUndo
  <2>1. /\ stack # <<>> /\ UNCHANGED <<acts, sagas>>
        /\ stack' = SubSeq(stack, 1, Len(stack) - 1)
    BY <1>7 DEF StartUndo
  <2>2. acts = 1 /\ Len(stack) = 1
    <3>1. acts \in Nat /\ acts <= 1 /\ Len(stack) \in Nat /\ Len(stack) # 0
      BY <1>3, <2>1
    <3>2. Len(stack) <= acts
      BY DEF OneCommand
    <3>3. \A k, n \in Nat : k # 0 /\ k <= n /\ n <= 1 => n = 1 /\ k = 1
      OBVIOUS
    <3> QED
      BY <3>1, <3>2, <3>3, Zenon
  <2>3. stack' = <<>> /\ Len(stack') = 0
    BY <1>3, <2>1, <2>2
  <2> QED
    BY <2>1, <2>2, <2>3 DEF OneCommand
<1>8. CASE UndoOne
  <2> DEFINE s == Least(undo.sagas)
  <2>1. s \in undo.sagas
    BY <1>8, UndoOneIs
  <2>2. undo'.sagas = undo.sagas \ {s} /\ UNCHANGED <<stack, acts>>
    BY <1>8 DEF UndoOne, MoveInv, Shapes
  <2>3. Len(sagas') \in {Len(sagas), Len(sagas) + 1}
    BY <1>1, <1>8, UndoNew
  <2> HIDE DEF s
  <2>4. Len(sagas) <= 1 /\ stack = <<>>
    BY <2>1 DEF OneCommand
  <2>5. undo.sagas \subseteq {1}
    BY <1>2, <2>4 DEF MoveInv, Refs, UndoRefs
  <2>6. undo'.sagas = {}
    BY <2>1, <2>2, <2>5
  <2>7. acts # 0
    <3>1. sagas # <<>>
      BY <2>1 DEF MoveInv, Refs, UndoRefs
    <3> QED
      BY <3>1 DEF OneCommand
  <2>8. Len(sagas') <= 2
    <3>1. \A m, n \in Nat : n <= 1 /\ (m = n \/ m = n + 1) => m <= 2
      OBVIOUS
    <3> QED
      BY <1>2, <2>3, <2>4, <3>1, Zenon
  <2>9. stack' = <<>> /\ Len(stack') <= acts' /\ acts' # 0
    BY <2>2, <2>4, <2>7 DEF OneCommand
  <2> QED
    BY <2>6, <2>8, <2>9 DEF OneCommand
<1>9. CASE OtherStep
  <2>1. Len(sagas') = Len(sagas)
    BY <1>2, <1>9, SameLength DEF OtherStep
  <2>2. acts = 0 => sagas' = <<>>
    <3>1. sagas = <<>> => Len(sagas') = 0
      BY <2>1
    <3>2. sagas' \in Seq(SagaShape)
      BY <1>1 DEF Grows, SagasGrow
    <3> QED
      BY <3>1, <3>2, EmptySeq DEF OneCommand
  <2>3. \/ stack' = stack
        \/ stack' = <<>> /\ Len(stack') = 0
    BY <1>9 DEF OtherStep
  <2> QED
    BY <1>2, <1>3, <1>9, <2>1, <2>2, <2>3 DEF OneCommand, OtherStep
<1> QED
  BY <1>5, <1>6, <1>7, <1>8, <1>9, NextCommands DEF CommandStep

\* Of two sagas of one command one is the first, and only that one is undone.
LEMMA OneOfTwo ==
    ASSUME MoveInv, OneCommand
    PROVE  /\ \A s, t \in DOMAIN sagas : s # t => s = 1 \/ t = 1
           /\ \A s \in undo.sagas : s = 1 /\ s \in DOMAIN sagas
<1>1. DOMAIN sagas = 1 .. Len(sagas) /\ Len(sagas) \in Nat
  BY SagaIn DEF MoveInv
<1>2. \A s \in DOMAIN sagas : s \in Nat /\ s # 0 /\ s <= 2
  <2>1. Len(sagas) <= 2
    BY DEF OneCommand
  <2> QED
    BY <1>1, <2>1
<1>3. \A s, t \in DOMAIN sagas : s # t => s = 1 \/ t = 1
  BY <1>2
<1>4. ASSUME NEW s \in undo.sagas PROVE s = 1 /\ s \in DOMAIN sagas
  <2>1. s \in DOMAIN sagas /\ Len(sagas) <= 1
    BY DEF MoveInv, Refs, UndoRefs, OneCommand
  <2> QED
    BY <1>1, <2>1
<1> QED
  BY <1>3, <1>4

LEMMA BackKeeps ==
    ASSUME MoveInv, Apart, UndoReads, OneCommand, Back, [Next]_vars, acts' <= 1
    PROVE  Back'
<1>1. Grows /\ PhaseSteps
  BY NextEffects DEF Effects
<1>2. ASSUME NEW s \in DOMAIN sagas, s # 1
      PROVE  From(s)' = To(1)' /\ To(s)' = From(1)' /\ sagas'[1].phase \in {"Aborted", "Done"}
  <2>1. /\ 1 \in DOMAIN sagas /\ From(s) = To(1) /\ To(s) = From(1)
        /\ sagas[1].phase \in {"Aborted", "Done"}
    BY <1>2, SagaIn DEF Back, MoveInv
  <2>2. sagas'[1].phase \in {"Aborted", "Done"}
    BY <1>1, <2>1 DEF PhaseSteps, PhaseStep
  <2>3. From(s)' = From(s) /\ To(s)' = To(s) /\ From(1)' = From(1) /\ To(1)' = To(1)
    BY <1>1, <1>2, <2>1, Frame
  <2> QED
    BY <2>1, <2>2, <2>3
<1>3. ASSUME NEW s \in DOMAIN sagas' \ DOMAIN sagas, s # 1, UndoOne
      PROVE  From(s)' = To(1)' /\ To(s)' = From(1)' /\ sagas'[1].phase \in {"Aborted", "Done"}
  <2>1. PICK t \in undo.sagas : /\ From(s)' = To(t) /\ To(s)' = From(t)
                                /\ sagas'[t].phase \in {"Aborted", "Done"}
    BY <1>1, <1>3, UndoNew
  <2>2. t = 1 /\ t \in DOMAIN sagas
    BY OneOfTwo
  <2>3. From(t)' = From(t) /\ To(t)' = To(t)
    BY <1>1, <2>2, Frame
  <2> QED
    BY <2>1, <2>2, <2>3
<1>4. ASSUME NEW r \in DOMAIN rows, NEW t \in Accounts, Move(r, t) PROVE DOMAIN sagas' = {1}
  <2>1. acts = 0
    BY <1>4 DEF Move, MoveInv, Shapes
  <2>2. sagas = <<>>
    BY <2>1 DEF OneCommand
  <2>3. Len(sagas') = 1
    BY <1>1, <1>4, <2>2, MoveNew
  <2> QED
    BY <1>1, <2>3, LenProperties DEF Grows, SagasGrow
<1>5. ASSUME NEW s \in DOMAIN sagas', s # 1
      PROVE  From(s)' = To(1)' /\ To(s)' = From(1)' /\ sagas'[1].phase \in {"Aborted", "Done"}
  <2>1. s \in DOMAIN sagas \/ UndoOne
    BY <1>4, <1>5, NextCommands DEF CommandStep, OtherCommand, StartUndo, OtherStep
  <2> QED
    BY <1>2, <1>3, <1>5, <2>1
<1> QED
  BY <1>5 DEF Back

LEMMA ThereStays ==
    ASSUME MoveInv, Grows, NEW s \in DOMAIN sagas, There(s),
           NoLoss \/ \E b \in Accounts : RemoveExpunge(b) /\ To(s) # b
    PROVE  There(s)'
<1>1. PICK a : a = To(s)
  OBVIOUS
<1>2. a \in Accounts
  <2>1. sagas[s].dst \in DOMAIN rows
    BY DEF MoveInv, Refs, SagaRefs
  <2>2. rows[sagas[s].dst] \in RowShape
    BY <2>1, RowIn DEF MoveInv
  <2> QED
    BY <1>1, <2>2 DEF RowShape, To
<1>3. OnServer(a) \subseteq OnServer(a)'
  <2>1. CASE NoLoss
    BY <1>2, <2>1 DEF NoLoss
  <2>2. ASSUME NEW b \in Accounts, RemoveExpunge(b), To(s) # b
        PROVE  OnServer(a) \subseteq OnServer(a)'
    BY <1>1, <1>2, <2>2, ExpungeOwn
  <2> QED
    BY <2>1, <2>2
<1>4. PICK u : u \in OnServer(a)
  BY <1>1 DEF There
<1>5. To(s)' = a
  BY <1>1, Frame
<1>6. u \in DOMAIN copies' /\ copies'[u].at = a /\ ~copies'[u].gone
  BY <1>3, <1>4 DEF OnServer
<1> QED
  BY <1>5, <1>6 DEF There, OnServer

\* The account whose server an expunge takes from is the target of no saga that
\* has been confirmed, nor of one whose own original is being taken.
LEMMA NotTaken ==
    ASSUME MoveInv, Apart, OneCommand, Back, Taking, NEW b \in Accounts, RemoveExpunge(b),
           NEW s \in DOMAIN sagas,
           sagas[s].phase = "Confirmed" \/ \E a \in Accounts : Takes(a, s)
    PROVE  To(s) # b
<1> SUFFICES ASSUME To(s) = b PROVE FALSE
  OBVIOUS
<1> DEFINE t == SagaOf(b)
<1>1. Takes(b, t)
  BY DEF Takes, RemoveExpunge, At
<1> HIDE DEF t
<1>2. t \in DOMAIN sagas /\ From(t) = b
  BY <1>1, TakesIs
<1>3. t # s
  BY <1>2 DEF Apart
<1>4. CASE t = 1
  <2>1. sagas[s].phase = "Copying"
    BY <1>1, <1>3, <1>4, <1>2 DEF Taking
  <2> QED
    BY <1>3, <1>4, <2>1 DEF Taking
<1>5. CASE s = 1
  <2>1. sagas[t].phase \in {"Confirmed", "Done"}
    BY <1>1, <1>2, <1>3, <1>5 DEF Taking
  <2>2. sagas[s].phase \in {"Aborted", "Done"}
    BY <1>2, <1>3, <1>5 DEF Back
  <2>3. PICK a \in Accounts : Takes(a, s)
    BY <2>2
  <2>4. sagas[t].phase = "Copying"
    BY <1>2, <1>3, <1>5, <2>3 DEF Taking
  <2> QED
    BY <2>1, <2>4
<1> QED
  BY <1>2, <1>3, <1>4, <1>5, OneOfTwo

\* So a copy that stands for an original outlives the step.
LEMMA StandsStill ==
    ASSUME MoveInv, Apart, OneCommand, Back, Kept, Taking, [Next]_vars,
           NEW s \in DOMAIN sagas,
           sagas[s].phase = "Confirmed" \/ \E a \in Accounts : Takes(a, s)
    PROVE  There(s)'
<1>1. Grows /\ (NoLoss \/ \E b \in Accounts : RemoveExpunge(b))
  BY NextEffects DEF Effects
<1>2. There(s)
  BY DEF Kept, Taking
<1>3. ASSUME NEW b \in Accounts, RemoveExpunge(b) PROVE To(s) # b
  BY <1>3, NotTaken
<1> QED
  BY <1>1, <1>2, <1>3, ThereStays

LEMMA KeptKeeps ==
    ASSUME MoveInv, ConfirmThere, Apart, UndoReads, OneCommand, Back, Kept, Taking, [Next]_vars
    PROVE  Kept'
<1> SUFFICES ASSUME NEW s \in DOMAIN sagas', sagas'[s].phase = "Confirmed"
             PROVE  There(s)'
  BY DEF Kept
<1>1. Grows /\ PhaseSteps
  BY NextEffects DEF Effects
<1>2. s \in DOMAIN sagas
  BY NextNew DEF NewSagas
<1>3. CASE sagas[s].phase = "Confirmed"
  BY <1>2, <1>3, StandsStill
<1>4. ASSUME NEW a \in Accounts, Confirm(a), SagaOf(a) = s PROVE There(s)'
  <2>1. pass[a].pc = "confirm" /\ UNCHANGED copies
    BY <1>4 DEF Confirm, At, world_vars
  <2>2. To(s) = a
    BY <1>4, <2>1, CopiesTo
  <2>3. There(s)
    BY <2>1, <2>2 DEF ConfirmThere, There
  <2> QED
    BY <1>1, <1>2, <2>1, <2>3, CopiesKept, ThereStays
<1> QED
  BY <1>1, <1>2, <1>3, <1>4 DEF PhaseSteps, PhaseStep

LEMMA TakingKeeps ==
    ASSUME MoveInv, Apart, UndoReads, OneCommand, Back, Kept, Taking, [Next]_vars
    PROVE  Taking'
<1> SUFFICES ASSUME NEW a \in Accounts, NEW s \in DOMAIN sagas', Takes(a, s)'
             PROVE  /\ There(s)'
                    /\ s # 1 => sagas'[s].phase \in {"Confirmed", "Done"}
                    /\ s = 1 => \A t \in DOMAIN sagas' : t # 1 => sagas'[t].phase = "Copying"
  BY DEF Taking
<1>1. Grows /\ PhaseSteps /\ TakeSteps
  BY NextEffects DEF Effects
<1>2. \/ Takes(a, s)
      \/ /\ s \in DOMAIN sagas /\ sagas[s].phase = "Confirmed"
         /\ UNCHANGED <<copies, sagas>>
  BY <1>1 DEF TakeSteps, TakeStep
<1>3. s \in DOMAIN sagas
  BY <1>2, TakesIs
<1>4. There(s)'
  BY <1>2, <1>3, StandsStill
<1>5. ASSUME s # 1 PROVE sagas'[s].phase \in {"Confirmed", "Done"}
  <2>1. sagas[s].phase \in {"Confirmed", "Done"}
    BY <1>2, <1>3, <1>5 DEF Taking
  <2>2. s \notin undo.sagas
    BY <1>5, OneOfTwo
  <2> QED
    BY <1>1, <1>3, <2>1, <2>2 DEF PhaseSteps, PhaseStep
<1>6. ASSUME s = 1, NEW t \in DOMAIN sagas', t # 1 PROVE sagas'[t].phase = "Copying"
  <2>1. CASE t \notin DOMAIN sagas
    BY <2>1, NextNew DEF NewSagas
  <2>2. CASE t \in DOMAIN sagas /\ Takes(a, s)
    <3>1. sagas[t].phase = "Copying"
      BY <1>3, <1>6, <2>2 DEF Taking
    <3>2. To(t) = a
      BY <1>3, <1>6, <2>2, TakesIs DEF Back
    <3>3. pass[a].pc \in {"mark", "expunge"}
      BY <2>2 DEF Takes
    <3>4. t \notin undo.sagas
      BY <1>6, OneOfTwo
    <3>5. ASSUME NEW b \in Accounts, Confirm(b), SagaOf(b) = t PROVE FALSE
      <4>1. pass[b].pc = "confirm"
        BY <3>5 DEF Confirm, At
      <4>2. To(t) = b
        BY <3>5, <4>1, CopiesTo
      <4> QED
        BY <3>2, <3>3, <4>1, <4>2
    <3> QED
      BY <1>1, <2>2, <3>1, <3>2, <3>3, <3>4, <3>5 DEF PhaseSteps, PhaseStep
  <2>3. CASE t \in DOMAIN sagas /\ sagas[s].phase = "Confirmed"
    BY <1>6, <2>3 DEF Back
  <2> QED
    BY <1>2, <2>1, <2>2, <2>3
<1> QED
  BY <1>4, <1>5, <1>6

LEMMA LostKeeps ==
    ASSUME MoveInv, Apart, OneCommand, Back, Kept, Taking, NeverLost, [Next]_vars
    PROVE  NeverLost'
<1>1. Grows /\ (NoLoss \/ \E b \in Accounts : RemoveExpunge(b))
  BY NextEffects DEF Effects
<1>2. CASE NoLoss
  BY <1>2 DEF NoLoss, NeverLost
<1>3. ASSUME NEW b \in Accounts, RemoveExpunge(b) PROVE NeverLost'
  <2>1. PICK s : Takes(b, s)
    BY <1>3 DEF Takes, RemoveExpunge, At
  <2>2. s \in DOMAIN sagas
    BY <2>1, TakesIs
  <2>3. There(s)'
    BY <2>1, <2>2, StandsStill
  <2>4. PICK u : u \in OnServer(To(s))'
    BY <2>3 DEF There
  <2>5. u \in DOMAIN copies' /\ ~copies'[u].gone
    BY <2>4 DEF OnServer
  <2>6. copies'[u].at \in Accounts
    <3>1. copies' \in Seq(CopyShape)
      BY <1>1 DEF Grows, CopiesGrow
    <3>2. copies'[u] \in CopyShape
      BY <2>5, <3>1, ElementIn
    <3> QED
      BY <3>2 DEF CopyShape
  <2> QED
    BY <2>5, <2>6 DEF NeverLost, OnServer
<1> QED
  BY <1>1, <1>2, <1>3

LEMMA NextLoss == MoveInv /\ ConfirmThere /\ LossInv /\ [Next]_vars => LossInv'
<1> SUFFICES ASSUME MoveInv, ConfirmThere, LossInv, [Next]_vars PROVE LossInv'
  OBVIOUS
<1>1. Apart' /\ UndoReads'
  BY ApartKeeps, UndoReadsKeeps DEF LossInv
<1>2. ASSUME acts' <= 1 PROVE OneLoss'
  <2>1. acts <= 1
    <3>1. acts' = acts \/ acts' = acts + 1
      BY NextCommands DEF CommandStep, Move, OtherCommand, StartUndo, UndoOne, OtherStep
    <3>2. acts \in Nat
      BY DEF MoveInv, Shapes
    <3> QED
      BY <1>2, <3>1, <3>2
  <2>2. Apart /\ UndoReads /\ OneCommand /\ Back /\ Kept /\ Taking /\ NeverLost
    BY <2>1 DEF LossInv, OneLoss
  <2>3. OneCommand' /\ Back'
    BY <1>2, <2>2, OneCommandKeeps, BackKeeps
  <2>4. Kept' /\ Taking' /\ NeverLost'
    BY <2>2, KeptKeeps, TakingKeeps, LostKeeps
  <2> QED
    BY <2>3, <2>4 DEF OneLoss
<1> QED
  BY <1>1, <1>2 DEF LossInv

LEMMA InitLoss == Init => LossInv
<1> SUFFICES ASSUME Init PROVE LossInv
  OBVIOUS
<1>1. DOMAIN sagas = {} /\ Len(sagas) = 0 /\ undo.sagas = {} /\ stack = <<>> /\ acts = 0
      /\ sagas = <<>> /\ Len(stack) = 0
  BY DEF Init, NoUndo
<1>2. OneCommand
  BY <1>1 DEF OneCommand
<1>3. Apart /\ UndoReads /\ Back /\ Kept /\ Taking
  BY <1>1 DEF Apart, UndoReads, Back, Kept, Taking
<1>4. 1 \in OnServer(Home)
  BY DEF Init, OnServer
<1> QED
  BY <1>2, <1>3, <1>4 DEF LossInv, OneLoss, NeverLost

\* Up to its second command, the message is on a server at least: whatever a
\* move and its undo, both drainers, their retries, a sync and any number of
\* crashes interleave to, the original goes only while the copy is there
\* (cross_account.rs:8).  A second move given before the first has settled does
\* lose it.
THEOREM OneCommandLosesNothing == Spec => [](acts <= 1 => NeverLost)
<1>1. LossInv => (acts <= 1 => NeverLost)
  BY DEF LossInv, OneLoss
<1> QED
  BY <1>1, InitLoss, NextLoss, MoveInvHolds, ConfirmHolds, PTL DEF Spec
=============================================================================

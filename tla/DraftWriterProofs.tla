------------------------- MODULE DraftWriterProofs -------------------------
(***************************************************************************)
(* Proofs about DraftWriter, for both frontends and every number of        *)
(* compositions, changes, writes on their way and faults.                  *)
(***************************************************************************)
EXTENDS DraftWriter, SequenceTheorems, TLAPS

USE FrontendsAssumption, BoundsAssumption

-----------------------------------------------------------------------------
(* What DraftWriter keeps true besides its properties.                     *)

Places   == DOMAIN queue
Makes(i) == queue[i].kind # "discard"

\* The terminal closed and nothing waits: what was in the fields is done with.
Spent == ~Desktop /\ ~composer.open /\ ~composer.armed

\* No document, write or row is ahead of the composition in the fields.
Bounds ==
    /\ composer.words.doc <= composer.gen
    /\ composer.gen = 0 => ~composer.open /\ composer.id = None /\ Drops(composer)
    /\ \A a \in answers : a.gen >= 1
    /\ \A i \in Places : 1 <= queue[i].gen /\ queue[i].words.doc <= queue[i].gen
    /\ \A r \in DOMAIN rows : rows[r].doc <= composer.gen
    /\ \A d \in emptied : d <= composer.gen
    /\ current = NoCurrent \/ (current.gen >= 1 /\ current.id # None)
    /\ request.step # "none" => request.id # None

\* Compositions are written in the order they were begun.
InOrder ==
    /\ \A i, j \in Places : i < j => queue[i].gen <= queue[j].gen
    /\ \A i \in Places : current.gen <= queue[i].gen

\* A discard ends its composition, and so does a send, but for the discard
\* behind it; the fields have moved on from both.
Ended ==
    /\ \A i, j \in Places : i < j =>
          /\ queue[i].kind = "discard" => queue[i].gen < queue[j].gen
          /\ queue[i].kind = "send" => queue[i].gen < queue[j].gen \/ queue[j].kind = "discard"
    /\ \A i \in Places : queue[i].kind # "save" => queue[i].gen < composer.gen \/ Spent
    /\ \A i \in Places : queue[i].kind = "send" => queue[i].gen \in sent
    /\ \A g \in sent : g < composer.gen \/ (g = composer.gen /\ Spent)

\* A composition is of one document from beginning to end.
SameDoc ==
    /\ \A i, j \in Places : queue[i].gen = queue[j].gen => queue[i].words.doc = queue[j].words.doc
    /\ \A i \in Places : queue[i].gen = composer.gen => queue[i].words.doc = composer.words.doc

\* Every id a write, the fields, a resume or an answer is about to be used with
\* is of the row of the same document.
OwnRows ==
    /\ \A i \in Places : queue[i].id # None /\ (Makes(i) \/ ~Desktop) =>
                         rows[queue[i].id].doc = queue[i].words.doc
    /\ composer.id # None => rows[composer.id].doc = composer.words.doc
    /\ request.step # "none" => rows[request.id].doc = request.words.doc
    /\ \A a \in answers : a.gen = composer.gen => rows[a.id].doc = composer.words.doc
    /\ \A i \in Places : current.id # None /\ queue[i].gen = current.gen =>
                         rows[current.id].doc = queue[i].words.doc
    /\ current.id # None /\ composer.gen = current.gen =>
                         rows[current.id].doc = composer.words.doc
    /\ Desktop /\ composer.words.doc # composer.gen => composer.id # None /\ last = composer.id

\* The writer knows the row of the document g, if it has one.
Known(g) == \A r \in DOMAIN rows : rows[r].doc = g => current = [gen |-> g, id |-> r]

\* What goes without an id is of a document its own composition began, and the
\* row of such a document is known for as long as a write of it may come.
Unsaved ==
    /\ \A i \in Places : Makes(i) /\ queue[i].id = None => queue[i].words.doc = queue[i].gen
    /\ composer.id = None => composer.words.doc = composer.gen
    /\ \A i \in Places : queue[i].words.doc = queue[i].gen /\ (Makes(i) \/ queue[i].gen \notin sent)
                         => Known(queue[i].gen)
    /\ composer.words.doc = composer.gen /\ ~Spent => Known(composer.gen)

\* The discard behind a send has no id, and finds that the writer has forgotten
\* the composition.
AfterSend ==
    \A i \in Places : queue[i].kind = "discard" /\ queue[i].gen \in sent =>
        /\ queue[i].id = None
        /\ \/ \E j \in Places : j < i /\ queue[j].kind = "send" /\ queue[j].gen = queue[i].gen
           \/ /\ current.gen # queue[i].gen
              /\ \A j \in Places : Makes(j) => queue[j].gen # queue[i].gen

\* The words the timer is armed for.
Waiting(d) == composer.open /\ composer.armed /\ composer.words = Words(d, latest[d])

HandedOver ==
    \A d \in Docs \ excused : latest[d] = 0 \/ latest[d] <= landed[d] \/ OnTheWay(d) \/ Waiting(d)

\* The discard at j is to take row r.
Aimed(j, r) == /\ queue[j].kind = "discard"
               /\ queue[j].gen \notin sent
               /\ queue[j].words.doc = rows[r].doc
               /\ queue[j].gen = rows[r].doc \/ queue[j].id = r

\* A discard is on its way to every row of a message closed empty, and behind
\* every save that would make one.
Emptying ==
    /\ \A r \in DOMAIN rows : rows[r].doc \in emptied =>
          rows[r].state = "gone" \/ \E j \in Places : Aimed(j, r)
    /\ \A i \in Places : Makes(i) /\ queue[i].id = None /\ queue[i].gen \in emptied =>
          \/ \E r \in DOMAIN rows : rows[r].doc = queue[i].gen
          \/ \E j \in Places : /\ i < j /\ queue[j].kind = "discard"
                               /\ queue[j].gen = queue[i].gen /\ queue[j].gen \notin sent
    /\ composer.words.doc \in emptied /\ composer.id = None => Spent

Inv == /\ TypeOK /\ OneRowEach /\ WordsStayApart
       /\ Bounds /\ InOrder /\ Ended /\ SameDoc /\ OwnRows /\ Unsaved
       /\ AfterSend /\ HandedOver /\ Emptying

-----------------------------------------------------------------------------
(* The types, in parts.                                                    *)

States        == {"editing", "queued", "gone"}
OpSet(g, n)   == [kind : {"save", "send", "discard"}, gen : 0 .. g, id : 0 .. n, words : WordsSet]
FieldsSet(n)  == [open : BOOLEAN, gen : Docs, prev : Docs, id : 0 .. n, words : WordsSet,
                  armed : BOOLEAN]
RequestSet(n) == [step : {"none", "cancel", "open"}, id : 0 .. n, words : WordsSet]

FieldsType == /\ frontend \in Frontends
              /\ composer \in FieldsSet(Len(rows))
              /\ composer.armed => composer.open \/ Desktop
              /\ last \in Ids
              /\ request \in RequestSet(Len(rows))
QueueType  == queue \in Seq(OpSet(composer.gen, Len(rows))) /\ Len(queue) <= MaxQueue
WriterType == /\ current \in [gen : 0 .. composer.gen, id : Ids]
              /\ answers \subseteq [gen : 0 .. composer.gen, id : Ids \ {None}]
RowsType   == rows \in Seq([doc : Docs, words : WordsSet, state : States])
GhostType  == /\ latest \in [Docs -> Stamps] /\ landed \in [Docs -> Stamps]
              /\ excused \subseteq Docs /\ emptied \subseteq Docs
              /\ sent \subseteq Docs
              /\ typed \in Stamps
              /\ faults \in 0 .. MaxFaults
Types == FieldsType /\ QueueType /\ WriterType /\ RowsType /\ GhostType

LEMMA TypeParts == TypeOK <=> Types
<1>1. /\ {latest, landed} \subseteq [Docs -> Stamps]
         <=> latest \in [Docs -> Stamps] /\ landed \in [Docs -> Stamps]
      /\ {excused, emptied} \subseteq SUBSET Docs <=> excused \subseteq Docs /\ emptied \subseteq Docs
  BY ZenonT(40)
<1>2. GhostType <=> /\ {latest, landed} \subseteq [Docs -> Stamps]
                    /\ {excused, emptied} \subseteq SUBSET Docs
                    /\ sent \subseteq Docs
                    /\ typed \in Stamps
                    /\ faults \in 0 .. MaxFaults
  BY <1>1, Zenon DEF GhostType
<1> QED
  BY <1>2, ZenonT(60) DEF TypeOK, Types, FieldsType, QueueType, WriterType, RowsType, OpSet, FieldsSet,
     RequestSet, States, Ids

LEMMA TypePartsNext == TypeOK' <=> Types'
BY TypeParts, PTL

\* The numbers the arguments below reckon with.
Reckoned ==
    /\ composer.gen \in Nat /\ composer.gen <= MaxGen /\ composer.words.doc \in Docs
    /\ Len(queue) \in Nat /\ Places = 1 .. Len(queue)
    /\ Len(rows) \in Nat /\ DOMAIN rows = 1 .. Len(rows)
    /\ \A i \in Places : /\ queue[i].gen \in Nat /\ queue[i].gen <= composer.gen
                         /\ queue[i].words \in WordsSet
                         /\ queue[i].words.doc \in Docs /\ queue[i].id \in Ids
                         /\ queue[i].kind \in {"save", "send", "discard"}
    /\ current.gen \in Nat /\ current.gen <= composer.gen /\ current.id \in Ids
    /\ composer.id \in Ids /\ last \in Ids /\ request.id \in Ids
    /\ \A a \in answers : a.gen \in Nat /\ a.gen <= composer.gen /\ a.id \in DOMAIN rows
    /\ \A r \in DOMAIN rows : rows[r].doc \in Docs /\ rows[r].words \in WordsSet
    /\ sent \subseteq Nat /\ emptied \subseteq Nat

LEMMA Reckon == ASSUME TypeOK PROVE Reckoned
<1>1. Types
  BY TypeParts
<1>2. /\ composer.gen \in Nat /\ composer.gen <= MaxGen /\ composer.words.doc \in Docs
      /\ composer.id \in Ids /\ last \in Ids /\ request.id \in Ids
  BY <1>1 DEF Types, FieldsType, FieldsSet, RequestSet, Docs, WordsSet, Ids
<1>3. Len(queue) \in Nat /\ Places = 1 .. Len(queue)
  BY <1>1, LenProperties DEF Types, QueueType, Places
<1>4. Len(rows) \in Nat /\ DOMAIN rows = 1 .. Len(rows)
  BY <1>1, LenProperties DEF Types, RowsType
<1>5. \A i \in Places : queue[i] \in OpSet(composer.gen, Len(rows))
  BY <1>1, <1>3, ElementOfSeq DEF Types, QueueType
<1>6. \A r \in DOMAIN rows : rows[r] \in [doc : Docs, words : WordsSet, state : States]
  BY <1>1, <1>4, ElementOfSeq DEF Types, RowsType
<1>7. \A i \in Places : /\ queue[i].gen \in Nat /\ queue[i].gen <= composer.gen
                        /\ queue[i].words \in WordsSet
                        /\ queue[i].words.doc \in Docs /\ queue[i].id \in Ids
                        /\ queue[i].kind \in {"save", "send", "discard"}
  BY <1>2, <1>5 DEF OpSet, WordsSet, Ids
<1>8. /\ current.gen \in Nat /\ current.gen <= composer.gen /\ current.id \in Ids
      /\ \A a \in answers : a.gen \in Nat /\ a.gen <= composer.gen /\ a.id \in DOMAIN rows
  BY <1>1, <1>2, <1>4 DEF Types, WriterType, Ids, None
<1>9. sent \subseteq Nat /\ emptied \subseteq Nat
  BY <1>1 DEF Types, GhostType, Docs
<1> QED
  BY <1>2, <1>3, <1>4, <1>6, <1>7, <1>8, <1>9 DEF Reckoned

LEMMA ReckonNext == ASSUME TypeOK' PROVE Reckoned'
BY Reckon, PTL

-----------------------------------------------------------------------------
(* The steps of the user and the frontend, seen alike: they hand over at   *)
(* most two writes of what is in the fields, and the fields stay with      *)
(* their composition or move on.                                           *)

SameFields == /\ composer'.gen = composer.gen
              /\ composer'.id = composer.id
              /\ composer'.words.doc = composer.words.doc
              /\ composer'.words = composer.words \/ composer.open
              /\ composer'.open => composer.open
              /\ Spent => Spent'
Refilled   == /\ composer'.gen > composer.gen
              /\ composer'.id = None
              /\ composer'.words.doc = composer'.gen
Resumed    == /\ composer'.gen > composer.gen
              /\ request.step = "open"
              /\ composer'.id = request.id
              /\ composer'.words = request.words

FieldsMove == /\ composer' \in FieldsSet(Len(rows))
              /\ composer'.armed => composer'.open \/ Desktop
              /\ composer'.gen >= composer.gen
              /\ SameFields \/ Refilled \/ Resumed
              /\ last' \in Ids
              /\ Desktop => Refilled \/ last' = composer'.id \/ (SameFields /\ last' = last)
              /\ request' \in {request, Idle}

\* The fields have something to write.
Holding == composer.open \/ composer.id # None \/ composer.words.n # 0

\* A write of what is in the fields.
IsHanded(op) ==
    /\ op.words = composer.words
    /\ op.kind # "discard" => op.gen = composer.gen /\ op.id = composer.id
    /\ op.kind = "discard" => /\ op.gen \in {composer.gen, composer.gen + 1}
                              /\ ~Desktop => op.gen = composer.gen /\ op.id = composer.id
    /\ op.kind # "save" => op.gen < composer'.gen \/ Spent'
    /\ op.kind = "send" => op.gen \in sent'

HandsOver(ops) ==
    /\ ops \in Seq(OpSet(composer'.gen, Len(rows)))
    /\ Len(ops) <= 2
    /\ Room \/ ops = <<>>
    /\ queue' = queue \o ops
    /\ ops # <<>> => ~Spent /\ Holding
    /\ \A k \in 1 .. Len(ops) : IsHanded(ops[k])
    /\ Len(ops) = 2 => /\ ops[1].kind # "discard" /\ ops[2].kind = "discard"
                       /\ ops[2].gen = composer.gen

MarksSent(ops) ==
    \/ sent' = sent
    \/ /\ sent' = sent \cup {composer.gen}
       /\ ~Spent
       /\ composer.gen < composer'.gen \/ Spent'
       /\ \A k \in 1 .. Len(ops) : ops[k].kind = "discard" =>
             k = 2 /\ ops[k].id = None /\ ops[1].kind = "send"

MarksEmpty(ops) ==
    \/ emptied' = emptied
    \/ /\ emptied' = emptied \cup {composer.words.doc}
       /\ ~Spent
       /\ sent' = sent
       /\ Refilled \/ Spent'
       /\ Len(ops) # 0
       /\ ops[Len(ops)].kind = "discard"
       /\ ops[Len(ops)].gen = composer.gen
       /\ ops[Len(ops)].id = IF Desktop THEN last ELSE composer.id

Edited(n) == /\ composer'.open /\ composer'.armed
             /\ composer'.words = Words(composer.words.doc, n)
             /\ latest' = [latest EXCEPT ![composer.words.doc] = n]

KeepsWords(ops) ==
    \/ \E n \in Stamps : Edited(n)
    \/ /\ latest' = latest
       /\ composer.open /\ composer.armed =>
             \/ composer'.open /\ composer'.armed /\ composer'.words = composer.words
             \/ composer.words.n = 0
             \/ composer.words.doc \in excused'
             \/ \E k \in 1 .. Len(ops) : ops[k].kind # "discard" /\ ops[k].words = composer.words

GhostsMove == /\ latest' \in [Docs -> Stamps] /\ landed' = landed
              /\ excused \subseteq excused' /\ excused' \subseteq Docs
              /\ typed' \in Stamps /\ faults' = faults

Handed(ops) == /\ UNCHANGED <<frontend, writer_vars>>
               /\ FieldsMove /\ HandsOver(ops)
               /\ MarksSent(ops) /\ MarksEmpty(ops) /\ KeepsWords(ops)
               /\ GhostsMove

\* What the steps are argued from.
Fields == /\ Reckoned
          /\ frontend \in Frontends
          /\ composer \in FieldsSet(Len(rows))
          /\ composer.armed => composer.open \/ Desktop
          /\ request \in RequestSet(Len(rows))
          /\ latest \in [Docs -> Stamps] /\ typed \in Stamps
          /\ excused \subseteq Docs /\ sent \subseteq Docs /\ emptied \subseteq Docs
          /\ queue \in Seq(OpSet(composer.gen, Len(rows)))

LEMMA FieldsHold == ASSUME TypeOK PROVE Fields
BY TypeParts, Reckon DEF Types, FieldsType, GhostType, QueueType, Fields

\* A save, a send and a discard of what is in the fields are writes.
LEMMA OpsOfFields ==
    ASSUME Fields, NEW kind \in {"save", "send", "discard"}, NEW g \in Docs, NEW id \in Ids,
           NEW G, G \in Nat, g <= G
    PROVE  /\ [kind |-> kind, gen |-> g, id |-> id, words |-> composer.words] \in OpSet(G, Len(rows))
           /\ composer.gen <= G => Op(kind, composer, composer.id) \in OpSet(G, Len(rows))
BY DEF Fields, Reckoned, OpSet, FieldsSet, Op, Docs, Ids

\* Handing over nothing, one write or two.
LEMMA Nothing ==
    ASSUME Fields, NEW S
    PROVE  <<>> \in Seq(S) /\ Len(<<>>) = 0 /\ queue = queue \o <<>>
BY EmptySeq, ConcatEmptySeq DEF Fields

LEMMA One ==
    ASSUME NEW S, NEW x \in S
    PROVE  /\ <<x>> \in Seq(S) /\ Len(<<x>>) = 1 /\ <<x>>[1] = x /\ <<x>> # <<>>
           /\ \A k \in 1 .. Len(<<x>>) : k = 1
OBVIOUS

LEMMA Two ==
    ASSUME NEW S, NEW x \in S, NEW y \in S
    PROVE  /\ <<x, y>> \in Seq(S) /\ Len(<<x, y>>) = 2 /\ <<x, y>>[1] = x /\ <<x, y>>[2] = y
           /\ <<x, y>> # <<>>
           /\ \A k \in 1 .. Len(<<x, y>>) : k = 1 \/ k = 2
           /\ <<x>> \o <<y>> = <<x, y>>
<1>1. /\ <<x, y>> \in Seq(S) /\ Len(<<x, y>>) = 2 /\ <<x, y>>[1] = x /\ <<x, y>>[2] = y
      /\ <<x, y>> # <<>>
      /\ \A k \in 1 .. Len(<<x, y>>) : k = 1 \/ k = 2
  OBVIOUS
<1>2. <<x>> \in Seq(S) /\ <<y>> \in Seq(S) /\ Len(<<x>>) = 1 /\ Len(<<y>>) = 1
      /\ <<x>>[1] = x /\ <<y>>[1] = y
  OBVIOUS
<1> DEFINE both == <<x>> \o <<y>>
<1>3. both \in Seq(S) /\ Len(both) = 2 /\ both[1] = x /\ both[2] = y
  BY <1>2, ConcatProperties
<1> HIDE DEF both
<1>4. \A i \in 1 .. Len(both) : both[i] = <<x, y>>[i]
  BY <1>1, <1>3
<1>5. both = <<x, y>>
  BY <1>1, <1>3, <1>4, SeqEqual
<1> QED
  BY <1>1, <1>5 DEF both

\* A step that hands nothing over.
LEMMA HandsNothing ==
    ASSUME TypeOK, queue' = queue, FieldsMove, sent' = sent, emptied' = emptied
    PROVE  HandsOver(<<>>) /\ MarksSent(<<>>) /\ MarksEmpty(<<>>)
<1>1. Fields
  BY FieldsHold
<1>2. <<>> \in Seq(OpSet(composer'.gen, Len(rows))) /\ Len(<<>>) = 0 /\ queue = queue \o <<>>
  BY <1>1, Nothing
<1> QED
  BY <1>2 DEF HandsOver, MarksSent, MarksEmpty

\* The next composition, in the fields.
LEMMA FillFields ==
    ASSUME Fields, Fills(1), NEW id \in Ids, NEW words \in WordsSet
    PROVE  /\ Fill(composer, id, words) \in FieldsSet(Len(rows))
           /\ Fill(composer, id, words).gen = composer.gen + 1
           /\ Fill(composer, id, words).prev = composer.gen
           /\ Fill(composer, id, words).id = id
           /\ Fill(composer, id, words).words = words
           /\ Fill(composer, id, words).armed = Desktop
<1>1. composer \in FieldsSet(Len(rows)) /\ composer.gen \in Docs /\ composer.gen + 1 \in Docs
  BY DEF Fields, Reckoned, Fills, FieldsSet, Docs
<1>2. id \in 0 .. Len(rows) /\ Desktop \in BOOLEAN
  BY DEF Ids, Desktop
<1> QED
  BY <1>1, <1>2 DEF Fill, FieldsSet

LEMMA FillNewFields ==
    ASSUME Fields, Fills(1)
    PROVE  /\ FillNew(composer) \in FieldsSet(Len(rows))
           /\ FillNew(composer).gen = composer.gen + 1
           /\ FillNew(composer).prev = composer.gen
           /\ FillNew(composer).id = None
           /\ FillNew(composer).words = Words(composer.gen + 1, 0)
           /\ FillNew(composer).words.doc = composer.gen + 1
           /\ FillNew(composer).armed = Desktop
<1>1. None \in Ids /\ Words(composer.gen + 1, 0) \in WordsSet
      /\ Words(composer.gen + 1, 0).doc = composer.gen + 1
  <2>1. None \in Ids /\ composer.gen \in Nat
    BY DEF Fields, Reckoned, None, Ids
  <2>2. composer.gen + 1 \in Docs /\ 0 \in Stamps
    BY <2>1 DEF Fills, Docs, Stamps
  <2> QED
    BY <2>1, <2>2 DEF Words, WordsSet
<1> QED
  BY <1>1, FillFields DEF FillNew

LEMMA OpenHands == ASSUME TypeOK, Open PROVE Handed(<<>>)
<1>1. Fields
  BY FieldsHold
<1>2. composer' = [FillNew(composer) EXCEPT !.open = TRUE] /\ Fills(1) /\ ~composer.open
      /\ last' = last /\ request' = request
  BY DEF Open
<1>3. /\ composer' \in FieldsSet(Len(rows))
      /\ composer'.gen = composer.gen + 1 /\ composer'.id = None
      /\ composer'.words.doc = composer.gen + 1 /\ composer'.armed = Desktop
  BY <1>1, <1>2, FillNewFields DEF FieldsSet
<1>4. FieldsMove
  BY <1>1, <1>2, <1>3 DEF FieldsMove, Refilled, Fields, Reckoned
<1> QED
  BY <1>1, <1>2, <1>4, HandsNothing
  DEF Open, Handed, KeepsWords, GhostsMove, Fields, ghosts

LEMMA EditHands ==
    ASSUME TypeOK, NEW n \in Stamps, Edit(n), typed' \in Stamps
    PROVE  Handed(<<>>)
<1>1. Fields
  BY FieldsHold
<1>2. /\ composer' \in FieldsSet(Len(rows)) /\ SameFields
      /\ composer'.open /\ composer'.armed
      /\ composer'.words = Words(composer.words.doc, n)
      /\ composer'.gen = composer.gen
  BY <1>1 DEF Edit, Fields, Reckoned, FieldsSet, SameFields, WordsSet, Words, Spent
<1>3. FieldsMove
  BY <1>1, <1>2 DEF Edit, FieldsMove, Fields, Reckoned
<1>4. KeepsWords(<<>>)
  BY <1>2 DEF Edit, KeepsWords, Edited
<1>5. GhostsMove
  <2>1. latest' \in [Docs -> Stamps]
    BY <1>1 DEF Edit, Fields, Reckoned
  <2> QED
    BY <2>1, <1>1 DEF Edit, GhostsMove, Fields
<1> QED
  BY <1>3, <1>4, <1>5, HandsNothing DEF Edit, Handed

LEMMA TypingHands == ASSUME TypeOK, Type \/ Erase PROVE Handed(<<>>)
<1>1. typed \in 0 .. MaxTyped /\ MaxTyped \in Nat
  BY FieldsHold DEF Fields, Stamps
<1>2. CASE Type
  <2>1. typed' \in Stamps /\ Edit(typed')
    BY <1>1, <1>2 DEF Type, Stamps
  <2> QED
    BY <2>1, EditHands
<1>3. CASE Erase
  <2>1. typed' \in Stamps /\ Edit(0) /\ 0 \in Stamps
    BY <1>1, <1>3 DEF Erase, Stamps
  <2> QED
    BY <2>1, EditHands
<1> QED
  BY <1>2, <1>3

LEMMA LateReportHands == ASSUME TypeOK, LateReport PROVE Handed(<<>>)
<1>1. Fields
  BY FieldsHold
<1>2. /\ composer' \in FieldsSet(Len(rows)) /\ SameFields
      /\ composer'.gen = composer.gen /\ Desktop
  BY <1>1 DEF LateReport, Fields, Reckoned, FieldsSet, SameFields, Spent
<1>3. FieldsMove
  BY <1>1, <1>2 DEF LateReport, FieldsMove, Fields, Reckoned
<1>4. ~composer.open
  BY DEF LateReport
<1> QED
  BY <1>1, <1>3, <1>4, HandsNothing
  DEF LateReport, Handed, KeepsWords, GhostsMove, Fields, ghosts

\* A step that hands over a save of what is in the fields, where there is one.
LEMMA SaveIs ==
    ASSUME Fields, NEW G, G \in Nat, composer.gen <= G
    PROVE  /\ Save(composer) \in Seq(OpSet(G, Len(rows)))
           /\ \/ Save(composer) = <<>> /\ composer.words.n = 0
              \/ Len(Save(composer)) = 1 /\ Save(composer)[1] = Op("save", composer, composer.id)
<1>1. composer.gen \in Docs /\ composer.id \in Ids
  BY DEF Fields, Reckoned, Docs
<1>2. Op("save", composer, composer.id) \in OpSet(G, Len(rows))
  BY <1>1, OpsOfFields
<1>3. CASE Desktop /\ composer.id = None /\ Drops(composer)
  BY <1>3, EmptySeq DEF Save, Drops
<1>4. CASE ~(Desktop /\ composer.id = None /\ Drops(composer))
  <2>1. Save(composer) = <<Op("save", composer, composer.id)>>
    BY <1>4 DEF Save
  <2> QED
    BY <1>2, <2>1, One
<1> QED
  BY <1>3, <1>4

LEMMA HandsSave ==
    ASSUME TypeOK, Room, ~Spent, queue' = queue \o Save(composer), composer'.gen \in Nat,
           composer.gen <= composer'.gen, sent' = sent, emptied' = emptied
    PROVE  /\ HandsOver(Save(composer)) /\ MarksSent(Save(composer)) /\ MarksEmpty(Save(composer))
           /\ \/ composer.words.n = 0
              \/ \E k \in 1 .. Len(Save(composer)) :
                    /\ Save(composer)[k].kind # "discard"
                    /\ Save(composer)[k].words = composer.words
<1>1. Fields
  BY FieldsHold
<1> DEFINE ops == Save(composer)
<1>2. /\ ops \in Seq(OpSet(composer'.gen, Len(rows)))
      /\ \/ ops = <<>> /\ composer.words.n = 0
         \/ Len(ops) = 1 /\ ops[1] = Op("save", composer, composer.id)
  BY <1>1, SaveIs
<1>3. IsHanded(Op("save", composer, composer.id))
  BY DEF IsHanded, Op
<1>4. \A k \in 1 .. Len(ops) : k = 1 /\ Len(ops) = 1 /\ ops[k] = Op("save", composer, composer.id)
  BY <1>2, EmptySeq
<1>5. Len(ops) \in {0, 1}
  BY <1>2, EmptySeq
<1> HIDE DEF ops
<1>6. HandsOver(ops)
  <2>1. ops # <<>> => Holding
    BY <1>1, <1>2 DEF Holding, Spent, Fields, Save, Drops, ops
  <2> QED
    BY <1>2, <1>3, <1>4, <1>5, <2>1 DEF HandsOver, ops
<1>7. composer.words.n = 0 \/ \E k \in 1 .. Len(ops) : /\ ops[k].kind # "discard"
                                                       /\ ops[k].words = composer.words
  <2>1. CASE composer.words.n # 0
    <3>1. Len(ops) = 1 /\ ops[1] = Op("save", composer, composer.id) /\ 1 \in 1 .. Len(ops)
      BY <1>2, <2>1
    <3>2. ops[1].kind # "discard" /\ ops[1].words = composer.words
      BY <3>1 DEF Op
    <3> QED
      BY <3>1, <3>2
  <2> QED
    BY <2>1
<1> QED
  BY <1>6, <1>7 DEF MarksSent, MarksEmpty, ops

LEMMA AutosaveHands == ASSUME TypeOK, Autosave PROVE Handed(Save(composer))
<1>1. Fields
  BY FieldsHold
<1>2. /\ composer' = [composer EXCEPT !.armed = FALSE] /\ Room /\ composer.armed
      /\ last' = last /\ request' = request /\ queue' = queue \o Save(composer)
  BY DEF Autosave
<1>3. /\ composer' \in FieldsSet(Len(rows)) /\ SameFields
      /\ composer'.gen = composer.gen /\ composer'.armed = FALSE /\ ~Spent
  BY <1>1, <1>2 DEF Autosave, Fields, Reckoned, FieldsSet, SameFields, Spent
<1>4. FieldsMove
  BY <1>1, <1>2, <1>3 DEF FieldsMove, Fields, Reckoned
<1>5. composer'.gen \in Nat /\ composer.gen <= composer'.gen
  BY <1>1, <1>3 DEF Fields, Reckoned
<1> QED
  BY <1>1, <1>2, <1>3, <1>4, <1>5, HandsSave
  DEF Autosave, Handed, KeepsWords, GhostsMove, Fields, ghosts

LEMMA SaveNowHands == ASSUME TypeOK, SaveNow PROVE Handed(Save(composer))
<1>1. Fields
  BY FieldsHold
<1>2. /\ composer' = composer /\ Room /\ composer.open
      /\ last' = last /\ request' = request /\ queue' = queue \o Save(composer)
  BY DEF SaveNow, compose_vars
<1>3. SameFields /\ ~Spent
  BY <1>2 DEF SaveNow, SameFields, Spent, Desktop
<1>4. FieldsMove
  BY <1>1, <1>2, <1>3 DEF FieldsMove, Fields, Reckoned, Desktop
<1>5. composer'.gen \in Nat /\ composer.gen <= composer'.gen
  BY <1>1, <1>2 DEF Fields, Reckoned
<1> QED
  BY <1>1, <1>2, <1>3, <1>4, <1>5, HandsSave
  DEF SaveNow, Handed, KeepsWords, GhostsMove, Fields, ghosts, compose_vars

LEMMA CloseKeptHands == ASSUME TypeOK, CloseKept PROVE \E ops : Handed(ops)
<1>1. Fields
  BY FieldsHold
<1>2. /\ composer' = [composer EXCEPT !.open = FALSE, !.armed = FALSE]
      /\ Room /\ composer.open /\ last' = last /\ request' = request
  BY DEF CloseKept, Shut
<1>3. /\ composer' \in FieldsSet(Len(rows)) /\ SameFields /\ ~composer'.open
      /\ composer'.gen = composer.gen /\ composer'.armed = FALSE /\ ~Spent
  BY <1>1, <1>2 DEF CloseKept, Fields, Reckoned, FieldsSet, SameFields, Spent
<1>4. FieldsMove
  BY <1>1, <1>2, <1>3 DEF FieldsMove, Fields, Reckoned
<1>5. composer'.gen \in Nat /\ composer.gen <= composer'.gen
  BY <1>1, <1>3 DEF Fields, Reckoned
<1>6. /\ UNCHANGED <<frontend, writer_vars>> /\ GhostsMove
      /\ sent' = sent /\ emptied' = emptied /\ latest' = latest
  BY <1>1 DEF CloseKept, GhostsMove, Fields, ghosts
<1>7. CASE queue' = queue \o Save(composer)
  <2>1. Handed(Save(composer))
    BY <1>2, <1>3, <1>4, <1>5, <1>6, <1>7, HandsSave DEF Handed, KeepsWords
  <2> QED
    BY <2>1
<1>8. CASE queue' = queue /\ ~composer.armed
  <2>1. Handed(<<>>)
    BY <1>4, <1>6, <1>8, HandsNothing DEF Handed, KeepsWords
  <2> QED
    BY <2>1
<1>9. queue' = queue \o Save(composer) \/ (queue' = queue /\ ~composer.armed)
  BY <1>1, Nothing DEF CloseKept, Flush
<1> QED
  BY <1>7, <1>8, <1>9

\* A step that hands over a discard, alone or behind another write.
DiscardOf(g, id) == [kind |-> "discard", gen |-> g, id |-> id, words |-> composer.words]

LEMMA HandsTwo ==
    ASSUME TypeOK, Room, ~Spent, composer.open, NEW g \in Docs, NEW id \in Ids, NEW ops,
           composer'.gen \in Nat, g <= composer'.gen, composer.gen <= composer'.gen,
           NEW a, a \in {Op("save", composer, composer.id), Op("send", composer, composer.id)},
           IsHanded(a), IsHanded(DiscardOf(g, id)),
           \/ ops = <<DiscardOf(g, id)>>
           \/ ops = <<a, DiscardOf(g, id)>> /\ g = composer.gen,
           queue' = queue \o ops
    PROVE  HandsOver(ops)
<1>1. Fields
  BY FieldsHold
<1> DEFINE S == OpSet(composer'.gen, Len(rows))
           d == DiscardOf(g, id)
<1>2. composer.gen \in Docs /\ composer.id \in Ids
  BY <1>1 DEF Fields, Reckoned, Docs
<1>3. a \in S
  BY <1>1, <1>2, OpsOfFields
<1>4. d \in S
  BY <1>1, OpsOfFields DEF DiscardOf
<1>5. a.kind # "discard" /\ d.kind = "discard" /\ d.gen = g
  BY DEF Op, DiscardOf
<1>6. queue' = queue \o ops /\ (ops = <<d>> \/ (ops = <<a, d>> /\ g = composer.gen))
  OBVIOUS
<1>7. IsHanded(a) /\ IsHanded(d)
  OBVIOUS
<1> HIDE DEF S, d
<1>8. /\ ops \in Seq(S)
      /\ Len(ops) \in {1, 2}
      /\ \A k \in 1 .. Len(ops) : ops[k] \in {a, d}
      /\ Len(ops) = 2 => ops[1] = a /\ ops[2] = d /\ g = composer.gen
  <2>1. CASE ops = <<d>>
    <3>1. ops \in Seq(S) /\ Len(ops) = 1 /\ ops[1] = d /\ \A k \in 1 .. Len(ops) : k = 1
      BY <1>4, <2>1, One
    <3> QED
      BY <3>1
  <2>2. CASE ops = <<a, d>> /\ g = composer.gen
    <3>1. ops \in Seq(S) /\ Len(ops) = 2 /\ ops[1] = a /\ ops[2] = d
          /\ \A k \in 1 .. Len(ops) : k = 1 \/ k = 2
      BY <1>3, <1>4, <2>2, Two
    <3> QED
      BY <2>2, <3>1
  <2> QED
    BY <1>6, <2>1, <2>2
<1>9. \A k \in 1 .. Len(ops) : IsHanded(ops[k])
  BY <1>7, <1>8
<1>10. Len(ops) = 2 => /\ ops[1].kind # "discard" /\ ops[2].kind = "discard"
                       /\ ops[2].gen = composer.gen
  BY <1>5, <1>8
<1>11. Len(ops) <= 2
  <2>1. Len(ops) = 1 \/ Len(ops) = 2
    BY <1>8
  <2> QED
    BY <2>1
<1> QED
  BY <1>6, <1>8, <1>9, <1>10, <1>11, Zenon DEF HandsOver, Holding, S

LEMMA FlushIs ==
    ASSUME Fields
    PROVE  Flush(composer) \in {<<>>, <<Op("save", composer, composer.id)>>}
BY DEF Flush, Save

\* The next composition, put away.
LEMMA ShutFields ==
    ASSUME NEW n, NEW f \in FieldsSet(n)
    PROVE  /\ Shut(f) \in FieldsSet(n)
           /\ Shut(f).gen = f.gen /\ Shut(f).id = f.id /\ Shut(f).words = f.words
           /\ Shut(f).prev = f.prev
           /\ Shut(f).open = FALSE /\ Shut(f).armed = FALSE
BY DEF Shut, FieldsSet

LEMMA CloseEmptyHands == ASSUME TypeOK, CloseEmpty PROVE \E ops : Handed(ops)
<1>1. Fields
  BY FieldsHold
<1>2. /\ Room /\ composer.open /\ composer.words.n = 0 /\ ~Spent /\ request' = request
      /\ UNCHANGED <<frontend, writer_vars>> /\ GhostsMove
      /\ sent' = sent /\ latest' = latest /\ emptied' = emptied \cup {composer.words.doc}
  BY <1>1 DEF CloseEmpty, Drops, Spent, GhostsMove, Fields
<1>3. composer.gen \in Docs /\ composer.gen \in Nat /\ last \in Ids /\ composer.id \in Ids
      /\ None \in Ids
  BY <1>1 DEF Fields, Reckoned, Docs, Ids, None
<1>4. CASE Desktop
  <2> DEFINE d == DiscardOf(composer.gen, last)
             save == Op("save", composer, composer.id)
             ops == IF Flush(composer) = <<>> THEN <<d>> ELSE <<save, d>>
  <2>1. Fills(1) /\ composer' = Shut(FillNew(composer)) /\ last' = None
        /\ queue' = (queue \o Flush(composer)) \o <<[DiscardOf(composer.gen, last) EXCEPT !.gen = FillNew(composer).prev]>>
    BY <1>4 DEF CloseEmpty, DiscardPrevious, DiscardOf
  <2>2. /\ composer' \in FieldsSet(Len(rows)) /\ Refilled
        /\ composer'.gen = composer.gen + 1 /\ composer'.armed = FALSE
    <3> DEFINE f == FillNew(composer)
    <3>1. /\ f \in FieldsSet(Len(rows)) /\ f.gen = composer.gen + 1 /\ f.id = None
          /\ f.words.doc = composer.gen + 1
      BY <1>1, <2>1, FillNewFields
    <3> HIDE DEF f
    <3>2. composer' = Shut(f)
      BY <2>1 DEF f
    <3>3. /\ composer' \in FieldsSet(Len(rows)) /\ composer'.gen = f.gen /\ composer'.id = f.id
          /\ composer'.words = f.words /\ composer'.armed = FALSE
      BY <3>1, <3>2, ShutFields
    <3> QED
      BY <1>3, <3>1, <3>3 DEF Refilled
  <2>3. queue' = (queue \o Flush(composer)) \o <<d>>
    BY <1>1, <2>1, FillNewFields DEF DiscardOf
  <2>4. IsHanded(save) /\ IsHanded(d) /\ composer'.gen \in Nat /\ composer.gen <= composer'.gen
    BY <1>3, <1>4, <2>2 DEF IsHanded, Op, DiscardOf
  <2>5. save \in OpSet(composer'.gen, Len(rows)) /\ d \in OpSet(composer'.gen, Len(rows))
    BY <1>1, <1>3, <2>4, OpsOfFields DEF DiscardOf
  <2>6. queue \in Seq(OpSet(composer'.gen, Len(rows)))
    <3>1. OpSet(composer.gen, Len(rows)) \subseteq OpSet(composer'.gen, Len(rows))
      BY <1>3, <2>4 DEF OpSet
    <3> QED
      BY <1>1, <3>1, SeqMonotonic DEF Fields
  <2> HIDE DEF save, d
  <2>7. queue' = queue \o ops /\ (ops = <<d>> \/ ops = <<save, d>>)
    <3>1. CASE Flush(composer) = <<>>
      BY <1>1, <2>3, <3>1, Nothing
    <3>2. CASE Flush(composer) = <<save>>
      <4>1. ops = <<save, d>> /\ <<save>> \o <<d>> = <<save, d>>
        BY <2>5, <3>2, Two
      <4>2. <<save>> \in Seq(OpSet(composer'.gen, Len(rows)))
            /\ <<d>> \in Seq(OpSet(composer'.gen, Len(rows)))
        BY <2>5, One
      <4>3. (queue \o <<save>>) \o <<d>> = queue \o (<<save>> \o <<d>>)
        BY <2>6, <4>2, ConcatAssociative
      <4> QED
        BY <2>3, <3>2, <4>1, <4>3
    <3> QED
      BY <1>1, <3>1, <3>2, FlushIs DEF save
  <2>8. Len(ops) # 0 /\ ops[Len(ops)] = d
    BY <2>5, <2>7, One, Two
  <2> HIDE DEF ops
  <2>9. HandsOver(ops)
    BY <1>2, <1>3, <2>4, <2>7, HandsTwo DEF save, d
  <2>10. MarksEmpty(ops)
    BY <1>2, <1>4, <2>2, <2>8 DEF MarksEmpty, d, DiscardOf
  <2>11. FieldsMove
    BY <1>2, <1>3, <2>1, <2>2 DEF FieldsMove
  <2>12. Handed(ops)
    BY <1>2, <2>9, <2>10, <2>11 DEF Handed, MarksSent, KeepsWords
  <2> QED
    BY <2>12
<1>5. CASE ~Desktop
  <2> DEFINE d == Op("discard", composer, composer.id)
             ops == <<d>>
  <2>1. composer' = [composer EXCEPT !.open = FALSE, !.armed = FALSE] /\ last' = last
        /\ queue' = Append(queue, d)
    BY <1>5 DEF CloseEmpty, Shut
  <2>2. /\ composer' \in FieldsSet(Len(rows)) /\ SameFields
        /\ composer'.gen = composer.gen /\ composer'.armed = FALSE /\ Spent'
    BY <1>1, <1>2, <1>5, <2>1 DEF Fields, FieldsSet, SameFields, Spent, Desktop
  <2>3. IsHanded(d) /\ composer'.gen \in Nat /\ composer.gen <= composer'.gen
        /\ d = DiscardOf(composer.gen, composer.id) /\ d.kind = "discard"
        /\ d.gen = composer.gen /\ d.id = composer.id
    BY <1>3, <1>5, <2>2 DEF IsHanded, Op, DiscardOf
  <2>4. d \in OpSet(composer.gen, Len(rows))
    <3>1. composer.gen <= composer.gen
      BY <1>3
    <3> QED
      BY <1>1, <1>3, <3>1, OpsOfFields
  <2> HIDE DEF d
  <2>5. queue' = queue \o ops
    BY <1>1, <2>1, <2>4, AppendIsConcat DEF Fields
  <2>6. HandsOver(ops)
    <3>1. IsHanded(Op("save", composer, composer.id))
      BY DEF IsHanded, Op
    <3> QED
      BY <1>2, <1>3, <2>3, <2>5, <3>1, HandsTwo
  <2>7. Len(ops) = 1 /\ ops[1] = d /\ ops[Len(ops)] = d /\ Len(ops) # 0
    OBVIOUS
  <2> HIDE DEF ops
  <2>8. MarksEmpty(ops)
    BY <1>2, <1>5, <2>2, <2>3, <2>7 DEF MarksEmpty
  <2>9. FieldsMove
    BY <1>2, <1>3, <1>5, <2>1, <2>2, <2>3 DEF FieldsMove
  <2>10. Handed(ops)
    BY <1>2, <2>6, <2>8, <2>9 DEF Handed, MarksSent, KeepsWords
  <2> QED
    BY <2>10
<1> QED
  BY <1>4, <1>5

LEMMA FillNewOf ==
    ASSUME NEW n \in Nat, NEW c \in FieldsSet(n), c.gen + 1 <= MaxGen
    PROVE  /\ FillNew(c) \in FieldsSet(n)
           /\ FillNew(c).gen = c.gen + 1 /\ FillNew(c).prev = c.gen
           /\ FillNew(c).id = None /\ FillNew(c).words.doc = c.gen + 1
<1>1. c.gen \in Docs /\ c.gen + 1 \in Docs
  BY DEF FieldsSet, Docs
<1>2. None \in 0 .. n /\ Words(c.gen + 1, 0) \in WordsSet /\ Words(c.gen + 1, 0).doc = c.gen + 1
  BY <1>1 DEF None, Words, WordsSet, Stamps
<1>3. Desktop \in BOOLEAN
  BY DEF Desktop
<1> QED
  BY <1>1, <1>2, <1>3 DEF FillNew, Fill, FieldsSet

LEMMA DiscardHands == ASSUME TypeOK, Discard PROVE \E ops : Handed(ops)
<1>1. Fields
  BY FieldsHold
<1>2. /\ Room /\ composer.open /\ ~Spent /\ request' = request /\ Desktop /\ last' = None
      /\ UNCHANGED <<frontend, writer_vars>> /\ Fills(2)
      /\ sent' = sent /\ latest' = latest /\ emptied' = emptied
      /\ composer' = Shut(FillNew(FillNew(composer)))
      /\ queue' = queue \o <<[kind |-> "discard", gen |-> FillNew(FillNew(composer)).prev,
                              id |-> last, words |-> composer.words]>>
  BY DEF Discard, Spent, DiscardPrevious
<1>3. GhostsMove /\ composer.words.doc \in excused'
  BY <1>1 DEF Discard, GhostsMove, Fields, Reckoned
<1>4. /\ composer.gen \in Nat /\ last \in Ids /\ Len(rows) \in Nat /\ None \in Ids
      /\ composer \in FieldsSet(Len(rows)) /\ composer.gen + 2 <= MaxGen
      /\ composer.gen + 1 \in Docs
  <2>1. /\ composer.gen \in Nat /\ last \in Ids /\ Len(rows) \in Nat
        /\ composer \in FieldsSet(Len(rows))
    BY <1>1 DEF Fields, Reckoned
  <2>2. composer.gen + 2 <= MaxGen /\ MaxGen \in Nat
    BY <1>2 DEF Fills
  <2> QED
    BY <2>1, <2>2 DEF Docs, Ids, None
<1> DEFINE f1 == FillNew(composer)
           f2 == FillNew(f1)
<1>5. f1 \in FieldsSet(Len(rows)) /\ f1.gen = composer.gen + 1
  BY <1>4, FillNewOf
<1>6. /\ f2 \in FieldsSet(Len(rows)) /\ f2.gen = composer.gen + 2 /\ f2.prev = composer.gen + 1
      /\ f2.id = None /\ f2.words.doc = composer.gen + 2
  <2> HIDE DEF f1
  <2>1. f1.gen + 1 = composer.gen + 2 /\ f1.gen + 1 <= MaxGen
    BY <1>4, <1>5
  <2> QED
    BY <1>4, <1>5, <2>1, FillNewOf
<1>7. composer' = Shut(f2)
      /\ queue' = queue \o <<[kind |-> "discard", gen |-> f2.prev, id |-> last, words |-> composer.words]>>
  BY <1>2
<1> HIDE DEF f1, f2
<1>8. /\ composer' \in FieldsSet(Len(rows)) /\ composer'.gen = f2.gen /\ composer'.id = f2.id
      /\ composer'.words = f2.words /\ composer'.armed = FALSE
  BY <1>6, <1>7, ShutFields
<1>9. Refilled /\ composer'.gen = composer.gen + 2
  BY <1>4, <1>6, <1>8 DEF Refilled
<1> DEFINE d == DiscardOf(composer.gen + 1, last)
           ops == <<d>>
<1>10. queue' = queue \o ops
  BY <1>6, <1>7 DEF DiscardOf
<1>11. IsHanded(Op("save", composer, composer.id)) /\ IsHanded(d)
  BY <1>2, <1>4, <1>9 DEF IsHanded, Op, DiscardOf
<1>12. composer'.gen \in Nat /\ composer.gen <= composer'.gen /\ composer.gen + 1 <= composer'.gen
  BY <1>4, <1>9
<1>13. HandsOver(ops)
  BY <1>2, <1>4, <1>10, <1>11, <1>12, HandsTwo
<1>14. FieldsMove
  BY <1>2, <1>4, <1>8, <1>9, <1>12 DEF FieldsMove
<1> HIDE DEF ops
<1>15. Handed(ops)
  BY <1>2, <1>3, <1>13, <1>14 DEF Handed, MarksSent, MarksEmpty, KeepsWords
<1> QED
  BY <1>15

LEMMA SendHands == ASSUME TypeOK, Send PROVE \E ops : Handed(ops)
<1>1. Fields
  BY FieldsHold
<1>2. /\ Room /\ composer.open /\ ~Spent /\ request' = request
      /\ UNCHANGED <<frontend, writer_vars>> /\ GhostsMove
      /\ latest' = latest /\ emptied' = emptied /\ sent' = sent \cup {composer.gen}
  BY <1>1 DEF Send, Spent, GhostsMove, Fields
<1>3. composer.gen \in Docs /\ composer.gen \in Nat /\ last \in Ids /\ composer.id \in Ids
      /\ None \in Ids
  BY <1>1 DEF Fields, Reckoned, Docs, Ids, None
<1> DEFINE a == Op("send", composer, composer.id)
<1>4. a.kind = "send" /\ a.words = composer.words /\ a.gen = composer.gen /\ a.id = composer.id
  BY DEF Op
<1>5. CASE Desktop
  <2> DEFINE d == DiscardOf(composer.gen, None)
             ops == <<a, d>>
  <2>1. Fills(1) /\ composer' = Shut(FillNew(composer)) /\ last' = None
        /\ queue' = queue \o <<a, [kind |-> "discard", gen |-> FillNew(composer).prev,
                                   id |-> None, words |-> composer.words]>>
    BY <1>5 DEF Send
  <2>2. queue' = queue \o ops
    BY <1>1, <2>1, FillNewFields DEF DiscardOf
  <2>3. /\ FillNew(composer) \in FieldsSet(Len(rows))
        /\ FillNew(composer).gen = composer.gen + 1 /\ FillNew(composer).id = None
        /\ FillNew(composer).words.doc = composer.gen + 1
    BY <1>1, <2>1, FillNewFields
  <2>4. /\ composer' \in FieldsSet(Len(rows)) /\ composer'.gen = composer.gen + 1
        /\ composer'.id = None
        /\ composer'.words.doc = composer.gen + 1 /\ composer'.armed = FALSE
    BY <2>1, <2>3, ShutFields
  <2>5. Refilled /\ composer'.gen \in Nat /\ composer.gen <= composer'.gen
        /\ composer.gen < composer'.gen
    BY <1>3, <2>4 DEF Refilled
  <2>6. d.kind = "discard" /\ d.gen = composer.gen /\ d.id = None /\ d.words = composer.words
    BY DEF DiscardOf
  <2>7. IsHanded(a) /\ IsHanded(d)
    BY <1>2, <1>4, <1>5, <2>5, <2>6 DEF IsHanded
  <2>8. HandsOver(ops)
    BY <1>2, <1>3, <2>2, <2>5, <2>7, HandsTwo
  <2>9. FieldsMove
    BY <1>2, <1>3, <2>1, <2>4, <2>5 DEF FieldsMove
  <2>10. Len(ops) = 2 /\ ops[1] = a /\ ops[2] = d /\ 1 \in 1 .. Len(ops)
    OBVIOUS
  <2> HIDE DEF a, d, ops
  <2>11. MarksSent(ops)
    <3>1. \A k \in 1 .. Len(ops) : ops[k].kind = "discard" =>
             k = 2 /\ ops[k].id = None /\ ops[1].kind = "send"
      BY <1>4, <2>6, <2>10
    <3> QED
      BY <1>2, <2>5, <3>1 DEF MarksSent
  <2>12. KeepsWords(ops)
    BY <1>2, <1>4, <2>10 DEF KeepsWords
  <2>13. Handed(ops)
    BY <1>2, <2>8, <2>9, <2>11, <2>12 DEF Handed, MarksEmpty
  <2> QED
    BY <2>13
<1>6. CASE ~Desktop
  <2> DEFINE ops == <<a>>
  <2>1. composer' = Shut(composer) /\ last' = last /\ queue' = Append(queue, a)
    BY <1>6 DEF Send
  <2>2. /\ composer' \in FieldsSet(Len(rows)) /\ composer'.gen = composer.gen
        /\ composer'.id = composer.id /\ composer'.words = composer.words
        /\ composer'.open = FALSE /\ composer'.armed = FALSE
    BY <1>1, <2>1, ShutFields DEF Fields
  <2>3. SameFields /\ Spent'
    BY <1>2, <1>6, <2>2 DEF SameFields, Spent, Desktop
  <2>4. composer'.gen \in Nat /\ composer.gen <= composer.gen /\ composer.gen <= composer'.gen
    BY <1>3, <2>2
  <2>5. a \in OpSet(composer.gen, Len(rows)) /\ a \in OpSet(composer'.gen, Len(rows))
    BY <1>1, <1>3, <2>4, OpsOfFields
  <2>6. IsHanded(a)
    BY <1>2, <1>4, <1>6, <2>3 DEF IsHanded
  <2> HIDE DEF a
  <2>7. queue' = queue \o ops
    BY <1>1, <2>1, <2>5, AppendIsConcat DEF Fields
  <2>8. /\ ops \in Seq(OpSet(composer'.gen, Len(rows))) /\ Len(ops) = 1 /\ ops[1] = a
        /\ \A k \in 1 .. Len(ops) : k = 1
    BY <2>5, One
  <2> HIDE DEF ops
  <2>9. HandsOver(ops)
    BY <1>2, <2>6, <2>7, <2>8 DEF HandsOver, Holding
  <2>10. MarksSent(ops)
    BY <1>2, <1>4, <2>3, <2>8 DEF MarksSent
  <2>11. FieldsMove
    BY <1>2, <1>3, <1>6, <2>1, <2>2, <2>3, <2>4 DEF FieldsMove
  <2>12. KeepsWords(ops)
    BY <1>2, <1>4, <2>8 DEF KeepsWords
  <2>13. Handed(ops)
    BY <1>2, <2>9, <2>10, <2>11, <2>12 DEF Handed, MarksEmpty
  <2> QED
    BY <2>13
<1> QED
  BY <1>5, <1>6

LEMMA ResumeOpenHands == ASSUME TypeOK, ResumeOpen PROVE \E ops : Handed(ops)
<1>1. Fields
  BY FieldsHold
<1> DEFINE filled == Fill(composer, request.id, request.words)
           held   == Desktop /\ composer.open /\ composer.id = request.id
<1>2. /\ request.step = "open" /\ Room /\ Fills(1) /\ request' = Idle
      /\ composer' = IF held THEN composer ELSE [filled EXCEPT !.open = TRUE]
      /\ last' = IF Desktop THEN request.id ELSE last
      /\ UNCHANGED <<frontend, writer_vars, latest, landed, emptied, sent, typed, faults>>
      /\ queue' = queue \o IF Desktop /\ composer.open /\ ~held THEN Save(composer) ELSE <<>>
      /\ excused' = excused \cup IF ~Desktop /\ composer.open THEN {composer.words.doc} ELSE {}
  BY DEF ResumeOpen
<1>3. composer.gen \in Nat /\ request.id \in Ids /\ request.words \in WordsSet
      /\ last \in Ids /\ composer.words.doc \in Docs
  BY <1>1 DEF Fields, Reckoned, RequestSet
<1>4. GhostsMove
  BY <1>1, <1>2, <1>3 DEF GhostsMove, Fields
<1>5. /\ filled \in FieldsSet(Len(rows)) /\ filled.gen = composer.gen + 1
      /\ filled.id = request.id /\ filled.words = request.words /\ filled.armed = Desktop
  <2>1. Fills(1)
    BY <1>2
  <2>2. \A id \in Ids, words \in WordsSet :
           /\ Fill(composer, id, words) \in FieldsSet(Len(rows))
           /\ Fill(composer, id, words).gen = composer.gen + 1
           /\ Fill(composer, id, words).id = id
           /\ Fill(composer, id, words).words = words
           /\ Fill(composer, id, words).armed = Desktop
    <3> TAKE id \in Ids, words \in WordsSet
    <3> QED
      BY <1>1, <2>1, FillFields, Zenon
  <2> QED
    BY <1>3, <2>2
<1> HIDE DEF filled
<1>6. /\ composer' \in FieldsSet(Len(rows)) /\ composer'.gen \in Nat
      /\ composer.gen <= composer'.gen
      /\ composer'.armed => composer'.open \/ Desktop
      /\ held => SameFields /\ composer' = composer
      /\ ~held => Resumed
      /\ Desktop => composer'.id = request.id
  <2>1. CASE held
    <3>1. composer' = composer
      BY <1>2, <2>1
    <3>2. SameFields
      BY <1>2, <3>1 DEF SameFields, Spent, Desktop
    <3> QED
      BY <1>1, <1>3, <2>1, <3>1, <3>2 DEF Fields
  <2>2. CASE ~held
    <3>1. composer' = [filled EXCEPT !.open = TRUE]
      BY <1>2, <2>2
    <3>2. /\ composer' \in FieldsSet(Len(rows)) /\ composer'.gen = composer.gen + 1
          /\ composer'.id = request.id /\ composer'.words = request.words
          /\ composer'.armed = Desktop
      BY <1>5, <3>1 DEF FieldsSet
    <3> QED
      BY <1>2, <1>3, <2>2, <3>2 DEF Resumed
  <2> QED
    BY <2>1, <2>2
<1>7. FieldsMove
  BY <1>2, <1>3, <1>6 DEF FieldsMove
<1>8. CASE Desktop /\ composer.open /\ ~held
  <2>1. ~Spent /\ queue' = queue \o Save(composer)
    BY <1>2, <1>8 DEF Spent
  <2>2. Handed(Save(composer))
    BY <1>2, <1>4, <1>6, <1>7, <2>1, HandsSave DEF Handed, KeepsWords
  <2> QED
    BY <2>2
<1>9. CASE ~(Desktop /\ composer.open /\ ~held)
  <2>1. queue' = queue
    BY <1>1, <1>2, <1>9, Nothing
  <2>2. KeepsWords(<<>>)
    BY <1>2, <1>6, <1>9 DEF KeepsWords
  <2>3. Handed(<<>>)
    BY <1>2, <1>4, <1>7, <2>1, <2>2, HandsNothing DEF Handed
  <2> QED
    BY <2>3
<1> QED
  BY <1>8, <1>9

\* Every step of the user hands over so.
LEMMA UserHands == ASSUME TypeOK, User \/ ResumeOpen PROVE \E ops : Handed(ops)
BY OpenHands, TypingHands, LateReportHands, AutosaveHands, SaveNowHands, CloseKeptHands,
   CloseEmptyHands, DiscardHands, SendHands, ResumeOpenHands DEF User

-----------------------------------------------------------------------------
(* What such a step keeps.                                                 *)

LEMMA HandedTypes == ASSUME TypeOK, NEW ops, Handed(ops) PROVE TypeOK'
<1>1. Types /\ Fields
  BY TypeParts, FieldsHold
<1>2. rows' = rows /\ frontend' = frontend /\ current' = current /\ answers' = answers
  BY DEF Handed, writer_vars
<1>3. /\ composer' \in FieldsSet(Len(rows)) /\ composer.gen \in Nat /\ composer'.gen \in Nat
      /\ composer.gen <= composer'.gen
  BY <1>1 DEF Handed, FieldsMove, Fields, Reckoned, FieldsSet, Docs
<1>4. FieldsType'
  <2>1. Idle \in RequestSet(Len(rows))
    BY <1>1 DEF Idle, RequestSet, None, Words, WordsSet, Docs, Stamps, Fields, Reckoned
  <2>2. request' \in RequestSet(Len(rows)) /\ last' \in Ids
    BY <1>1, <2>1 DEF Handed, FieldsMove, Fields
  <2>3. composer'.armed => composer'.open \/ Desktop'
    BY <1>2 DEF Handed, FieldsMove, Desktop
  <2> QED
    BY <1>1, <1>2, <1>3, <2>2, <2>3 DEF FieldsType, Ids, Fields
<1>5. QueueType'
  <2> DEFINE S == OpSet(composer'.gen, Len(rows))
  <2>1. queue \in Seq(S)
    <3>1. OpSet(composer.gen, Len(rows)) \subseteq S
      BY <1>3 DEF OpSet
    <3> QED
      BY <1>1, <3>1, SeqMonotonic DEF Fields
  <2>2. /\ ops \in Seq(S) /\ Len(ops) <= 2 /\ queue' = queue \o ops
        /\ Room \/ ops = <<>>
    BY DEF Handed, HandsOver
  <2> HIDE DEF S
  <2>3. queue' \in Seq(S) /\ Len(queue') = Len(queue) + Len(ops) /\ Len(ops) \in Nat
        /\ Len(queue) \in Nat
    BY <2>1, <2>2, ConcatProperties, LenProperties
  <2>4. Len(queue') <= MaxQueue
    <3>1. CASE Room
      BY <2>2, <2>3, <3>1 DEF Room
    <3>2. CASE ops = <<>>
      <4>1. Len(ops) = 0
        BY <3>2
      <4>2. Len(queue) <= MaxQueue
        BY <1>1 DEF Types, QueueType
      <4> QED
        BY <2>3, <4>1, <4>2
    <3> QED
      BY <2>2, <3>1, <3>2
  <2> QED
    BY <1>2, <2>3, <2>4 DEF QueueType, S
<1>6. WriterType'
  BY <1>1, <1>2, <1>3 DEF Types, WriterType, Ids
<1>7. RowsType'
  BY <1>1, <1>2 DEF Types, RowsType
<1>8. GhostType'
  <2>1. composer.gen \in Docs /\ composer.words.doc \in Docs
    BY <1>1 DEF Fields, Reckoned, Docs
  <2>2. sent' \subseteq Docs /\ emptied' \subseteq Docs
    BY <1>1, <2>1 DEF Handed, MarksSent, MarksEmpty, Fields
  <2>3. landed \in [Docs -> Stamps] /\ faults \in 0 .. MaxFaults
    BY <1>1 DEF Types, GhostType
  <2> QED
    BY <2>2, <2>3 DEF Handed, GhostsMove, GhostType
<1> QED
  BY <1>4, <1>5, <1>6, <1>7, <1>8, TypePartsNext DEF Types

\* The places of the writes that were waiting stay; the new ones come behind.
Appended(ops) ==
    /\ \A i \in Places : i \in Places' /\ queue'[i] = queue[i]
    /\ \A i \in Places' : i \notin Places =>
          i > Len(queue) /\ i - Len(queue) \in 1 .. Len(ops) /\ queue'[i] = ops[i - Len(queue)]
    /\ \A k \in 1 .. Len(ops) : Len(queue) + k \in Places' /\ Len(queue) + k \notin Places
                                /\ queue'[Len(queue) + k] = ops[k]

LEMMA HandedPlaces == ASSUME TypeOK, NEW ops, Handed(ops) PROVE Appended(ops)
<1>1. Fields
  BY FieldsHold
<1> DEFINE S == OpSet(composer'.gen, Len(rows))
<1>2. /\ composer' \in FieldsSet(Len(rows)) /\ composer.gen \in Nat /\ composer'.gen \in Nat
      /\ composer.gen <= composer'.gen
  BY <1>1 DEF Handed, FieldsMove, Fields, Reckoned, FieldsSet, Docs
<1>3. queue \in Seq(S)
  <2>1. OpSet(composer.gen, Len(rows)) \subseteq S
    BY <1>2 DEF OpSet
  <2> QED
    BY <1>1, <2>1, SeqMonotonic DEF Fields
<1>4. ops \in Seq(S) /\ queue' = queue \o ops
  BY DEF Handed, HandsOver
<1> HIDE DEF S
<1>5. /\ queue' \in Seq(S) /\ Len(queue') = Len(queue) + Len(ops) /\ Len(ops) \in Nat
      /\ Len(queue) \in Nat
      /\ \A i \in 1 .. Len(queue) + Len(ops) :
            queue'[i] = IF i <= Len(queue) THEN queue[i] ELSE ops[i - Len(queue)]
  BY <1>3, <1>4, ConcatProperties, LenProperties
<1>6. Places = 1 .. Len(queue) /\ Places' = 1 .. Len(queue) + Len(ops)
  BY <1>3, <1>5, LenProperties DEF Places
<1> QED
  BY <1>5, <1>6 DEF Appended

\* What that says of any two places.
New(i) == i \in Places' /\ i \notin Places
Behind(ops) ==
    /\ \A i \in Places : i \in Places' /\ queue'[i] = queue[i]
    /\ \A i, j : New(i) /\ j \in Places => j < i
    /\ \A i : New(i) => ~Spent /\ Holding /\ IsHanded(queue'[i])
    /\ \A i, j : New(i) /\ New(j) /\ i < j =>
          /\ queue'[i].kind # "discard" /\ queue'[j].kind = "discard"
          /\ queue'[j].gen = composer.gen

LEMMA HandedBehind == ASSUME TypeOK, NEW ops, Handed(ops) PROVE Behind(ops)
<1>1. Reckoned /\ Appended(ops)
  BY Reckon, HandedPlaces
<1>2. Len(queue) \in Nat /\ Places = 1 .. Len(queue)
  BY <1>1 DEF Reckoned
<1>3. /\ Len(ops) \in Nat /\ Len(ops) <= 2
      /\ ops # <<>> => ~Spent /\ Holding
      /\ \A k \in 1 .. Len(ops) : IsHanded(ops[k])
      /\ Len(ops) = 2 => /\ ops[1].kind # "discard" /\ ops[2].kind = "discard"
                         /\ ops[2].gen = composer.gen
  BY LenProperties DEF Handed, HandsOver
<1>4. ASSUME NEW i, New(i)
      PROVE  /\ i > Len(queue) /\ i - Len(queue) \in 1 .. Len(ops)
             /\ queue'[i] = ops[i - Len(queue)] /\ i \in Int
  <2>1. i \in Places'
    BY <1>4 DEF New
  <2>2. Reckoned'
    BY HandedTypes, ReckonNext
  <2>3. i \in Int
    BY <2>1, <2>2 DEF Reckoned
  <2> QED
    BY <1>1, <1>4, <2>3 DEF Appended, New
<1>5. ASSUME NEW i, New(i) PROVE ~Spent /\ Holding /\ IsHanded(queue'[i])
  <2>1. ops # <<>>
    BY <1>4, <1>5
  <2> QED
    BY <1>3, <1>4, <1>5, <2>1
<1>6. ASSUME NEW i, NEW j, New(i), New(j), i < j
      PROVE  /\ queue'[i].kind # "discard" /\ queue'[j].kind = "discard"
             /\ queue'[j].gen = composer.gen
  <2> DEFINE a == i - Len(queue)
             b == j - Len(queue)
  <2>1. a \in 1 .. Len(ops) /\ b \in 1 .. Len(ops) /\ a < b
        /\ queue'[i] = ops[a] /\ queue'[j] = ops[b]
    BY <1>2, <1>4, <1>6
  <2> HIDE DEF a, b
  <2>2. a = 1 /\ b = 2 /\ Len(ops) = 2
    <3>1. \A n \in Nat : \A x, y : n <= 2 /\ x \in 1 .. n /\ y \in 1 .. n /\ x < y => x = 1 /\ y = 2 /\ n = 2
      OBVIOUS
    <3> QED
      BY <1>3, <2>1, <3>1
  <2> QED
    BY <1>3, <2>1, <2>2
<1>7. \A i, j : New(i) /\ j \in Places => j < i
  BY <1>2, <1>4
<1>8. \A i \in Places : i \in Places' /\ queue'[i] = queue[i]
  BY <1>1 DEF Appended
<1> QED
  BY <1>5, <1>6, <1>7, <1>8 DEF Behind

Setting(ops) == /\ Reckoned /\ Reckoned' /\ Behind(ops) /\ FieldsMove
                /\ rows' = rows /\ current' = current /\ answers' = answers
                /\ frontend' = frontend
                /\ MarksSent(ops) /\ MarksEmpty(ops)

LEMMA HandedSetting == ASSUME TypeOK, NEW ops, Handed(ops) PROVE Setting(ops)
BY Reckon, HandedTypes, ReckonNext, HandedBehind DEF Handed, Setting, writer_vars

\* A place is an old one, or a new one with what was in the fields.
LEMMA OldOrNew ==
    ASSUME NEW ops, Setting(ops), NEW i \in Places'
    PROVE  \/ i \in Places /\ queue'[i] = queue[i]
           \/ New(i) /\ ~Spent /\ Holding /\ IsHanded(queue'[i])
BY DEF Setting, Behind, New

LEMMA HandedBounds == ASSUME Inv, NEW ops, Handed(ops) PROVE Bounds'
<1>1. Setting(ops) /\ Bounds /\ OwnRows
  BY HandedSetting DEF Inv
<1>2. composer'.words.doc <= composer'.gen
  <2>1. CASE SameFields
    BY <1>1, <2>1 DEF SameFields, Bounds
  <2>2. CASE Refilled
    BY <1>1, <2>2 DEF Refilled, Setting, Reckoned
  <2>3. CASE Resumed
    <3>1. request.step # "none" /\ request.id # None
      BY <1>1, <2>3 DEF Resumed, Bounds
    <3>2. request.id \in DOMAIN rows /\ rows[request.id].doc = composer'.words.doc
      BY <1>1, <2>3, <3>1 DEF Resumed, OwnRows, Setting, Reckoned, Ids, None
    <3>3. composer'.words.doc <= composer.gen
      BY <1>1, <3>2 DEF Bounds
    <3> QED
      BY <1>1, <2>3, <3>3 DEF Resumed, Setting, Reckoned, Docs
  <2> QED
    BY <1>1, <2>1, <2>2, <2>3 DEF Setting, FieldsMove
<1>3. composer'.gen = 0 => ~composer'.open /\ composer'.id = None /\ Drops(composer')
  BY <1>1 DEF Setting, FieldsMove, SameFields, Refilled, Resumed, Bounds, Reckoned, Drops
<1>4. ASSUME NEW i \in Places'
      PROVE  1 <= queue'[i].gen /\ queue'[i].words.doc <= queue'[i].gen
  <2>1. CASE i \in Places /\ queue'[i] = queue[i]
    BY <1>1, <2>1 DEF Bounds
  <2>2. CASE New(i) /\ ~Spent /\ Holding /\ IsHanded(queue'[i])
    <3>1. /\ queue'[i].words.doc = composer.words.doc
          /\ queue'[i].gen \in {composer.gen, composer.gen + 1}
      BY <1>1, <2>2 DEF IsHanded
    <3>2. composer.gen # 0
      BY <1>1, <2>2 DEF Bounds, Holding, Drops
    <3> QED
      BY <1>1, <3>1, <3>2, SMTT(40) DEF Bounds, Setting, Reckoned, Docs
  <2> QED
    BY <1>1, <2>1, <2>2, OldOrNew
<1>5. \A r \in DOMAIN rows' : rows'[r].doc <= composer'.gen
  BY <1>1 DEF Bounds, Setting, Reckoned, FieldsMove, Docs
<1>6. \A d \in emptied' : d <= composer'.gen
  BY <1>1 DEF Bounds, Setting, Reckoned, FieldsMove, MarksEmpty, Docs
<1>7. request'.step # "none" => request'.id # None
  BY <1>1 DEF Bounds, Setting, FieldsMove, Idle
<1> QED
  BY <1>1, <1>2, <1>3, <1>4, <1>5, <1>6, <1>7 DEF Bounds, Setting

LEMMA InOrderPlaces ==
    ASSUME NEW ops, Setting(ops), NEW i \in Places', NEW j \in Places', i < j, New(i)
    PROVE  New(j)
<1>1. i \in Int /\ j \in Int
  BY DEF Setting, Reckoned
<1>2. j \in Places => j < i
  BY DEF Setting, Behind
<1> QED
  BY <1>1, <1>2 DEF New

LEMMA HandedInOrder == ASSUME Inv, NEW ops, Handed(ops) PROVE InOrder'
<1>1. Setting(ops) /\ InOrder
  BY HandedSetting DEF Inv
<1>2. ASSUME NEW i, New(i)
      PROVE  /\ queue'[i].gen >= composer.gen /\ queue'[i].gen \in Nat
             /\ queue'[i].kind # "discard" => queue'[i].gen = composer.gen
  <2>1. IsHanded(queue'[i]) /\ composer.gen \in Nat
    BY <1>1, <1>2 DEF Setting, Behind, Reckoned
  <2> QED
    BY <2>1 DEF IsHanded
<1>3. ASSUME NEW i \in Places', NEW j \in Places', i < j
      PROVE  queue'[i].gen <= queue'[j].gen
  <2>1. CASE i \in Places /\ j \in Places
    BY <1>1, <1>3, <2>1 DEF InOrder, Setting, Behind
  <2>2. CASE i \in Places /\ New(j)
    <3>1. queue'[i].gen <= composer.gen /\ queue'[i].gen \in Nat /\ composer.gen \in Nat
      BY <1>1, <2>2 DEF Setting, Behind, Reckoned
    <3>2. queue'[j].gen >= composer.gen /\ queue'[j].gen \in Nat
      BY <1>2, <2>2
    <3> QED
      BY <3>1, <3>2
  <2>3. CASE New(i) /\ New(j)
    <3>1. queue'[i].kind # "discard"
      BY <1>1, <1>3, <2>3 DEF Setting, Behind
    <3>2. queue'[i].gen = composer.gen /\ queue'[j].gen >= composer.gen
      BY <1>2, <2>3, <3>1
    <3> QED
      BY <1>1, <3>2 DEF Setting, Reckoned
  <2>4. ~(New(i) /\ j \in Places)
    BY <1>1, <1>3, InOrderPlaces DEF New
  <2> QED
    BY <2>1, <2>2, <2>3, <2>4 DEF New
<1>4. ASSUME NEW i \in Places' PROVE current'.gen <= queue'[i].gen
  <2>1. CASE i \in Places
    BY <1>1, <2>1 DEF InOrder, Setting, Behind
  <2>2. CASE New(i)
    BY <1>1, <1>2, <2>2 DEF Setting, Reckoned
  <2> QED
    BY <2>1, <2>2 DEF New
<1> QED
  BY <1>3, <1>4 DEF InOrder

LEMMA HandedEnded == ASSUME Inv, NEW ops, Handed(ops) PROVE Ended'
<1>1. Setting(ops) /\ Ended
  BY HandedSetting DEF Inv
<1>2. ASSUME NEW i, New(i)
      PROVE  /\ ~Spent
             /\ queue'[i].gen >= composer.gen /\ queue'[i].gen \in Nat
             /\ queue'[i].kind # "discard" => queue'[i].gen = composer.gen
             /\ queue'[i].kind # "save" => queue'[i].gen < composer'.gen \/ Spent'
             /\ queue'[i].kind = "send" => queue'[i].gen \in sent'
  <2>1. IsHanded(queue'[i]) /\ composer.gen \in Nat /\ ~Spent
    BY <1>1, <1>2 DEF Setting, Behind, Reckoned
  <2> QED
    BY <2>1 DEF IsHanded
<1>3. Spent => Spent' \/ composer.gen < composer'.gen
  BY <1>1 DEF Setting, FieldsMove, SameFields, Refilled, Resumed
<1>4. ASSUME NEW i \in Places', NEW j \in Places', i < j
      PROVE  /\ queue'[i].kind = "discard" => queue'[i].gen < queue'[j].gen
             /\ queue'[i].kind = "send" => queue'[i].gen < queue'[j].gen
                                            \/ queue'[j].kind = "discard"
  <2>1. CASE i \in Places /\ j \in Places
    BY <1>1, <1>4, <2>1 DEF Ended, Setting, Behind
  <2>2. CASE i \in Places /\ New(j)
    <3>1. queue'[i] = queue[i] /\ (queue[i].kind # "save" => queue[i].gen < composer.gen)
      BY <1>1, <1>2, <2>2 DEF Ended, Setting, Behind
    <3> QED
      BY <1>1, <1>2, <2>2, <3>1, SMTT(40) DEF Setting, Reckoned
  <2>3. CASE New(i) /\ New(j)
    BY <1>1, <1>4, <2>3 DEF Setting, Behind
  <2>4. ~(New(i) /\ j \in Places)
    BY <1>1, <1>4, InOrderPlaces DEF New
  <2> QED
    BY <2>1, <2>2, <2>3, <2>4 DEF New
<1>5. ASSUME NEW i \in Places', queue'[i].kind # "save"
      PROVE  queue'[i].gen < composer'.gen \/ Spent'
  <2>1. CASE i \in Places
    <3>1. queue'[i] = queue[i] /\ (queue[i].gen < composer.gen \/ Spent)
          /\ queue[i].gen <= composer.gen /\ queue[i].gen \in Nat
      BY <1>1, <1>5, <2>1 DEF Ended, Setting, Behind, Reckoned
    <3> QED
      BY <1>1, <1>3, <3>1 DEF Setting, FieldsMove, Reckoned
  <2>2. CASE New(i)
    BY <1>2, <1>5, <2>2
  <2> QED
    BY <2>1, <2>2 DEF New
<1>6. \A i \in Places' : queue'[i].kind = "send" => queue'[i].gen \in sent'
  <2>1. sent \subseteq sent'
    BY <1>1 DEF Setting, MarksSent
  <2> QED
    BY <1>1, <1>2, <2>1 DEF Ended, Setting, Behind, New
<1>7. \A g \in sent' : g < composer'.gen \/ (g = composer'.gen /\ Spent')
  <2>1. \A g \in sent : g < composer'.gen \/ (g = composer'.gen /\ Spent')
    BY <1>1, <1>3 DEF Ended, Setting, FieldsMove, Reckoned
  <2>2. sent' # sent => /\ sent' = sent \cup {composer.gen}
                        /\ composer.gen < composer'.gen \/ Spent'
    BY <1>1 DEF Setting, MarksSent
  <2>3. composer.gen <= composer'.gen /\ composer.gen \in Nat /\ composer'.gen \in Nat
    BY <1>1 DEF Setting, FieldsMove, Reckoned
  <2> QED
    BY <2>1, <2>2, <2>3
<1> QED
  BY <1>4, <1>5, <1>6, <1>7 DEF Ended

LEMMA HandedSameDoc == ASSUME Inv, NEW ops, Handed(ops) PROVE SameDoc'
<1>1. Setting(ops) /\ SameDoc /\ Bounds
  BY HandedSetting DEF Inv
<1>2. ASSUME NEW i, New(i)
      PROVE  /\ queue'[i].words.doc = composer.words.doc
             /\ queue'[i].gen = composer.gen \/ queue'[i].gen = composer.gen + 1
             /\ queue'[i].kind # "discard" => queue'[i].gen = composer.gen
  <2>1. IsHanded(queue'[i])
    BY <1>1, <1>2 DEF Setting, Behind
  <2> QED
    BY <2>1 DEF IsHanded
<1>3. /\ composer.gen \in Nat
      /\ \A i \in Places : queue'[i] = queue[i] /\ queue[i].gen <= composer.gen
                           /\ queue[i].gen \in Nat
  BY <1>1 DEF Setting, Behind, Reckoned
<1>4. ASSUME NEW i \in Places', NEW j \in Places', queue'[i].gen = queue'[j].gen
      PROVE  queue'[i].words.doc = queue'[j].words.doc
  <2>1. CASE i \in Places /\ j \in Places
    BY <1>1, <1>3, <1>4, <2>1 DEF SameDoc
  <2>2. CASE i \in Places /\ New(j)
    BY <1>1, <1>2, <1>3, <1>4, <2>2 DEF SameDoc
  <2>3. CASE New(i) /\ j \in Places
    BY <1>1, <1>2, <1>3, <1>4, <2>3 DEF SameDoc
  <2>4. CASE New(i) /\ New(j)
    BY <1>2, <2>4
  <2> QED
    BY <2>1, <2>2, <2>3, <2>4 DEF New
<1>5. ASSUME NEW i \in Places', queue'[i].gen = composer'.gen
      PROVE  queue'[i].words.doc = composer'.words.doc
  <2>1. CASE SameFields
    <3>1. composer'.words.doc = composer.words.doc /\ composer'.gen = composer.gen
      BY <2>1 DEF SameFields
    <3> QED
      BY <1>1, <1>2, <1>3, <1>5, <3>1 DEF SameDoc, New
  <2>2. CASE composer'.gen > composer.gen
    \* A new discard of the next composition is older than the one after it.
    <3>1. New(i) /\ queue'[i].gen = composer.gen + 1
      BY <1>2, <1>3, <1>5, <2>2 DEF New
    <3>2. IsHanded(queue'[i]) /\ queue'[i].kind = "discard"
      BY <1>1, <1>2, <1>3, <3>1 DEF Setting, Behind
    <3>3. queue'[i].gen < composer'.gen \/ Spent'
      BY <3>2 DEF IsHanded
    <3>4. Desktop
      BY <1>3, <3>1, <3>2 DEF IsHanded
    <3>5. ~Spent'
      BY <1>1, <3>4 DEF Spent, Desktop, Setting
    <3> QED
      BY <1>3, <1>5, <3>1, <3>3, <3>5
  <2> QED
    BY <1>1, <2>1, <2>2 DEF Setting, FieldsMove, Refilled, Resumed
<1> QED
  BY <1>4, <1>5 DEF SameDoc

LEMMA HandedOwnRows == ASSUME Inv, NEW ops, Handed(ops) PROVE OwnRows'
<1>1. Setting(ops) /\ OwnRows /\ Bounds
  BY HandedSetting DEF Inv
<1>2. ASSUME NEW i, New(i)
      PROVE  /\ queue'[i].words.doc = composer.words.doc
             /\ queue'[i].gen = composer.gen \/ queue'[i].gen = composer.gen + 1
             /\ queue'[i].kind # "discard" \/ ~Desktop => queue'[i].id = composer.id
  <2>1. IsHanded(queue'[i])
    BY <1>1, <1>2 DEF Setting, Behind
  <2> QED
    BY <2>1 DEF IsHanded
<1>3. /\ composer.gen \in Nat /\ composer'.gen \in Nat /\ composer.gen <= composer'.gen
      /\ \A i \in Places : queue'[i] = queue[i]
      /\ current.gen \in Nat /\ current.gen <= composer.gen
      /\ \A a \in answers : a.gen \in Nat /\ a.gen <= composer.gen
      /\ rows' = rows /\ current' = current /\ answers' = answers
      /\ Desktop' <=> Desktop
      /\ SameFields \/ Refilled \/ Resumed
  BY <1>1 DEF Setting, Behind, Reckoned, FieldsMove, Desktop
<1>4. ASSUME NEW i \in Places', queue'[i].id # None, Makes(i)' \/ ~Desktop'
      PROVE  rows'[queue'[i].id].doc = queue'[i].words.doc
  BY <1>1, <1>2, <1>3, <1>4 DEF OwnRows, Makes, New
<1>5. composer'.id # None => rows'[composer'.id].doc = composer'.words.doc
  BY <1>1, <1>3 DEF OwnRows, SameFields, Refilled, Resumed
<1>6. request'.step # "none" => rows'[request'.id].doc = request'.words.doc
  BY <1>1, <1>3 DEF OwnRows, Setting, FieldsMove, Idle
<1>7. \A a \in answers' : a.gen = composer'.gen => rows'[a.id].doc = composer'.words.doc
  BY <1>1, <1>3 DEF OwnRows, SameFields, Refilled, Resumed
<1>8. ASSUME NEW i \in Places', current'.id # None, queue'[i].gen = current'.gen
      PROVE  rows'[current'.id].doc = queue'[i].words.doc
  BY <1>1, <1>2, <1>3, <1>8 DEF OwnRows, New
<1>9. current'.id # None /\ composer'.gen = current'.gen =>
         rows'[current'.id].doc = composer'.words.doc
  BY <1>1, <1>3 DEF OwnRows, SameFields, Refilled, Resumed
<1>10. ASSUME Desktop', composer'.words.doc # composer'.gen
       PROVE  composer'.id # None /\ last' = composer'.id
  <2>1. Refilled \/ last' = composer'.id \/ (SameFields /\ last' = last)
    BY <1>1, <1>3, <1>10 DEF Setting, FieldsMove
  <2>2. CASE SameFields
    BY <1>1, <1>3, <1>10, <2>1, <2>2 DEF OwnRows, SameFields, Refilled
  <2>3. CASE Refilled
    BY <1>10, <2>3 DEF Refilled
  <2>4. CASE Resumed
    <3>1. composer'.id # None
      BY <1>1, <2>4 DEF Bounds, Resumed
    <3>2. ~SameFields
      BY <1>3, <2>4 DEF Resumed, SameFields
    <3>3. ~Refilled
      BY <1>10 DEF Refilled
    <3> QED
      BY <2>1, <3>1, <3>2, <3>3
  <2> QED
    BY <1>3, <2>2, <2>3, <2>4
<1> QED
  BY <1>4, <1>5, <1>6, <1>7, <1>8, <1>9, <1>10 DEF OwnRows

LEMMA HandedUnsaved == ASSUME Inv, NEW ops, Handed(ops) PROVE Unsaved'
<1>1. Setting(ops) /\ Unsaved /\ Bounds /\ OwnRows
  BY HandedSetting DEF Inv
<1>2. ASSUME NEW i, New(i)
      PROVE  /\ ~Spent
             /\ queue'[i].words.doc = composer.words.doc
             /\ queue'[i].gen = composer.gen \/ queue'[i].gen = composer.gen + 1
             /\ queue'[i].kind # "discard" => queue'[i].gen = composer.gen
             /\ queue'[i].kind # "discard" => queue'[i].id = composer.id
  <2>1. IsHanded(queue'[i]) /\ ~Spent
    BY <1>1, <1>2 DEF Setting, Behind
  <2> QED
    BY <2>1 DEF IsHanded
<1>3. /\ composer.gen \in Nat /\ composer'.gen \in Nat /\ composer.gen <= composer'.gen
      /\ composer.words.doc \in Nat /\ composer.words.doc <= composer.gen
      /\ \A i \in Places : queue'[i] = queue[i]
      /\ \A r \in DOMAIN rows : rows[r].doc \in Nat /\ rows[r].doc <= composer.gen
      /\ rows' = rows /\ current' = current /\ sent \subseteq sent'
      /\ SameFields \/ Refilled \/ Resumed
  BY <1>1 DEF Setting, Behind, Reckoned, FieldsMove, MarksSent, Bounds, Docs
<1>4. ASSUME NEW i \in Places', Makes(i)', queue'[i].id = None
      PROVE  queue'[i].words.doc = queue'[i].gen
  BY <1>1, <1>2, <1>3, <1>4 DEF Unsaved, Makes, New
<1>5. composer'.id = None => composer'.words.doc = composer'.gen
  BY <1>1, <1>3 DEF Unsaved, SameFields, Refilled, Resumed, Bounds
<1>6. \A g : Known(g)' <=> Known(g)
  BY <1>3 DEF Known
<1>7. ASSUME NEW i \in Places', queue'[i].words.doc = queue'[i].gen,
             Makes(i)' \/ queue'[i].gen \notin sent'
      PROVE  Known(queue'[i].gen)
  <2>1. CASE i \in Places
    BY <1>1, <1>3, <1>7, <2>1 DEF Unsaved, Makes
  <2>2. CASE New(i)
    <3>1. queue'[i].gen = composer.gen /\ composer.words.doc = composer.gen
      BY <1>2, <1>3, <1>7, <2>2
    <3> QED
      BY <1>1, <1>2, <2>2, <3>1 DEF Unsaved
  <2> QED
    BY <2>1, <2>2 DEF New
<1>8. ASSUME composer'.words.doc = composer'.gen, ~Spent' PROVE Known(composer'.gen)
  <2>1. CASE SameFields
    BY <1>1, <1>8, <2>1 DEF Unsaved, SameFields
  <2>2. CASE composer'.gen > composer.gen
    BY <1>3, <2>2 DEF Known
  <2> QED
    BY <1>3, <2>1, <2>2 DEF Refilled, Resumed
<1> QED
  BY <1>4, <1>5, <1>6, <1>7, <1>8 DEF Unsaved

LEMMA HandedAfterSend == ASSUME Inv, NEW ops, Handed(ops) PROVE AfterSend'
<1>1. Setting(ops) /\ AfterSend /\ Ended /\ Appended(ops)
  BY HandedSetting, HandedPlaces DEF Inv
<1>2. ASSUME NEW i, New(i)
      PROVE  /\ ~Spent
             /\ queue'[i].gen = composer.gen \/ queue'[i].gen = composer.gen + 1
             /\ queue'[i].kind # "discard" => queue'[i].gen = composer.gen
  <2>1. IsHanded(queue'[i]) /\ ~Spent
    BY <1>1, <1>2 DEF Setting, Behind
  <2> QED
    BY <2>1 DEF IsHanded
<1>3. /\ composer.gen \in Nat /\ Len(queue) \in Nat /\ current' = current
      /\ \A i \in Places : /\ i \in Places' /\ queue'[i] = queue[i]
                           /\ queue[i].gen \in Nat /\ queue[i].gen <= composer.gen
      /\ \A g \in sent : g < composer.gen \/ Spent
      /\ \A i \in Places' : i \in Int
  BY <1>1, SMTT(40) DEF Setting, Behind, Reckoned, Ended
<1>4. ASSUME NEW i \in Places', queue'[i].kind = "discard", queue'[i].gen \in sent'
      PROVE  /\ queue'[i].id = None
             /\ \/ \E j \in Places' : j < i /\ queue'[j].kind = "send" /\ queue'[j].gen = queue'[i].gen
                \/ /\ current'.gen # queue'[i].gen
                   /\ \A j \in Places' : Makes(j)' => queue'[j].gen # queue'[i].gen
  <2>1. CASE i \in Places
    <3>1. queue'[i] = queue[i] /\ queue[i].kind = "discard"
      BY <1>3, <1>4, <2>1
    <3>2. queue[i].gen \in sent
      <4>1. CASE sent' = sent
        BY <1>4, <3>1, <4>1
      <4>2. CASE sent' = sent \cup {composer.gen} /\ ~Spent
        <5>1. queue[i].gen < composer.gen
          BY <1>1, <2>1, <3>1, <4>2 DEF Ended
        <5> QED
          BY <1>3, <1>4, <2>1, <3>1, <4>2, <5>1
      <4> QED
        BY <1>1, <4>1, <4>2 DEF Setting, MarksSent
    <3>3. queue[i].id = None
      BY <1>1, <2>1, <3>1, <3>2 DEF AfterSend
    <3>4. CASE \E j \in Places : j < i /\ queue[j].kind = "send" /\ queue[j].gen = queue[i].gen
      BY <1>3, <3>1, <3>3, <3>4
    <3>5. CASE current.gen # queue[i].gen /\ \A j \in Places : Makes(j) => queue[j].gen # queue[i].gen
      <4>1. ASSUME NEW j \in Places', Makes(j)' PROVE queue'[j].gen # queue[i].gen
        <5>1. CASE j \in Places
          BY <1>3, <3>5, <4>1, <5>1 DEF Makes
        <5>2. CASE New(j)
          BY <1>2, <1>3, <2>1, <3>2, <4>1, <5>2 DEF Makes
        <5> QED
          BY <5>1, <5>2 DEF New
      <4> QED
        BY <1>3, <3>1, <3>3, <3>5, <4>1
    <3> QED
      BY <1>1, <2>1, <3>1, <3>2, <3>4, <3>5 DEF AfterSend
  <2>2. CASE New(i)
    <3>1. queue'[i].gen \notin sent /\ sent' # sent
      BY <1>2, <1>3, <1>4, <2>2
    <3>2. /\ sent' = sent \cup {composer.gen}
          /\ \A k \in 1 .. Len(ops) : ops[k].kind = "discard" =>
                k = 2 /\ ops[k].id = None /\ ops[1].kind = "send"
      BY <1>1, <3>1 DEF Setting, MarksSent
    <3>3. queue'[i].gen = composer.gen
      BY <1>4, <3>1, <3>2
    <3>4. /\ i - Len(queue) \in 1 .. Len(ops) /\ queue'[i] = ops[i - Len(queue)]
      BY <1>1, <2>2 DEF Appended, New
    <3>5. i - Len(queue) = 2 /\ queue'[i].id = None /\ ops[1].kind = "send"
      BY <1>4, <3>2, <3>4
    <3>6. 1 \in 1 .. Len(ops)
      <4>1. Len(ops) \in Nat
        BY LenProperties DEF Handed, HandsOver
      <4> QED
        BY <3>4, <3>5, <4>1
    <3>7. New(Len(queue) + 1) /\ queue'[Len(queue) + 1] = ops[1]
      BY <1>1, <3>6 DEF Appended, New
    <3>8. queue'[Len(queue) + 1].gen = composer.gen /\ Len(queue) + 1 < i
      BY <1>2, <1>3, <3>5, <3>7
    <3> QED
      BY <3>3, <3>5, <3>7, <3>8 DEF New
  <2> QED
    BY <2>1, <2>2 DEF New
<1> QED
  BY <1>4 DEF AfterSend

LEMMA HandedHandedOver == ASSUME Inv, NEW ops, Handed(ops) PROVE HandedOver'
<1>1. Setting(ops) /\ HandedOver /\ Fields /\ Appended(ops) /\ KeepsWords(ops) /\ GhostsMove
  BY HandedSetting, HandedPlaces, FieldsHold DEF Inv, Handed
<1> SUFFICES ASSUME NEW d \in Docs, d \notin excused'
             PROVE  latest'[d] = 0 \/ latest'[d] <= landed'[d] \/ OnTheWay(d)' \/ Waiting(d)'
  BY DEF HandedOver
<1>2. d \notin excused /\ landed' = landed
  BY <1>1 DEF GhostsMove
<1>3. latest[d] = 0 \/ latest[d] <= landed[d] \/ OnTheWay(d) \/ Waiting(d)
  BY <1>1, <1>2 DEF HandedOver
<1>4. /\ \A i \in Places : i \in Places' /\ queue'[i] = queue[i]
      /\ \A k \in 1 .. Len(ops) : Len(queue) + k \in Places' /\ queue'[Len(queue) + k] = ops[k]
  BY <1>1 DEF Appended
<1>5. ASSUME NEW n \in Stamps, Edited(n)
      PROVE  latest'[d] = 0 \/ latest'[d] <= landed'[d] \/ OnTheWay(d)' \/ Waiting(d)'
  <2>1. /\ composer'.open /\ composer'.armed
        /\ composer'.words = Words(composer.words.doc, n)
        /\ latest' = [latest EXCEPT ![composer.words.doc] = n]
    BY <1>5 DEF Edited
  <2>2. CASE d = composer.words.doc
    <3>1. latest'[d] = n
      BY <1>1, <2>1, <2>2 DEF Fields
    <3> QED
      BY <2>1, <2>2, <3>1 DEF Waiting
  <2>3. CASE d # composer.words.doc
    <3>1. latest'[d] = latest[d]
      BY <1>1, <2>1, <2>3 DEF Fields
    <3>2. ~Waiting(d)
      BY <2>3 DEF Waiting, Words
    <3>3. OnTheWay(d) => OnTheWay(d)'
      BY <1>4, <3>1 DEF OnTheWay, Places
    <3> QED
      BY <1>2, <1>3, <3>1, <3>2, <3>3
  <2> QED
    BY <2>2, <2>3
<1>6. CASE latest' = latest
  <2>1. OnTheWay(d) => OnTheWay(d)'
    BY <1>4, <1>6 DEF OnTheWay, Places
  <2>2. ASSUME Waiting(d), ~\E n \in Stamps : Edited(n)
        PROVE  latest'[d] = 0 \/ OnTheWay(d)' \/ Waiting(d)'
    <3>1. composer.open /\ composer.armed /\ composer.words = Words(d, latest[d])
      BY <2>2 DEF Waiting
    <3>2. composer.words.doc = d /\ composer.words.n = latest[d]
      BY <3>1 DEF Words
    <3>3. \/ composer'.open /\ composer'.armed /\ composer'.words = composer.words
          \/ composer.words.n = 0
          \/ \E k \in 1 .. Len(ops) : ops[k].kind # "discard" /\ ops[k].words = composer.words
      BY <1>1, <2>2, <3>1, <3>2 DEF KeepsWords
    <3>4. CASE composer'.open /\ composer'.armed /\ composer'.words = composer.words
      BY <1>6, <3>1, <3>4 DEF Waiting
    <3>5. CASE composer.words.n = 0
      BY <1>6, <3>2, <3>5
    <3>6. CASE \E k \in 1 .. Len(ops) : ops[k].kind # "discard" /\ ops[k].words = composer.words
      <4>1. PICK k \in 1 .. Len(ops) : ops[k].kind # "discard" /\ ops[k].words = composer.words
        BY <3>6
      <4>2. \E i \in Places' : queue'[i].kind # "discard" /\ queue'[i].words = Words(d, latest'[d])
        BY <1>4, <1>6, <3>1, <4>1
      <4> QED
        BY <4>2 DEF OnTheWay, Places
    <3> QED
      BY <3>3, <3>4, <3>5, <3>6
  <2> QED
    BY <1>2, <1>3, <1>5, <1>6, <2>1, <2>2
<1> QED
  BY <1>1, <1>5, <1>6 DEF KeepsWords

LEMMA HandedEmptying == ASSUME Inv, NEW ops, Handed(ops) PROVE Emptying'
<1>1. /\ Setting(ops) /\ Emptying /\ Ended /\ Bounds /\ OwnRows /\ Unsaved /\ OneRowEach
      /\ Appended(ops)
  BY HandedSetting, HandedPlaces DEF Inv
<1>2. ASSUME NEW i, New(i)
      PROVE  /\ ~Spent
             /\ queue'[i].words = composer.words
             /\ queue'[i].kind # "discard" => queue'[i].gen = composer.gen
             /\ queue'[i].kind # "discard" => queue'[i].id = composer.id
  <2>1. IsHanded(queue'[i]) /\ ~Spent
    BY <1>1, <1>2 DEF Setting, Behind
  <2> QED
    BY <2>1 DEF IsHanded
<1>3. /\ composer.gen \in Nat /\ Len(queue) \in Nat /\ rows' = rows
      /\ composer.id \in Ids /\ DOMAIN rows = Ids \ {None}
      /\ \A i \in Places : i \in Places' /\ queue'[i] = queue[i]
      /\ \A i \in Places' : i \in Int
      /\ \A i, j : New(i) /\ j \in Places => j < i
  BY <1>1, SMTT(40) DEF Setting, Behind, Reckoned, Ids, None
\* A discard that was to take a row still is.
<1>4. \A i \in Places : queue[i].kind = "discard" /\ queue[i].gen \notin sent => queue[i].gen \notin sent'
  <2>1. CASE sent' = sent
    BY <2>1
  <2>2. CASE sent' = sent \cup {composer.gen} /\ ~Spent
    <3>1. \A i \in Places : queue[i].kind = "discard" => queue[i].gen < composer.gen /\ queue[i].gen \in Nat
      BY <1>1, <2>2 DEF Ended, Setting, Reckoned
    <3> QED
      BY <1>3, <2>2, <3>1
  <2> QED
    BY <1>1, <2>1, <2>2 DEF Setting, MarksSent
\* Closed empty: the discard behind it all.
<1>5. CASE emptied' # emptied
  <2>1. /\ emptied' = emptied \cup {composer.words.doc}
        /\ ~Spent /\ sent' = sent
        /\ Refilled \/ Spent'
        /\ Len(ops) # 0 /\ ops[Len(ops)].kind = "discard"
        /\ ops[Len(ops)].gen = composer.gen
        /\ ops[Len(ops)].id = IF Desktop THEN last ELSE composer.id
    BY <1>1, <1>5 DEF Setting, MarksEmpty
  <2>2. Len(ops) \in Nat /\ Len(ops) \in 1 .. Len(ops)
    <3>1. Len(ops) \in Nat
      BY LenProperties DEF Handed, HandsOver
    <3> QED
      BY <2>1, <3>1
  <2>3. PICK D : D = Len(queue) + Len(ops) /\ New(D) /\ queue'[D] = ops[Len(ops)]
    BY <1>1, <2>2 DEF Appended, New
  <2>4. /\ \A i \in Places : i < D
        /\ \A i : New(i) => i <= D
    <3>1. \A i : New(i) => i - Len(queue) \in 1 .. Len(ops) /\ i \in Int
      BY <1>1, <1>3 DEF Appended, New
    <3> QED
      BY <1>3, <2>2, <2>3, <3>1
  <2>5. /\ D \in Places' /\ queue'[D].kind = "discard" /\ queue'[D].gen = composer.gen
        /\ queue'[D].id = IF Desktop THEN last ELSE composer.id
        /\ queue'[D].words.doc = composer.words.doc
        /\ queue'[D].gen \notin sent'
    <3>1. composer.gen \notin sent
      BY <1>1, <1>3, <2>1 DEF Ended
    <3> QED
      BY <1>2, <2>1, <2>3, <3>1 DEF New
  <2>6. composer.words.doc # composer.gen =>
           /\ composer.id # None /\ composer.id \in DOMAIN rows
           /\ rows[composer.id].doc = composer.words.doc
           /\ queue'[D].id = composer.id
    BY <1>1, <1>3, <2>5 DEF OwnRows, Unsaved
  <2>7. ASSUME NEW r \in DOMAIN rows', rows'[r].doc \in emptied', rows'[r].state # "gone"
        PROVE  \E j \in Places' : Aimed(j, r)'
    <3>1. CASE rows[r].doc \in emptied
      <4>1. PICK j \in Places : Aimed(j, r)
        BY <1>1, <1>3, <2>7, <3>1 DEF Emptying
      <4>2. Aimed(j, r)'
        BY <1>3, <1>4, <4>1 DEF Aimed
      <4> QED
        BY <1>3, <4>1, <4>2
    <3>2. CASE rows[r].doc = composer.words.doc
      <4>1. queue'[D].gen = rows[r].doc \/ queue'[D].id = r
        <5>1. CASE composer.words.doc = composer.gen
          BY <2>5, <3>2, <5>1
        <5>2. CASE composer.words.doc # composer.gen
          BY <1>1, <1>3, <2>6, <2>7, <3>2, <5>2 DEF OneRowEach
        <5> QED
          BY <5>1, <5>2
      <4>2. Aimed(D, r)'
        BY <1>3, <2>5, <3>2, <4>1 DEF Aimed
      <4> QED
        BY <2>5, <4>2
    <3> QED
      BY <1>3, <2>1, <2>7, <3>1, <3>2
  <2>8. ASSUME NEW i \in Places', Makes(i)', queue'[i].id = None, queue'[i].gen \in emptied'
        PROVE  \/ \E r \in DOMAIN rows' : rows'[r].doc = queue'[i].gen
               \/ \E j \in Places' : /\ i < j /\ queue'[j].kind = "discard"
                                     /\ queue'[j].gen = queue'[i].gen /\ queue'[j].gen \notin sent'
    <3>1. i < D
      <4>1. i # D
        BY <2>5, <2>8 DEF Makes
      <4>2. D \in Int /\ i \in Int
        BY <1>3, <2>5
      <4> QED
        BY <2>4, <4>1, <4>2 DEF New
    <3>2. CASE queue'[i].gen = composer.gen
      BY <2>5, <3>1, <3>2
    <3>3. CASE queue'[i].gen # composer.gen
      <4>1. i \in Places /\ queue'[i] = queue[i]
        BY <1>2, <1>3, <2>8, <3>3 DEF New, Makes
      <4>2. CASE queue[i].gen \in emptied
        <5>1. CASE \E r \in DOMAIN rows : rows[r].doc = queue[i].gen
          BY <1>3, <4>1, <5>1
        <5>2. CASE \E j \in Places : /\ i < j /\ queue[j].kind = "discard"
                                     /\ queue[j].gen = queue[i].gen /\ queue[j].gen \notin sent
          BY <1>3, <1>4, <4>1, <5>2
        <5> QED
          BY <1>1, <2>8, <4>1, <4>2, <5>1, <5>2 DEF Emptying, Makes
      <4>3. CASE queue[i].gen = composer.words.doc
        <5>1. composer.words.doc # composer.gen
          BY <3>3, <4>1, <4>3
        <5> QED
          BY <1>3, <2>6, <4>1, <4>3, <5>1
      <4> QED
        BY <2>1, <2>8, <4>1, <4>2, <4>3
    <3> QED
      BY <3>2, <3>3
  <2>9. ASSUME composer'.words.doc \in emptied', composer'.id = None PROVE Spent'
    <3>1. CASE Refilled
      <4>1. composer'.words.doc > composer.gen
        BY <3>1 DEF Refilled
      <4>2. composer.words.doc <= composer.gen /\ \A d \in emptied : d <= composer.gen
        BY <1>1 DEF Bounds
      <4>3. emptied' \subseteq Nat /\ composer'.words.doc \in Nat
        BY <1>1, <2>9 DEF Setting, Reckoned
      <4> QED
        BY <1>3, <2>1, <2>9, <4>1, <4>2, <4>3
    <3> QED
      BY <2>1, <3>1
  <2> QED
    BY <2>7, <2>8, <2>9 DEF Emptying
<1>6. CASE emptied' = emptied
  <2>1. ASSUME NEW r \in DOMAIN rows', rows'[r].doc \in emptied', rows'[r].state # "gone"
        PROVE  \E j \in Places' : Aimed(j, r)'
    <3>1. PICK j \in Places : Aimed(j, r)
      BY <1>1, <1>3, <1>6, <2>1 DEF Emptying
    <3>2. Aimed(j, r)'
      BY <1>3, <1>4, <3>1 DEF Aimed
    <3> QED
      BY <1>3, <3>1, <3>2
  <2>2. ASSUME NEW i \in Places', Makes(i)', queue'[i].id = None, queue'[i].gen \in emptied'
        PROVE  \/ \E r \in DOMAIN rows' : rows'[r].doc = queue'[i].gen
               \/ \E j \in Places' : /\ i < j /\ queue'[j].kind = "discard"
                                     /\ queue'[j].gen = queue'[i].gen /\ queue'[j].gen \notin sent'
    <3>1. i \in Places /\ queue'[i] = queue[i]
      <4>1. ~New(i)
        <5>1. New(i) => composer.id = None /\ composer.words.doc = composer.gen
                        /\ composer.gen \in emptied /\ ~Spent
          BY <1>1, <1>2, <1>6, <2>2 DEF Unsaved, Makes
        <5> QED
          BY <1>1, <5>1 DEF Emptying
      <4> QED
        BY <1>3, <4>1 DEF New
    <3>2. CASE \E r \in DOMAIN rows : rows[r].doc = queue[i].gen
      BY <1>3, <3>1, <3>2
    <3>3. CASE \E j \in Places : /\ i < j /\ queue[j].kind = "discard"
                                 /\ queue[j].gen = queue[i].gen /\ queue[j].gen \notin sent
      BY <1>3, <1>4, <3>1, <3>3
    <3> QED
      BY <1>1, <1>6, <2>2, <3>1, <3>2, <3>3 DEF Emptying, Makes
  <2>3. ASSUME composer'.words.doc \in emptied', composer'.id = None PROVE Spent'
    <3>1. CASE SameFields
      BY <1>1, <1>6, <2>3, <3>1 DEF SameFields, Emptying
    <3>2. CASE Refilled
      <4>1. composer'.words.doc > composer.gen
        BY <3>2 DEF Refilled
      <4>2. \A d \in emptied : d <= composer.gen
        BY <1>1 DEF Bounds
      <4>3. emptied' \subseteq Nat /\ composer'.words.doc \in Nat
        BY <1>1, <2>3 DEF Setting, Reckoned
      <4> QED
        BY <1>3, <1>6, <2>3, <4>1, <4>2, <4>3
    <3>3. CASE Resumed
      BY <1>1, <2>3, <3>3 DEF Resumed, Bounds
    <3> QED
      BY <1>1, <3>1, <3>2, <3>3 DEF Setting, FieldsMove
  <2> QED
    BY <2>1, <2>2, <2>3 DEF Emptying
<1> QED
  BY <1>5, <1>6

LEMMA HandedInv == ASSUME Inv, NEW ops, Handed(ops) PROVE Inv'
<1>1. rows' = rows /\ TypeOK
  BY DEF Handed, writer_vars, Inv
<1>2. TypeOK'
  BY <1>1, HandedTypes
<1>3. OneRowEach' /\ WordsStayApart'
  BY <1>1 DEF Inv, OneRowEach, WordsStayApart
<1> QED
  BY <1>2, <1>3, HandedBounds, HandedInOrder, HandedEnded, HandedSameDoc, HandedOwnRows,
     HandedUnsaved, HandedAfterSend, HandedHandedOver, HandedEmptying DEF Inv

-----------------------------------------------------------------------------
(* The steps of the writer, seen alike: the first write is taken, at most  *)
(* one row is made, and the writer learns or forgets its composition.      *)

Shifted ==
    /\ 1 \in Places
    /\ \A i \in Places' : i + 1 \in Places /\ queue'[i] = queue[i + 1] /\ 1 < i + 1
    /\ \A j \in Places : j # 1 => j - 1 \in Places' /\ queue'[j - 1] = queue[j]

\* No row but the one made changes its document, and that one is the first of
\* the composition that began it.
RowsMove ==
    /\ DOMAIN rows \subseteq DOMAIN rows'
    /\ \A r \in DOMAIN rows : rows'[r].doc = rows[r].doc
    /\ \A r \in DOMAIN rows' : r \notin DOMAIN rows =>
          /\ queue[1].kind # "discard" /\ queue[1].id = None
          /\ rows'[r].doc = queue[1].words.doc /\ queue[1].words.doc = queue[1].gen
          /\ \A s \in DOMAIN rows : rows[s].doc # queue[1].gen
          /\ \A s \in DOMAIN rows' : s \notin DOMAIN rows => s = r

CurrentMove ==
    \/ /\ queue[1].kind = "save"
       /\ rows' = rows /\ current' = current /\ answers' = answers
    \/ /\ queue[1].kind = "save"
       /\ \E t \in DOMAIN rows' : /\ current' = [gen |-> queue[1].gen, id |-> t]
                                  /\ rows'[t].doc = queue[1].words.doc
                                  /\ answers' = answers \cup {current'}
    \/ /\ queue[1].kind # "save"
       /\ current' = IF current.gen = queue[1].gen THEN NoCurrent ELSE current
       /\ answers' = answers

Moved == /\ UNCHANGED <<frontend, compose_vars, latest, sent>>
         /\ Shifted /\ RowsMove /\ CurrentMove
         /\ emptied' \subseteq emptied
         /\ excused \subseteq excused'

LEMMA TailPlaces ==
    ASSUME TypeOK, NEW kind, Takes(kind)
    PROVE  /\ Shifted /\ Next1 = queue[1] /\ queue[1].kind = kind
           /\ queue' \in Seq(OpSet(composer.gen, Len(rows))) /\ Len(queue') <= MaxQueue
           /\ Len(queue') = Len(queue) - 1
<1>1. Types
  BY TypeParts
<1> DEFINE S == OpSet(composer.gen, Len(rows))
<1>2. queue \in Seq(S) /\ queue # <<>> /\ queue' = Tail(queue) /\ Len(queue) <= MaxQueue
      /\ Next1.kind = kind
  BY <1>1 DEF Takes, Types, QueueType
<1> HIDE DEF S
<1>3. /\ queue' \in Seq(S) /\ Len(queue') = Len(queue) - 1
      /\ \A i \in 1 .. Len(queue') : queue'[i] = queue[i + 1]
  BY <1>2, HeadTailProperties
<1>4. Len(queue) \in Nat \ {0} /\ Next1 = queue[1]
  BY <1>2, EmptySeq DEF Next1
<1>5. Places = 1 .. Len(queue) /\ Places' = 1 .. Len(queue) - 1
  BY <1>2, <1>3, LenProperties DEF Places
<1>6. Shifted
  <2>1. 1 \in Places
    BY <1>4, <1>5
  <2>2. ASSUME NEW i \in Places'
        PROVE  i + 1 \in Places /\ queue'[i] = queue[i + 1] /\ 1 < i + 1
    BY <1>3, <1>4, <1>5
  <2>3. ASSUME NEW j \in Places, j # 1
        PROVE  j - 1 \in Places' /\ queue'[j - 1] = queue[j]
    <3>1. j - 1 \in Places' /\ (j - 1) + 1 = j
      BY <1>4, <1>5, <2>3
    <3> QED
      BY <2>2, <3>1
  <2> QED
    BY <2>1, <2>2, <2>3 DEF Shifted
<1>7. Len(queue') <= MaxQueue
  BY <1>2, <1>3, <1>4
<1> QED
  BY <1>2, <1>3, <1>4, <1>6, <1>7 DEF S

\* A write with an id, handed over or known, is to the row of its document, and
\* one without makes the first row of it.
LEMMA IdForIs ==
    ASSUME Inv, 1 \in Places, queue[1].kind # "discard"
    PROVE  /\ IdFor(queue[1]) # None =>
                 /\ IdFor(queue[1]) \in DOMAIN rows
                 /\ rows[IdFor(queue[1])].doc = queue[1].words.doc
           /\ IdFor(queue[1]) = None =>
                 /\ queue[1].id = None
                 /\ queue[1].words.doc = queue[1].gen
                 /\ \A r \in DOMAIN rows : rows[r].doc # queue[1].gen
<1>1. Reckoned /\ OwnRows /\ Unsaved /\ Bounds
  BY Reckon DEF Inv
<1>2. /\ queue[1].id \in Ids /\ current.id \in Ids /\ DOMAIN rows = Ids \ {None}
  BY <1>1 DEF Reckoned, Ids, None
<1>3. IdFor(queue[1]) = IF queue[1].id = None /\ current.gen = queue[1].gen THEN current.id ELSE queue[1].id
  BY DEF IdFor
<1>4. CASE queue[1].id # None
  BY <1>1, <1>2, <1>3, <1>4 DEF OwnRows, Makes
<1>5. CASE queue[1].id = None
  <2>1. queue[1].words.doc = queue[1].gen /\ Known(queue[1].gen)
    BY <1>1, <1>5 DEF Unsaved, Makes
  <2>2. CASE current.gen = queue[1].gen
    <3>1. current.id # None
      BY <1>1, <2>2 DEF Bounds, NoCurrent
    <3> QED
      BY <1>1, <1>2, <1>3, <1>5, <2>2, <3>1 DEF OwnRows
  <2>3. CASE current.gen # queue[1].gen
    BY <1>3, <1>5, <2>1, <2>3 DEF Known
  <2> QED
    BY <2>2, <2>3
<1> QED
  BY <1>4, <1>5

Wrote(state) == /\ Target(queue[1]) \in DOMAIN rows'
                /\ rows'[Target(queue[1])] = Row(queue[1], state)
                /\ DOMAIN rows' = DOMAIN rows \cup {Target(queue[1])}
                /\ \A r \in DOMAIN rows : r # Target(queue[1]) => rows'[r] = rows[r]
                /\ Target(queue[1]) \in DOMAIN rows =>
                      /\ rows[Target(queue[1])].doc = queue[1].words.doc
                      /\ rows[Target(queue[1])].state # "gone"

LEMMA RowExcept ==
    \A x \in [doc : Docs, words : WordsSet, state : States] : \A w, z :
        [x EXCEPT !.words = w, !.state = z] = [doc |-> x.doc, words |-> w, state |-> z]
<1> SUFFICES ASSUME NEW x \in [doc : Docs, words : WordsSet, state : States], NEW w, NEW z
             PROVE  [x EXCEPT !.words = w, !.state = z] = [doc |-> x.doc, words |-> w, state |-> z]
  OBVIOUS
<1>1. [x EXCEPT !.words = w] = [doc |-> x.doc, words |-> w, state |-> x.state]
  OBVIOUS
<1>2. [[doc |-> x.doc, words |-> w, state |-> x.state] EXCEPT !.state = z]
         = [doc |-> x.doc, words |-> w, state |-> z]
  OBVIOUS
<1> QED
  BY <1>1, <1>2

LEMMA WrittenRows ==
    ASSUME Inv, 1 \in Places, queue[1].kind # "discard", NEW state \in States,
           Writable(queue[1]), rows' = Written(queue[1], state)
    PROVE  Wrote(state) /\ RowsMove /\ RowsType' /\ Len(rows') >= Len(rows) /\ Len(rows') \in Nat
<1>1. Reckoned /\ RowsType
  BY Reckon, TypeParts DEF Inv, Types
<1> DEFINE op == queue[1]
           S  == [doc : Docs, words : WordsSet, state : States]
<1>2. op.words \in WordsSet /\ op.words.doc \in Docs
  BY <1>1 DEF Reckoned
<1>3. Row(op, state) \in S /\ Row(op, state).doc = op.words.doc
  BY <1>2 DEF Row
<1>4. /\ Len(rows) \in Nat /\ DOMAIN rows = 1 .. Len(rows) /\ rows \in Seq(S)
  BY <1>1 DEF Reckoned, RowsType
<1>5. CASE IdFor(op) = None
  <2>1. Target(op) = Len(rows) + 1 /\ rows' = Append(rows, Row(op, state))
    BY <1>5 DEF Target, Written
  <2>2. /\ op.id = None /\ op.words.doc = op.gen
        /\ \A r \in DOMAIN rows : rows[r].doc # op.gen
    BY <1>5, IdForIs
  <2> HIDE DEF op, S
  <2>3. /\ rows' \in Seq(S) /\ Len(rows') = Len(rows) + 1
        /\ \A i \in 1 .. Len(rows) : rows'[i] = rows[i]
        /\ rows'[Len(rows) + 1] = Row(op, state)
    BY <1>3, <1>4, <2>1, AppendProperties
  <2>4. DOMAIN rows' = 1 .. Len(rows) + 1
    BY <2>3, LenProperties
  <2>5. DOMAIN rows' = DOMAIN rows \cup {Len(rows) + 1} /\ Len(rows) + 1 \notin DOMAIN rows
    BY <1>4, <2>4
  <2>6. Wrote(state)
    BY <1>4, <2>1, <2>3, <2>5 DEF Wrote, op
  <2>7. RowsMove
    BY <1>3, <1>4, <2>2, <2>3, <2>5 DEF RowsMove, op
  <2> QED
    BY <1>4, <2>3, <2>6, <2>7 DEF RowsType, S
<1>6. CASE IdFor(op) # None
  <2> DEFINE t == IdFor(op)
  <2>1. /\ t \in DOMAIN rows /\ rows[t].doc = op.words.doc /\ rows[t].state # "gone"
        /\ Target(op) = t
    BY <1>6, IdForIs DEF Writable, Target
  <2>2. rows' = [rows EXCEPT ![t].words = op.words, ![t].state = state]
    BY <1>6 DEF Written
  <2>3. rows[t] \in S
    BY <1>4, <2>1, ElementOfSeq
  <2> HIDE DEF t, op
  <2>4. [rows[t] EXCEPT !.words = op.words, !.state = state] = Row(op, state)
    <3>1. [rows[t] EXCEPT !.words = op.words, !.state = state]
             = [doc |-> rows[t].doc, words |-> op.words, state |-> state]
      BY <2>3, RowExcept, Zenon
    <3> QED
      BY <2>1, <3>1 DEF Row
  <2>5. rows' = [rows EXCEPT ![t] = Row(op, state)]
    <3>1. rows' = [rows EXCEPT ![t] = [rows[t] EXCEPT !.words = op.words, !.state = state]]
      <4>1. rows \in [1 .. Len(rows) -> S]
        BY <1>4, LenProperties
      <4> QED
        BY <1>4, <2>1, <2>2, <4>1
    <3> QED
      BY <2>4, <3>1
  <2> HIDE DEF S
  <2>6. /\ rows' \in Seq(S) /\ Len(rows') = Len(rows)
        /\ \A j \in 1 .. Len(rows) : rows'[j] = IF j = t THEN Row(op, state) ELSE rows[j]
    BY <1>3, <1>4, <2>1, <2>5, ExceptSeq
  <2>7. DOMAIN rows' = DOMAIN rows
    BY <1>4, <2>6, LenProperties
  <2>8. Wrote(state)
    BY <1>4, <2>1, <2>6, <2>7 DEF Wrote, op
  <2>9. RowsMove
    BY <1>3, <1>4, <2>1, <2>6, <2>7 DEF RowsMove, op
  <2> QED
    BY <1>4, <2>6, <2>8, <2>9 DEF RowsType, S
<1> QED
  BY <1>5, <1>6

LEMMA MovedTypes ==
    ASSUME TypeOK, NEW kind, Takes(kind), UNCHANGED <<frontend, compose_vars, latest, sent, typed>>,
           RowsType', Len(rows') \in Nat, Len(rows') >= Len(rows),
           current' \in [gen : 0 .. composer.gen, id : 0 .. Len(rows')],
           answers' \subseteq [gen : 0 .. composer.gen, id : 1 .. Len(rows')],
           landed' \in [Docs -> Stamps], excused' \subseteq Docs, emptied' \subseteq Docs,
           faults' \in 0 .. MaxFaults
    PROVE  TypeOK'
<1>1. Types /\ Reckoned
  BY TypeParts, Reckon
<1>2. composer' = composer /\ last' = last /\ request' = request /\ Len(rows) \in Nat
      /\ composer.gen \in Nat
  BY <1>1 DEF compose_vars, Reckoned
<1>3. FieldsType'
  BY <1>1, <1>2 DEF Types, FieldsType, FieldsSet, RequestSet, Ids, Desktop
<1>4. QueueType'
  <2>1. queue' \in Seq(OpSet(composer.gen, Len(rows))) /\ Len(queue') <= MaxQueue
    BY TailPlaces
  <2>2. OpSet(composer.gen, Len(rows)) \subseteq OpSet(composer.gen, Len(rows'))
    BY <1>2 DEF OpSet
  <2>3. queue' \in Seq(OpSet(composer.gen, Len(rows')))
    BY <2>1, <2>2, SeqMonotonic
  <2> QED
    BY <1>2, <2>1, <2>3 DEF QueueType
<1>5. WriterType'
  <2>1. Ids' = 0 .. Len(rows') /\ Ids' \ {None} = 1 .. Len(rows')
    BY DEF Ids, None
  <2> QED
    BY <1>2, <2>1 DEF WriterType
<1>6. GhostType'
  BY <1>1 DEF Types, GhostType
<1> QED
  BY <1>3, <1>4, <1>5, <1>6, TypePartsNext DEF Types

LEMMA LandedType ==
    ASSUME TypeOK, NEW op, op.words \in WordsSet, Land(op)
    PROVE  /\ landed' \in [Docs -> Stamps]
           /\ \A d \in Docs : landed'[d] >= landed[d]
           /\ landed'[op.words.doc] >= op.words.n
<1>1. landed \in [Docs -> Stamps] /\ op.words.doc \in Docs /\ op.words.n \in Stamps
  BY TypeParts DEF Types, GhostType, WordsSet
<1> DEFINE d0 == op.words.doc
           n0 == op.words.n
<1>2. landed' = [landed EXCEPT ![d0] = IF n0 > landed[d0] THEN n0 ELSE landed[d0]]
  BY DEF Land
<1>3. d0 \in Docs /\ n0 \in Stamps
  BY <1>1
<1> HIDE DEF d0, n0
<1>4. landed' \in [Docs -> Stamps]
  BY <1>1, <1>2, <1>3
<1>5. \A d \in Docs : landed'[d] >= landed[d]
  BY <1>1, <1>2, <1>3 DEF Stamps
<1>6. landed'[d0] >= n0
  BY <1>1, <1>2, <1>3 DEF Stamps
<1> QED
  BY <1>4, <1>5, <1>6 DEF d0, n0

\* A write that fails changes no row.
LEMMA FailsIs ==
    ASSUME TypeOK, 1 \in Places, Fails(queue[1])
    PROVE  /\ rows' = rows /\ landed' = landed /\ landed' \in [Docs -> Stamps]
           /\ excused' = excused \cup {queue[1].words.doc} /\ excused' \subseteq Docs
           /\ faults' \in 0 .. MaxFaults
           /\ RowsType' /\ Len(rows') \in Nat /\ Len(rows') >= Len(rows)
<1>1. Types /\ Reckoned
  BY TypeParts, Reckon
<1>2. /\ rows' = rows /\ landed' = landed /\ excused' = excused \cup {queue[1].words.doc}
      /\ faults' = faults \/ (faults < MaxFaults /\ faults' = faults + 1)
  BY DEF Fails
<1>3. queue[1].words.doc \in Docs /\ excused \subseteq Docs /\ faults \in 0 .. MaxFaults
      /\ landed \in [Docs -> Stamps] /\ RowsType /\ Len(rows) \in Nat
  BY <1>1 DEF Types, GhostType, Reckoned
<1>4. RowsType'
  BY <1>2, <1>3 DEF RowsType
<1>5. faults' \in 0 .. MaxFaults
  BY <1>2, <1>3
<1> QED
  BY <1>2, <1>3, <1>4, <1>5

LEMMA SameRows == ASSUME rows' = rows PROVE RowsMove
BY DEF RowsMove

LEMMA WriterSaveMoves ==
    ASSUME Inv, WriterSave
    PROVE  /\ Moved /\ TypeOK' /\ queue[1].kind = "save" /\ emptied' = emptied
           /\ \/ Wrote("editing") /\ Land(queue[1]) /\ current'.id = Target(queue[1]) /\ excused' = excused
              \/ rows' = rows /\ landed' = landed /\ queue[1].words.doc \in excused'
<1>1. TypeOK /\ Takes("save") /\ Reckoned /\ Types
  BY Reckon, TypeParts DEF Inv, WriterSave
<1>2. /\ Shifted /\ Next1 = queue[1] /\ queue[1].kind = "save" /\ 1 \in Places
  BY <1>1, TailPlaces DEF Shifted
<1>3. /\ UNCHANGED <<frontend, compose_vars, latest, sent, typed>> /\ emptied' = emptied
  BY DEF WriterSave
<1>4. /\ queue[1].gen \in 0 .. composer.gen /\ queue[1].words \in WordsSet
      /\ queue[1].gen \in Nat
      /\ emptied \subseteq Docs /\ excused \subseteq Docs
      /\ faults \in 0 .. MaxFaults
      /\ Len(rows) \in Nat
      /\ current \in [gen : 0 .. composer.gen, id : 0 .. Len(rows)]
      /\ answers \subseteq [gen : 0 .. composer.gen, id : 1 .. Len(rows)]
  BY <1>1, <1>2, SMTT(40) DEF Types, GhostType, WriterType, Reckoned, Ids, None
<1>5. CASE /\ Writable(queue[1])
           /\ rows' = Written(queue[1], "editing")
           /\ current' = [gen |-> queue[1].gen, id |-> Target(queue[1])]
           /\ answers' = answers \cup {current'}
           /\ Land(queue[1])
           /\ UNCHANGED <<excused, faults>>
  <2>1. "editing" \in States
    BY DEF States
  <2>2. Wrote("editing") /\ RowsMove /\ RowsType' /\ Len(rows') >= Len(rows) /\ Len(rows') \in Nat
    BY <1>2, <1>5, <2>1, WrittenRows
  <2> DEFINE t == Target(queue[1])
  <2>3. t \in DOMAIN rows' /\ rows'[t].doc = queue[1].words.doc /\ DOMAIN rows' = 1 .. Len(rows')
    <3>1. DOMAIN rows' = 1 .. Len(rows')
      BY <2>2, LenProperties DEF RowsType
    <3>2. t \in DOMAIN rows' /\ rows'[t].doc = queue[1].words.doc
      BY <2>2 DEF Wrote, Row
    <3> QED
      BY <3>1, <3>2
  <2> HIDE DEF t
  <2>4. current' = [gen |-> queue[1].gen, id |-> t]
    BY <1>5 DEF t
  <2>5. CurrentMove
    BY <1>2, <1>5, <2>3, <2>4 DEF CurrentMove
  <2>6. current' \in [gen : 0 .. composer.gen, id : 1 .. Len(rows')]
    BY <1>4, <2>3, <2>4
  <2>7. current' \in [gen : 0 .. composer.gen, id : 0 .. Len(rows')]
        /\ answers' \subseteq [gen : 0 .. composer.gen, id : 1 .. Len(rows')]
    BY <1>4, <1>5, <2>2, <2>6
  <2>8. landed' \in [Docs -> Stamps]
    BY <1>1, <1>4, <1>5, LandedType
  <2>9. TypeOK'
    BY <1>1, <1>3, <1>4, <1>5, <2>2, <2>7, <2>8, MovedTypes
  <2> QED
    BY <1>2, <1>3, <1>5, <2>2, <2>5, <2>9 DEF Moved
<1>6. CASE Fails(queue[1]) /\ UNCHANGED <<current, answers>>
  <2>1. /\ rows' = rows /\ landed' = landed /\ landed' \in [Docs -> Stamps]
        /\ excused' = excused \cup {queue[1].words.doc} /\ excused' \subseteq Docs
        /\ faults' \in 0 .. MaxFaults
        /\ RowsType' /\ Len(rows') \in Nat /\ Len(rows') >= Len(rows)
    BY <1>1, <1>2, <1>6, FailsIs
  <2>2. CurrentMove /\ RowsMove
    BY <1>2, <1>6, <2>1, SameRows DEF CurrentMove
  <2>3. TypeOK'
    BY <1>1, <1>3, <1>4, <1>6, <2>1, MovedTypes
  <2> QED
    BY <1>2, <1>3, <2>1, <2>2, <2>3 DEF Moved
<1> QED
  BY <1>2, <1>5, <1>6 DEF WriterSave

LEMMA ForgetIs ==
    ASSUME Inv, 1 \in Places, Forget(queue[1].gen)
    PROVE  /\ current' = IF current.gen = queue[1].gen THEN NoCurrent ELSE current
           /\ current' \in [gen : 0 .. composer.gen, id : 0 .. Len(rows)]
<1>1. Types /\ Reckoned
  BY TypeParts, Reckon DEF Inv
<1> QED
  BY <1>1 DEF Forget, Types, WriterType, Reckoned, NoCurrent, Ids, None

LEMMA WriterSendMoves ==
    ASSUME Inv, WriterSend
    PROVE  /\ Moved /\ TypeOK' /\ queue[1].kind = "send" /\ emptied' = emptied
           /\ \/ Wrote("queued") /\ Land(queue[1]) /\ excused' = excused
              \/ rows' = rows /\ landed' = landed /\ queue[1].words.doc \in excused'
<1>1. TypeOK /\ Takes("send") /\ Reckoned /\ Types
  BY Reckon, TypeParts DEF Inv, WriterSend
<1>2. /\ Shifted /\ Next1 = queue[1] /\ queue[1].kind = "send" /\ 1 \in Places
  BY <1>1, TailPlaces DEF Shifted
<1>3. /\ UNCHANGED <<frontend, compose_vars, latest, sent, typed>> /\ emptied' = emptied
      /\ answers' = answers /\ Forget(queue[1].gen)
  BY <1>2 DEF WriterSend
<1>4. /\ queue[1].words \in WordsSet
      /\ emptied \subseteq Docs /\ excused \subseteq Docs /\ faults \in 0 .. MaxFaults
      /\ Len(rows) \in Nat
      /\ answers \subseteq [gen : 0 .. composer.gen, id : 1 .. Len(rows)]
  BY <1>1, <1>2 DEF Types, GhostType, WriterType, Reckoned, Ids, None
<1>5. /\ current' = IF current.gen = queue[1].gen THEN NoCurrent ELSE current
      /\ current' \in [gen : 0 .. composer.gen, id : 0 .. Len(rows)]
  BY <1>2, <1>3, ForgetIs
<1>6. CurrentMove
  BY <1>2, <1>3, <1>5 DEF CurrentMove
<1>7. CASE /\ Writable(queue[1])
           /\ rows' = Written(queue[1], "queued")
           /\ Land(queue[1])
           /\ UNCHANGED <<excused, faults>>
  <2>1. "queued" \in States
    BY DEF States
  <2>2. Wrote("queued") /\ RowsMove /\ RowsType' /\ Len(rows') >= Len(rows) /\ Len(rows') \in Nat
    BY <1>2, <1>7, <2>1, WrittenRows
  <2>3. current' \in [gen : 0 .. composer.gen, id : 0 .. Len(rows')]
        /\ answers' \subseteq [gen : 0 .. composer.gen, id : 1 .. Len(rows')]
    BY <1>3, <1>4, <1>5, <2>2
  <2>4. landed' \in [Docs -> Stamps]
    BY <1>1, <1>4, <1>7, LandedType
  <2>5. TypeOK'
    BY <1>1, <1>3, <1>4, <1>7, <2>2, <2>3, <2>4, MovedTypes
  <2> QED
    BY <1>2, <1>3, <1>6, <1>7, <2>2, <2>5 DEF Moved
<1>8. CASE Fails(queue[1])
  <2>1. /\ rows' = rows /\ landed' = landed /\ landed' \in [Docs -> Stamps]
        /\ excused' = excused \cup {queue[1].words.doc} /\ excused' \subseteq Docs
        /\ faults' \in 0 .. MaxFaults
        /\ RowsType' /\ Len(rows') \in Nat /\ Len(rows') >= Len(rows)
    BY <1>1, <1>2, <1>8, FailsIs
  <2>2. TypeOK'
    BY <1>1, <1>3, <1>4, <1>5, <2>1, MovedTypes
  <2> QED
    BY <1>2, <1>3, <1>6, <2>1, <2>2, SameRows DEF Moved
<1> QED
  BY <1>2, <1>7, <1>8 DEF WriterSend

\* A discard marks the row its composition is known by, and no other.
Dropped == \A r \in DOMAIN rows :
              IF r = Discarded(queue[1]) THEN rows'[r] = [rows[r] EXCEPT !.state = "gone"]
                                         ELSE rows'[r] = rows[r]

LEMMA WriterDiscardMoves ==
    ASSUME Inv, WriterDiscard
    PROVE  /\ Moved /\ TypeOK' /\ queue[1].kind = "discard" /\ landed' = landed
           /\ excused' = excused /\ DOMAIN rows' = DOMAIN rows
           /\ \/ Dropped /\ emptied' = emptied
              \/ /\ rows' = rows /\ Discarded(queue[1]) # None
                 /\ emptied' = emptied \ {queue[1].words.doc}
<1>1. TypeOK /\ Takes("discard") /\ Reckoned /\ Types
  BY Reckon, TypeParts DEF Inv, WriterDiscard
<1>2. /\ Shifted /\ Next1 = queue[1] /\ queue[1].kind = "discard" /\ 1 \in Places
  BY <1>1, TailPlaces DEF Shifted
<1>3. /\ UNCHANGED <<frontend, compose_vars, latest, sent, typed, landed, excused>>
      /\ answers' = answers /\ Forget(queue[1].gen)
  BY <1>2 DEF WriterDiscard
<1>4. /\ emptied \subseteq Docs /\ excused \subseteq Docs /\ faults \in 0 .. MaxFaults
      /\ landed \in [Docs -> Stamps] /\ RowsType
      /\ Len(rows) \in Nat /\ DOMAIN rows = 1 .. Len(rows)
      /\ answers \subseteq [gen : 0 .. composer.gen, id : 1 .. Len(rows)]
  BY <1>1 DEF Types, GhostType, WriterType, Reckoned, Ids, None
<1>5. /\ current' = IF current.gen = queue[1].gen THEN NoCurrent ELSE current
      /\ current' \in [gen : 0 .. composer.gen, id : 0 .. Len(rows)]
  BY <1>2, <1>3, ForgetIs
<1>6. CurrentMove
  BY <1>2, <1>3, <1>5 DEF CurrentMove
<1> DEFINE id == Discarded(queue[1])
           S  == [doc : Docs, words : WordsSet, state : States]
<1>7. CASE /\ rows' = [r \in DOMAIN rows |-> IF r = id THEN [rows[r] EXCEPT !.state = "gone"]
                                             ELSE rows[r]]
           /\ UNCHANGED <<emptied, faults>>
  <2>1. \A r \in DOMAIN rows : rows[r] \in S
    BY <1>4, ElementOfSeq DEF RowsType
  <2>2. \A r \in DOMAIN rows : [rows[r] EXCEPT !.state = "gone"] \in S
                               /\ [rows[r] EXCEPT !.state = "gone"].doc = rows[r].doc
    BY <2>1 DEF States
  <2> HIDE DEF id, S
  <2>3. /\ DOMAIN rows' = DOMAIN rows
        /\ \A r \in DOMAIN rows : rows'[r] = IF r = id THEN [rows[r] EXCEPT !.state = "gone"]
                                             ELSE rows[r]
    BY <1>7
  <2>4. \A r \in DOMAIN rows : rows'[r].doc = rows[r].doc /\ rows'[r] \in S
    BY <2>1, <2>2, <2>3
  <2>5. rows' \in [1 .. Len(rows) -> S]
    BY <1>4, <1>7, <2>3, <2>4
  <2>6. rows' \in Seq(S) /\ Len(rows') = Len(rows)
    <3>1. rows' \in Seq(S)
      BY <1>4, <2>5
    <3>2. DOMAIN rows' = 1 .. Len(rows') /\ Len(rows') \in Nat
      BY <3>1, LenProperties
    <3> QED
      BY <1>4, <2>3, <3>1, <3>2
  <2>7. RowsType' /\ RowsMove
    BY <2>3, <2>4, <2>6 DEF RowsType, RowsMove, S
  <2>8. TypeOK'
    BY <1>1, <1>3, <1>4, <1>5, <1>7, <2>6, <2>7, MovedTypes
  <2>9. Dropped
    BY <2>3 DEF Dropped, id
  <2> QED
    BY <1>2, <1>3, <1>6, <1>7, <2>3, <2>7, <2>8, <2>9 DEF Moved
<1>8. CASE /\ id # None
           /\ faults < MaxFaults
           /\ faults' = faults + 1
           /\ emptied' = emptied \ {queue[1].words.doc}
           /\ UNCHANGED rows
  <2>1. faults' \in 0 .. MaxFaults /\ emptied' \subseteq Docs
    BY <1>4, <1>8
  <2>2. RowsType' /\ rows' = rows /\ Len(rows') \in Nat /\ Len(rows') >= Len(rows)
    BY <1>4, <1>8 DEF RowsType
  <2>3. TypeOK'
    BY <1>1, <1>3, <1>4, <1>5, <1>8, <2>1, <2>2, MovedTypes
  <2> QED
    BY <1>2, <1>3, <1>6, <1>8, <2>3, SameRows DEF Moved
<1> QED
  BY <1>2, <1>7, <1>8 DEF WriterDiscard

-----------------------------------------------------------------------------
(* What such a step keeps.                                                 *)

Step == /\ Inv /\ Moved /\ TypeOK' /\ Reckoned /\ Reckoned'
        /\ composer' = composer /\ last' = last /\ request' = request
        /\ frontend' = frontend /\ sent' = sent /\ latest' = latest

LEMMA StepIs == ASSUME Inv, Moved, TypeOK' PROVE Step
BY Reckon, ReckonNext DEF Inv, Moved, Step, compose_vars

LEMMA MovedOneRowEach == ASSUME Step PROVE OneRowEach'
<1>1. OneRowEach /\ RowsMove
  BY DEF Step, Inv, Moved
<1> SUFFICES ASSUME NEW r \in DOMAIN rows', NEW s \in DOMAIN rows', rows'[r].doc = rows'[s].doc
             PROVE  r = s
  BY DEF OneRowEach
<1>2. CASE r \in DOMAIN rows /\ s \in DOMAIN rows
  BY <1>1, <1>2 DEF OneRowEach, RowsMove
<1>3. CASE r \notin DOMAIN rows
  BY <1>1, <1>3 DEF RowsMove
<1>4. CASE s \notin DOMAIN rows
  BY <1>1, <1>4 DEF RowsMove
<1> QED
  BY <1>2, <1>3, <1>4

LEMMA MovedBounds == ASSUME Step PROVE Bounds'
<1>1. /\ Bounds /\ RowsMove /\ CurrentMove /\ Shifted /\ Reckoned
      /\ composer' = composer /\ request' = request /\ emptied' \subseteq emptied
  BY DEF Step, Inv, Moved
<1>2. 1 <= queue[1].gen /\ queue[1].words.doc <= queue[1].gen /\ queue[1].gen <= composer.gen
      /\ queue[1].gen \in Nat /\ queue[1].words.doc \in Nat /\ composer.gen \in Nat
  BY <1>1 DEF Bounds, Shifted, Reckoned, Docs
<1>3. \A i \in Places' : 1 <= queue'[i].gen /\ queue'[i].words.doc <= queue'[i].gen
  BY <1>1 DEF Bounds, Shifted
<1>4. \A r \in DOMAIN rows' : rows'[r].doc <= composer'.gen
  BY <1>1, <1>2 DEF Bounds, RowsMove
<1>5. current' = NoCurrent \/ (current'.gen >= 1 /\ current'.id # None)
  <2>1. CASE current' = current \/ current' = NoCurrent
    BY <1>1, <2>1 DEF Bounds
  <2>2. ASSUME NEW t \in DOMAIN rows', current' = [gen |-> queue[1].gen, id |-> t]
        PROVE  current'.gen >= 1 /\ current'.id # None
    BY <1>2, <2>2 DEF Step, Reckoned, None
  <2> QED
    BY <1>1, <2>1, <2>2 DEF CurrentMove
<1>6. \A a \in answers' : a.gen >= 1
  BY <1>1, <1>2 DEF Bounds, CurrentMove
<1> QED
  BY <1>1, <1>3, <1>4, <1>5, <1>6 DEF Bounds

LEMMA MovedInOrder == ASSUME Step PROVE InOrder'
<1>1. InOrder /\ Shifted /\ CurrentMove /\ Reckoned /\ Reckoned'
  BY DEF Step, Inv, Moved
<1>2. \A i \in Places' : /\ i + 1 \in Places /\ queue'[i] = queue[i + 1] /\ 1 < i + 1 /\ i \in Int
                         /\ queue[1].gen <= queue'[i].gen /\ current.gen <= queue'[i].gen
                         /\ queue'[i].gen \in Nat
  <2>1. \A i \in Places' : /\ i + 1 \in Places /\ queue'[i] = queue[i + 1] /\ i \in Nat /\ 1 < i + 1
    BY <1>1 DEF Shifted, Reckoned
  <2>2. 1 \in Places /\ \A i \in Places : queue[i].gen \in Nat
    BY <1>1 DEF Shifted, Reckoned
  <2>3. \A i \in Places : current.gen <= queue[i].gen /\ (1 < i => queue[1].gen <= queue[i].gen)
    BY <1>1, <2>2 DEF InOrder
  <2> QED
    BY <2>1, <2>2, <2>3
<1>3. ASSUME NEW i \in Places', NEW j \in Places', i < j PROVE queue'[i].gen <= queue'[j].gen
  <2>1. i + 1 < j + 1
    BY <1>2, <1>3
  <2> QED
    BY <1>1, <1>2, <2>1 DEF InOrder
<1>4. current'.gen \in {current.gen, 0, queue[1].gen}
  BY <1>1 DEF CurrentMove, NoCurrent
<1> QED
  BY <1>2, <1>3, <1>4 DEF InOrder

LEMMA MovedEnded == ASSUME Step PROVE Ended'
<1>1. /\ Ended /\ Shifted /\ Reckoned'
      /\ composer' = composer /\ sent' = sent /\ (Spent' <=> Spent)
  BY DEF Step, Inv, Moved, Spent, Desktop
<1>2. \A i \in Places' : i + 1 \in Places /\ queue'[i] = queue[i + 1] /\ i \in Int
  BY <1>1 DEF Shifted, Reckoned
<1>3. ASSUME NEW i \in Places', NEW j \in Places', i < j
      PROVE  /\ queue'[i].kind = "discard" => queue'[i].gen < queue'[j].gen
             /\ queue'[i].kind = "send" => queue'[i].gen < queue'[j].gen
                                            \/ queue'[j].kind = "discard"
  <2>1. i + 1 < j + 1
    BY <1>2, <1>3
  <2> QED
    BY <1>1, <1>2, <2>1 DEF Ended
<1> QED
  BY <1>1, <1>2, <1>3 DEF Ended

LEMMA MovedSameDoc == ASSUME Step PROVE SameDoc'
BY DEF Step, Inv, Moved, SameDoc, Shifted

LEMMA MovedOwnRows == ASSUME Step PROVE OwnRows'
<1>1. /\ OwnRows /\ SameDoc /\ Shifted /\ RowsMove /\ CurrentMove /\ Reckoned /\ Bounds
      /\ composer' = composer /\ last' = last /\ request' = request
      /\ (Desktop' <=> Desktop)
  BY DEF Step, Inv, Moved, Desktop
<1>2. \A i \in Places' : i + 1 \in Places /\ queue'[i] = queue[i + 1]
  BY <1>1 DEF Shifted
<1>3. /\ \A i \in Ids : i # None => i \in DOMAIN rows
      /\ \A r \in DOMAIN rows : rows'[r].doc = rows[r].doc
      /\ \A i \in Places : queue[i].id \in Ids
      /\ composer.id \in Ids /\ request.id \in Ids /\ current.id \in Ids
      /\ \A a \in answers : a.id \in DOMAIN rows
      /\ 1 \in Places
  BY <1>1 DEF Reckoned, Ids, None, RowsMove, Shifted
<1>4. ASSUME NEW i \in Places', queue'[i].id # None, Makes(i)' \/ ~Desktop'
      PROVE  rows'[queue'[i].id].doc = queue'[i].words.doc
  BY <1>1, <1>2, <1>3, <1>4 DEF OwnRows, Makes
<1>5. composer'.id # None => rows'[composer'.id].doc = composer'.words.doc
  BY <1>1, <1>3 DEF OwnRows
<1>6. request'.step # "none" => rows'[request'.id].doc = request'.words.doc
  BY <1>1, <1>3 DEF OwnRows, Bounds
<1>7. ASSUME NEW a \in answers', a.gen = composer'.gen
      PROVE  rows'[a.id].doc = composer'.words.doc
  <2>1. CASE a \in answers
    BY <1>1, <1>3, <1>7, <2>1 DEF OwnRows
  <2>2. CASE a \notin answers
    <3>1. PICK t \in DOMAIN rows' : /\ a = [gen |-> queue[1].gen, id |-> t]
                                    /\ rows'[t].doc = queue[1].words.doc
      BY <1>1, <1>7, <2>2 DEF CurrentMove
    <3> QED
      BY <1>1, <1>3, <1>7, <3>1 DEF SameDoc
  <2> QED
    BY <2>1, <2>2
<1>8. \/ current' = current \/ current' = NoCurrent
      \/ \E t \in DOMAIN rows' : /\ current' = [gen |-> queue[1].gen, id |-> t]
                                 /\ rows'[t].doc = queue[1].words.doc
  BY <1>1 DEF CurrentMove
<1>9. ASSUME NEW i \in Places', current'.id # None, queue'[i].gen = current'.gen
      PROVE  rows'[current'.id].doc = queue'[i].words.doc
  <2>1. CASE current' = current
    BY <1>1, <1>2, <1>3, <1>9, <2>1 DEF OwnRows
  <2>2. CASE current' = NoCurrent
    BY <1>9, <2>2 DEF NoCurrent
  <2>3. ASSUME NEW t \in DOMAIN rows', current' = [gen |-> queue[1].gen, id |-> t],
               rows'[t].doc = queue[1].words.doc
        PROVE  rows'[current'.id].doc = queue'[i].words.doc
    BY <1>1, <1>2, <1>3, <1>9, <2>3 DEF SameDoc
  <2> QED
    BY <1>8, <2>1, <2>2, <2>3
<1>10. ASSUME current'.id # None, composer'.gen = current'.gen
       PROVE  rows'[current'.id].doc = composer'.words.doc
  <2>1. CASE current' = current
    BY <1>1, <1>3, <1>10, <2>1 DEF OwnRows
  <2>2. CASE current' = NoCurrent
    BY <1>10, <2>2 DEF NoCurrent
  <2>3. ASSUME NEW t \in DOMAIN rows', current' = [gen |-> queue[1].gen, id |-> t],
               rows'[t].doc = queue[1].words.doc
        PROVE  rows'[current'.id].doc = composer'.words.doc
    BY <1>1, <1>3, <1>10, <2>3 DEF SameDoc
  <2> QED
    BY <1>8, <2>1, <2>2, <2>3
<1>11. Desktop' /\ composer'.words.doc # composer'.gen => composer'.id # None /\ last' = composer'.id
  BY <1>1 DEF OwnRows
<1> QED
  BY <1>4, <1>5, <1>6, <1>7, <1>9, <1>10, <1>11 DEF OwnRows

\* What the writer knows of a document it goes on knowing, until its composition
\* ended: no write of an older one is to its row.
LEMMA KnownKept ==
    ASSUME Step, NEW g \in Nat, Known(g), queue[1].gen <= g,
           queue[1].gen = g => queue[1].kind = "save" /\ queue[1].words.doc = g
    PROVE  Known(g)'
<1>1. /\ InOrder /\ RowsMove /\ CurrentMove /\ Reckoned /\ 1 \in Places /\ OneRowEach'
  BY MovedOneRowEach DEF Step, Inv, Moved, Shifted
<1>2. current.gen <= queue[1].gen /\ current.gen \in Nat /\ queue[1].gen \in Nat
  BY <1>1 DEF InOrder, Reckoned
<1> SUFFICES ASSUME NEW r \in DOMAIN rows', rows'[r].doc = g
             PROVE  current' = [gen |-> g, id |-> r]
  BY DEF Known
<1>3. CASE queue[1].gen < g
  <2>1. r \in DOMAIN rows
    BY <1>1, <1>2, <1>3 DEF RowsMove
  <2>2. current = [gen |-> g, id |-> r]
    BY <1>1, <2>1 DEF RowsMove, Known
  <2> QED
    BY <1>2, <1>3, <2>2
<1>4. CASE queue[1].gen = g
  <2>1. queue[1].kind = "save" /\ queue[1].words.doc = g
    BY <1>4
  <2>2. CASE rows' = rows /\ current' = current
    BY <2>2 DEF Known
  <2>3. ASSUME NEW t \in DOMAIN rows', current' = [gen |-> queue[1].gen, id |-> t],
               rows'[t].doc = queue[1].words.doc
        PROVE  current' = [gen |-> g, id |-> r]
    BY <1>1, <1>4, <2>1, <2>3 DEF OneRowEach
  <2> QED
    BY <1>1, <2>1, <2>2, <2>3 DEF CurrentMove
<1> QED
  BY <1>2, <1>3, <1>4

LEMMA MovedUnsaved == ASSUME Step PROVE Unsaved'
<1>1. /\ Unsaved /\ InOrder /\ Ended /\ SameDoc /\ Shifted /\ Reckoned
      /\ composer' = composer /\ sent' = sent /\ (Spent' <=> Spent)
  BY DEF Step, Inv, Moved, Spent, Desktop
<1>2. \A i \in Places' : i + 1 \in Places /\ queue'[i] = queue[i + 1] /\ 1 < i + 1
  BY <1>1 DEF Shifted
<1>3. /\ 1 \in Places /\ queue[1].gen \in Nat /\ composer.gen \in Nat
      /\ queue[1].gen <= composer.gen
      /\ queue[1].kind \in {"save", "send", "discard"}
      /\ \A j \in Places : queue[j].gen \in Nat
  BY <1>1 DEF Reckoned, Shifted
<1>4. \A i \in Places' : Makes(i)' /\ queue'[i].id = None => queue'[i].words.doc = queue'[i].gen
  BY <1>1, <1>2 DEF Unsaved, Makes
<1>5. composer'.id = None => composer'.words.doc = composer'.gen
  BY <1>1 DEF Unsaved
<1>6. ASSUME NEW i \in Places', queue'[i].words.doc = queue'[i].gen,
             Makes(i)' \/ queue'[i].gen \notin sent'
      PROVE  \A r \in DOMAIN rows' : rows'[r].doc = queue'[i].gen
                                      => current' = [gen |-> queue'[i].gen, id |-> r]
  <2> DEFINE g == queue[i + 1].gen
  <2>1. /\ i + 1 \in Places /\ queue'[i] = queue[i + 1] /\ 1 < i + 1
        /\ queue'[i].gen = g /\ g \in Nat
    BY <1>2, <1>3
  <2>2. Known(g)
    BY <1>1, <1>6, <2>1 DEF Unsaved, Makes
  <2>3. queue[1].gen <= g
    BY <1>1, <1>3, <2>1 DEF InOrder
  <2>4. ASSUME queue[1].gen = g PROVE queue[1].kind = "save" /\ queue[1].words.doc = g
    <3>1. queue[1].words.doc = g
      BY <1>1, <1>3, <1>6, <2>1, <2>4 DEF SameDoc
    <3>2. queue[1].kind # "discard"
      BY <1>1, <1>3, <2>1, <2>4 DEF Ended
    <3>3. queue[1].kind # "send"
      <4>1. CASE queue[1].kind = "send"
        <5>1. g \in sent /\ queue[i + 1].kind = "discard"
          BY <1>1, <1>3, <2>1, <2>4, <4>1 DEF Ended
        <5> QED
          BY <1>1, <1>6, <2>1, <5>1 DEF Makes
      <4> QED
        BY <4>1
    <3> QED
      BY <1>3, <3>1, <3>2, <3>3
  <2>5. PICK n \in Nat : n = g
    BY <2>1
  <2> HIDE DEF g
  <2>6. Known(n)'
    BY <2>2, <2>3, <2>4, <2>5, KnownKept
  <2>7. queue'[i].gen = n
    BY <2>1, <2>5
  <2> QED
    BY <2>6, <2>7 DEF Known
<1>7. ASSUME composer'.words.doc = composer'.gen, ~Spent'
      PROVE  \A r \in DOMAIN rows' : rows'[r].doc = composer'.gen
                                      => current' = [gen |-> composer'.gen, id |-> r]
  <2>1. Known(composer.gen) /\ composer.words.doc = composer.gen
    BY <1>1, <1>7 DEF Unsaved
  <2>2. queue[1].gen = composer.gen => queue[1].kind = "save" /\ queue[1].words.doc = composer.gen
    BY <1>1, <1>3, <1>7, <2>1 DEF Ended, SameDoc
  <2>3. PICK n \in Nat : n = composer.gen
    BY <1>3
  <2>4. Known(n)'
    BY <1>3, <2>1, <2>2, <2>3, KnownKept
  <2>5. composer'.gen = n
    BY <1>1, <2>3
  <2> QED
    BY <2>4, <2>5 DEF Known
<1> QED
  BY <1>4, <1>5, <1>6, <1>7 DEF Unsaved, Known

LEMMA MovedAfterSend == ASSUME Step PROVE AfterSend'
<1>1. /\ AfterSend /\ Ended /\ Bounds /\ Shifted /\ CurrentMove /\ Reckoned /\ Reckoned' /\ sent' = sent
  BY DEF Step, Inv, Moved
<1>2. \A i \in Places' : /\ i + 1 \in Places /\ queue'[i] = queue[i + 1] /\ 1 < i + 1
                         /\ i \in Int
  BY <1>1 DEF Shifted, Reckoned
<1>3. /\ 1 \in Places /\ \A j \in Places : queue[j].gen \in Nat /\ 1 <= queue[j].gen /\ j \in Int
      /\ \A j \in Places : j # 1 => j - 1 \in Places' /\ queue'[j - 1] = queue[j]
  BY <1>1 DEF Reckoned, Shifted, Bounds
<1> SUFFICES ASSUME NEW i \in Places', queue'[i].kind = "discard", queue'[i].gen \in sent'
             PROVE  /\ queue'[i].id = None
                    /\ \/ \E j \in Places' : /\ j < i /\ queue'[j].kind = "send"
                                             /\ queue'[j].gen = queue'[i].gen
                       \/ /\ current'.gen # queue'[i].gen
                          /\ \A j \in Places' : Makes(j)' => queue'[j].gen # queue'[i].gen
  BY DEF AfterSend
<1>4. queue'[i].id = None
  BY <1>1, <1>2 DEF AfterSend
<1>5. CASE \E j \in Places : j < i + 1 /\ queue[j].kind = "send" /\ queue[j].gen = queue[i + 1].gen
  <2>1. PICK j \in Places : j < i + 1 /\ queue[j].kind = "send" /\ queue[j].gen = queue[i + 1].gen
    BY <1>5
  <2>2. CASE j = 1
    <3>1. current'.gen # queue[1].gen
      BY <1>1, <1>3, <2>1, <2>2 DEF CurrentMove, NoCurrent
    <3>2. ASSUME NEW k \in Places', Makes(k)' PROVE queue'[k].gen # queue[1].gen
      BY <1>1, <1>2, <1>3, <2>1, <2>2, <3>2 DEF Ended, Makes
    <3> QED
      BY <1>2, <1>4, <2>1, <2>2, <3>1, <3>2
  <2>3. CASE j # 1
    <3>1. j - 1 \in Places' /\ queue'[j - 1] = queue[j] /\ j - 1 < i
      BY <1>2, <1>3, <2>1, <2>3
    <3> QED
      BY <1>2, <1>4, <2>1, <3>1
  <2> QED
    BY <2>2, <2>3
<1>6. CASE /\ current.gen # queue[i + 1].gen
           /\ \A j \in Places : Makes(j) => queue[j].gen # queue[i + 1].gen
  <2>1. current'.gen # queue[i + 1].gen
    <3>1. queue[1].kind = "save" => queue[1].gen # queue[i + 1].gen
      BY <1>3, <1>6 DEF Makes
    <3>2. queue[i + 1].gen # 0
      BY <1>2, <1>3
    <3> QED
      BY <1>1, <1>6, <3>1, <3>2 DEF CurrentMove, NoCurrent
  <2> QED
    BY <1>2, <1>4, <1>6, <2>1 DEF Makes
<1> QED
  BY <1>1, <1>2, <1>5, <1>6 DEF AfterSend

LEMMA MovedEmptying ==
    ASSUME Step,
           \A r \in DOMAIN rows' : rows'[r].doc \in emptied' =>
              rows'[r].state = "gone" \/ \E j \in Places' : Aimed(j, r)'
    PROVE  Emptying'
<1>1. /\ Emptying /\ Shifted /\ RowsMove /\ emptied' \subseteq emptied /\ Reckoned /\ Reckoned'
      /\ composer' = composer /\ sent' = sent /\ (Spent' <=> Spent)
  BY DEF Step, Inv, Moved, Spent, Desktop
<1>2. \A i \in Places' : i + 1 \in Places /\ queue'[i] = queue[i + 1] /\ i \in Nat
  BY <1>1 DEF Shifted, Reckoned
<1>3. ASSUME NEW i \in Places', Makes(i)', queue'[i].id = None, queue'[i].gen \in emptied'
      PROVE  \/ \E r \in DOMAIN rows' : rows'[r].doc = queue'[i].gen
             \/ \E j \in Places' : /\ i < j /\ queue'[j].kind = "discard"
                                   /\ queue'[j].gen = queue'[i].gen /\ queue'[j].gen \notin sent'
  <2>1. /\ i + 1 \in Places /\ Makes(i + 1) /\ queue[i + 1].id = None
        /\ queue[i + 1].gen \in emptied /\ queue'[i] = queue[i + 1]
    BY <1>1, <1>2, <1>3 DEF Makes
  <2>2. CASE \E r \in DOMAIN rows : rows[r].doc = queue[i + 1].gen
    BY <1>1, <2>1, <2>2 DEF RowsMove
  <2>3. ASSUME NEW k \in Places, i + 1 < k, queue[k].kind = "discard",
               queue[k].gen = queue[i + 1].gen, queue[k].gen \notin sent
        PROVE  \E j \in Places' : /\ i < j /\ queue'[j].kind = "discard"
                                  /\ queue'[j].gen = queue'[i].gen /\ queue'[j].gen \notin sent'
    <3>1. k \in Nat /\ k # 1
      BY <1>1, <1>2, <2>3, SMTT(40) DEF Reckoned
    <3>2. k - 1 \in Places' /\ queue'[k - 1] = queue[k]
      BY <1>1, <2>3, <3>1 DEF Shifted
    <3>3. i < k - 1
      BY <1>2, <2>3, <3>1
    <3> QED
      BY <1>1, <2>1, <2>3, <3>2, <3>3
  <2> QED
    BY <1>1, <2>1, <2>2, <2>3 DEF Emptying
<1>4. composer'.words.doc \in emptied' /\ composer'.id = None => Spent'
  BY <1>1 DEF Emptying
<1> QED
  BY <1>3, <1>4 DEF Emptying

\* A discard that is not at the front stays aimed.
LEMMA AimedOn ==
    ASSUME Step, NEW r \in DOMAIN rows, r \in DOMAIN rows', NEW j \in Places, Aimed(j, r), j # 1
    PROVE  \E k \in Places' : Aimed(k, r)'
<1>1. /\ j - 1 \in Places' /\ queue'[j - 1] = queue[j] /\ sent' = sent
      /\ rows'[r].doc = rows[r].doc
  BY DEF Step, Moved, Shifted, RowsMove
<1>2. PICK k \in Places' : k = j - 1
  BY <1>1
<1>3. Aimed(k, r)'
  BY <1>1, <1>2 DEF Aimed
<1> QED
  BY <1>3

\* What the writing of a save or a send keeps.
LEMMA WroteKeeps ==
    ASSUME Step, queue[1].kind # "discard", NEW state, Wrote(state), emptied' = emptied
    PROVE  WordsStayApart' /\ Emptying'
<1>1. /\ WordsStayApart /\ Emptying /\ SameDoc /\ Shifted /\ RowsMove /\ Reckoned
      /\ \A r \in DOMAIN rows : r \in DOMAIN rows' /\ rows'[r].doc = rows[r].doc
  BY DEF Step, Inv, Moved, RowsMove
<1> DEFINE t == Target(queue[1])
<1>2. WordsStayApart'
  <2>1. /\ DOMAIN rows' = DOMAIN rows \cup {t}
        /\ rows'[t].words.doc = rows'[t].doc
        /\ \A r \in DOMAIN rows : r # t => rows'[r] = rows[r]
    BY DEF Wrote, Row
  <2> HIDE DEF t
  <2> QED
    BY <1>1, <2>1 DEF WordsStayApart
<1>3. ASSUME NEW r \in DOMAIN rows', rows'[r].doc \in emptied'
      PROVE  rows'[r].state = "gone" \/ \E j \in Places' : Aimed(j, r)'
  <2>1. CASE r \in DOMAIN rows
    <3>1. CASE rows[r].state = "gone"
      <4>1. rows'[r] = rows[r]
        BY <2>1, <3>1 DEF Wrote
      <4> QED
        BY <3>1, <4>1
    <3>2. CASE rows[r].state # "gone"
      <4>1. PICK j \in Places : Aimed(j, r)
        BY <1>1, <1>3, <2>1, <3>2 DEF Emptying
      <4>2. j # 1
        BY <4>1 DEF Aimed
      <4> QED
        BY <1>1, <2>1, <4>1, <4>2, AimedOn
    <3> QED
      BY <3>1, <3>2
  <2>2. CASE r \notin DOMAIN rows
    <3>1. /\ 1 \in Places /\ Makes(1) /\ queue[1].id = None
          /\ rows'[r].doc = queue[1].words.doc /\ rows'[r].doc = queue[1].gen
          /\ queue[1].gen \in emptied
          /\ \A s \in DOMAIN rows : rows[s].doc # queue[1].gen
      BY <1>1, <1>3, <2>2 DEF RowsMove, Shifted, Makes
    <3>2. PICK j \in Places : /\ 1 < j /\ queue[j].kind = "discard"
                              /\ queue[j].gen = queue[1].gen /\ queue[j].gen \notin sent
      BY <1>1, <3>1 DEF Emptying
    <3>3. j - 1 \in Places' /\ queue'[j - 1] = queue[j] /\ sent' = sent
      BY <1>1, <3>2 DEF Shifted, Step
    <3>4. queue[j].words.doc = rows'[r].doc /\ queue[j].gen = rows'[r].doc
      BY <1>1, <3>1, <3>2 DEF SameDoc
    <3>5. PICK k \in Places' : k = j - 1
      BY <3>3
    <3>6. Aimed(k, r)'
      BY <3>2, <3>3, <3>4, <3>5 DEF Aimed
    <3> QED
      BY <3>6
  <2> QED
    BY <2>1, <2>2
<1> QED
  BY <1>2, <1>3, MovedEmptying

\* What a write that fails keeps, and a discard that fails if it does not stand
\* for its document any longer.
LEMMA FailedKeeps ==
    ASSUME Step, rows' = rows, queue[1].kind = "discard" => queue[1].words.doc \notin emptied'
    PROVE  WordsStayApart' /\ Emptying'
<1>1. WordsStayApart /\ Emptying /\ emptied' \subseteq emptied
  BY DEF Step, Inv, Moved
<1>2. WordsStayApart'
  BY <1>1 DEF WordsStayApart
<1>3. ASSUME NEW r \in DOMAIN rows', rows'[r].doc \in emptied'
      PROVE  rows'[r].state = "gone" \/ \E j \in Places' : Aimed(j, r)'
  <2>1. CASE rows[r].state # "gone"
    <3>1. r \in DOMAIN rows /\ rows'[r].doc = rows[r].doc
      BY <1>3
    <3>2. PICK j \in Places : Aimed(j, r)
      BY <1>1, <1>3, <2>1, <3>1 DEF Emptying
    <3>3. j # 1
      BY <1>3, <3>1, <3>2 DEF Aimed
    <3> QED
      BY <3>1, <3>2, <3>3, AimedOn
  <2> QED
    BY <2>1
<1> QED
  BY <1>2, <1>3, MovedEmptying

\* A discard that is aimed at a row takes it.
LEMMA AimedTakes ==
    ASSUME Inv, 1 \in Places, NEW r \in DOMAIN rows, Aimed(1, r)
    PROVE  Discarded(queue[1]) = r
<1>1. /\ OneRowEach /\ Bounds /\ OwnRows /\ Unsaved /\ Reckoned
      /\ queue[1].gen >= 1 /\ current.id \in Ids
  BY Reckon DEF Inv, Bounds, Reckoned
<1>2. CASE queue[1].gen = rows[r].doc
  <2>1. Known(queue[1].gen)
    BY <1>1, <1>2 DEF Aimed, Unsaved
  <2>2. current = [gen |-> queue[1].gen, id |-> r]
    BY <1>2, <2>1 DEF Known
  <2> QED
    BY <2>2 DEF Discarded
<1>3. CASE queue[1].id = r
  <2>1. CASE current.gen = queue[1].gen
    <3>1. current.id # None
      BY <1>1, <2>1 DEF Bounds, NoCurrent
    <3>2. current.id \in DOMAIN rows /\ rows[current.id].doc = rows[r].doc
      BY <1>1, <2>1, <3>1 DEF OwnRows, Aimed, Reckoned, Ids, None
    <3> QED
      BY <1>1, <2>1, <3>2 DEF OneRowEach, Discarded
  <2>2. CASE current.gen # queue[1].gen
    BY <1>3, <2>2 DEF Discarded
  <2> QED
    BY <2>1, <2>2
<1> QED
  BY <1>2, <1>3 DEF Aimed

LEMMA DroppedKeeps ==
    ASSUME Step, Dropped, queue[1].kind = "discard", emptied' = emptied, DOMAIN rows' = DOMAIN rows
    PROVE  WordsStayApart' /\ Emptying'
<1>1. WordsStayApart /\ Emptying /\ Inv /\ Reckoned /\ TypeOK /\ 1 \in Places
  BY DEF Step, Inv, Moved, Shifted
<1>2. \A r \in DOMAIN rows : rows[r] \in [doc : Docs, words : WordsSet, state : States]
  BY <1>1, TypeParts, ElementOfSeq DEF Types, RowsType, Reckoned
<1>3. \A r \in DOMAIN rows : /\ rows'[r].doc = rows[r].doc /\ rows'[r].words = rows[r].words
                             /\ rows[r].state = "gone" => rows'[r].state = "gone"
                             /\ r = Discarded(queue[1]) => rows'[r].state = "gone"
  BY <1>2 DEF Dropped
<1>4. WordsStayApart'
  BY <1>1, <1>3 DEF WordsStayApart
<1>5. ASSUME NEW r \in DOMAIN rows', rows'[r].doc \in emptied'
      PROVE  rows'[r].state = "gone" \/ \E j \in Places' : Aimed(j, r)'
  <2>1. r \in DOMAIN rows /\ rows[r].doc \in emptied
    BY <1>3, <1>5
  <2>2. CASE rows[r].state = "gone"
    BY <1>3, <2>1, <2>2
  <2>3. CASE rows[r].state # "gone"
    <3>1. PICK j \in Places : Aimed(j, r)
      BY <1>1, <2>1, <2>3 DEF Emptying
    <3>2. CASE j = 1
      <4>1. Discarded(queue[1]) = r
        BY <1>1, <2>1, <3>1, <3>2, AimedTakes
      <4> QED
        BY <1>3, <2>1, <4>1
    <3>3. CASE j # 1
      BY <1>5, <2>1, <3>1, <3>3, AimedOn
    <3> QED
      BY <3>2, <3>3
  <2> QED
    BY <2>2, <2>3
<1> QED
  BY <1>4, <1>5, MovedEmptying

\* The words of a write have been in its row once it is carried out, or its
\* failure excuses them.
LEMMA MovedHandedOver ==
    ASSUME Step, \A d \in Docs : landed'[d] >= landed[d],
           queue[1].kind # "discard" => \/ landed'[queue[1].words.doc] >= queue[1].words.n
                                        \/ queue[1].words.doc \in excused'
    PROVE  HandedOver'
<1>1. /\ HandedOver /\ Shifted /\ excused \subseteq excused' /\ latest' = latest
      /\ composer' = composer /\ Reckoned /\ 1 \in Places
      /\ latest \in [Docs -> Stamps] /\ landed \in [Docs -> Stamps] /\ landed' \in [Docs -> Stamps]
  BY TypeParts, TypePartsNext DEF Step, Inv, Moved, Types, GhostType, Shifted
<1> SUFFICES ASSUME NEW d \in Docs \ excused'
             PROVE  latest'[d] = 0 \/ latest'[d] <= landed'[d] \/ OnTheWay(d)' \/ Waiting(d)'
  BY DEF HandedOver
<1>2. latest[d] \in Nat /\ landed[d] \in Nat /\ landed'[d] \in Nat /\ landed'[d] >= landed[d]
      /\ d \in Docs \ excused
  BY <1>1 DEF Stamps
<1>3. CASE latest[d] = 0 \/ latest[d] <= landed[d]
  BY <1>1, <1>2, <1>3
<1>4. CASE Waiting(d)
  BY <1>1, <1>4 DEF Waiting
<1>5. CASE OnTheWay(d)
  <2>1. PICK i \in Places : queue[i].kind # "discard" /\ queue[i].words = Words(d, latest[d])
    BY <1>5 DEF OnTheWay, Places
  <2>2. CASE i = 1
    <3>1. queue[1].words.doc = d /\ queue[1].words.n = latest[d]
      BY <2>1, <2>2 DEF Words
    <3> QED
      BY <1>1, <1>2, <2>1, <2>2, <3>1
  <2>3. CASE i # 1
    <3>1. i - 1 \in Places' /\ queue'[i - 1] = queue[i]
      BY <1>1, <2>3 DEF Shifted
    <3> QED
      BY <1>1, <2>1, <3>1 DEF OnTheWay, Places
  <2> QED
    BY <2>2, <2>3
<1> QED
  BY <1>1, <1>2, <1>3, <1>4, <1>5 DEF HandedOver

LEMMA MovedInv ==
    ASSUME Step, WordsStayApart', Emptying', HandedOver'
    PROVE  Inv'
BY MovedOneRowEach, MovedBounds, MovedInOrder, MovedEnded, MovedSameDoc, MovedOwnRows, MovedUnsaved,
   MovedAfterSend DEF Step, Inv

LEMMA WriterInv == ASSUME Inv, Writer PROVE Inv'
<1>1. Reckoned /\ TypeOK
  BY Reckon DEF Inv
<1>2. TypeOK /\ (1 \in Places => queue[1].words \in WordsSet)
  BY <1>1 DEF Reckoned
<1>3. ASSUME Step, NEW state, Wrote(state), Land(queue[1]), queue[1].kind # "discard",
             emptied' = emptied
      PROVE  Inv'
  <2>1. 1 \in Places
    BY <1>3 DEF Step, Moved, Shifted
  <2>2. /\ \A d \in Docs : landed'[d] >= landed[d]
        /\ landed'[queue[1].words.doc] >= queue[1].words.n
    BY <1>2, <1>3, <2>1, LandedType
  <2> QED
    BY <1>3, <2>2, WroteKeeps, MovedHandedOver, MovedInv
<1>4. ASSUME landed' = landed PROVE \A d \in Docs : landed'[d] >= landed[d]
  BY <1>1, <1>4, TypeParts DEF Types, GhostType, Stamps
<1>5. ASSUME Step, rows' = rows, landed' = landed, queue[1].kind # "discard",
             queue[1].words.doc \in excused'
      PROVE  Inv'
  BY <1>4, <1>5, FailedKeeps, MovedHandedOver, MovedInv
<1>6. CASE WriterSave
  BY <1>3, <1>5, <1>6, WriterSaveMoves, StepIs
<1>7. CASE WriterSend
  BY <1>3, <1>5, <1>7, WriterSendMoves, StepIs
<1>8. CASE WriterDiscard
  <2>1. /\ Step /\ queue[1].kind = "discard" /\ landed' = landed /\ DOMAIN rows' = DOMAIN rows
        /\ \/ Dropped /\ emptied' = emptied
           \/ rows' = rows /\ emptied' = emptied \ {queue[1].words.doc}
    BY <1>8, WriterDiscardMoves, StepIs
  <2>2. WordsStayApart' /\ Emptying'
    <3>1. CASE Dropped /\ emptied' = emptied
      BY <2>1, <3>1, DroppedKeeps
    <3>2. CASE rows' = rows /\ emptied' = emptied \ {queue[1].words.doc}
      BY <2>1, <3>2, FailedKeeps
    <3> QED
      BY <2>1, <3>1, <3>2
  <2> QED
    BY <1>4, <2>1, <2>2, MovedHandedOver, MovedInv
<1> QED
  BY <1>6, <1>7, <1>8 DEF Writer

-----------------------------------------------------------------------------
(* The steps beside the queue, seen alike: a row changes its state, a row  *)
(* is read, an answer is heard.                                            *)

Beside ==
    /\ UNCHANGED <<frontend, queue, current, ghosts>>
    /\ DOMAIN rows' = DOMAIN rows
    /\ \A r \in DOMAIN rows : /\ rows'[r].doc = rows[r].doc /\ rows'[r].words = rows[r].words
                              /\ rows[r].state = "gone" => rows'[r].state = "gone"
    /\ answers' \subseteq answers
    /\ composer'.open = composer.open /\ composer'.gen = composer.gen
    /\ composer'.words = composer.words /\ composer'.armed = composer.armed
    /\ \/ composer'.id = composer.id /\ last' = last
       \/ \E a \in answers : /\ a.gen = composer.gen
                             /\ composer'.id \in {composer.id, a.id} \ {None}
                             /\ last' \in {last, a.id}
    /\ request'.step # "none" => /\ request'.id \in DOMAIN rows
                                 /\ rows[request'.id].doc = request'.words.doc

Aside == Beside /\ Inv /\ TypeOK' /\ Reckoned /\ Reckoned'

LEMMA BesideOwnRows == ASSUME Aside PROVE OwnRows'
<1>1. /\ OwnRows /\ OneRowEach /\ Reckoned /\ Reckoned'
      /\ queue' = queue /\ current' = current /\ answers' \subseteq answers
      /\ DOMAIN rows' = DOMAIN rows /\ \A r \in DOMAIN rows : rows'[r].doc = rows[r].doc
      /\ composer'.gen = composer.gen /\ composer'.words = composer.words
      /\ (Desktop' <=> Desktop)
  BY DEF Aside, Beside, Inv, Desktop
<1>2. /\ \A i \in Ids : i # None => i \in DOMAIN rows
      /\ \A i \in Places : queue[i].id \in Ids
      /\ composer.id \in Ids /\ current.id \in Ids
      /\ \A a \in answers : a.id \in DOMAIN rows /\ a.id # None
      /\ Places' = Places
  BY <1>1, SMTT(40) DEF Reckoned, Ids, None, Places
<1>3. ASSUME NEW i \in Places', queue'[i].id # None, Makes(i)' \/ ~Desktop'
      PROVE  rows'[queue'[i].id].doc = queue'[i].words.doc
  BY <1>1, <1>2, <1>3 DEF OwnRows, Makes
<1>4. /\ composer'.id # None => rows'[composer'.id].doc = composer'.words.doc
      /\ Desktop' /\ composer'.words.doc # composer'.gen => composer'.id # None /\ last' = composer'.id
  <2>1. CASE composer'.id = composer.id /\ last' = last
    BY <1>1, <1>2, <2>1 DEF OwnRows
  <2>2. ASSUME NEW a \in answers, a.gen = composer.gen,
               composer'.id \in {composer.id, a.id} \ {None}, last' \in {last, a.id}
        PROVE  /\ composer'.id # None => rows'[composer'.id].doc = composer'.words.doc
               /\ Desktop' /\ composer'.words.doc # composer'.gen
                     => composer'.id # None /\ last' = composer'.id
    <3>1. rows[a.id].doc = composer.words.doc /\ a.id \in DOMAIN rows
      BY <1>1, <1>2, <2>2 DEF OwnRows
    <3>2. composer'.id # None /\ rows'[composer'.id].doc = composer'.words.doc
      BY <1>1, <1>2, <2>2, <3>1 DEF OwnRows
    <3>3. ASSUME Desktop, composer.words.doc # composer.gen PROVE last' = composer'.id
      <4>1. composer.id # None /\ last = composer.id /\ rows[composer.id].doc = composer.words.doc
            /\ composer.id \in DOMAIN rows
        BY <1>1, <1>2, <3>3 DEF OwnRows
      <4>2. composer.id = a.id
        BY <1>1, <3>1, <4>1 DEF OneRowEach
      <4> QED
        BY <2>2, <4>1, <4>2
    <3> QED
      BY <1>1, <3>2, <3>3
  <2> QED
    BY <2>1, <2>2 DEF Aside, Beside
<1>5. request'.step # "none" => rows'[request'.id].doc = request'.words.doc
  BY <1>1 DEF Aside, Beside
<1>6. \A a \in answers' : a.gen = composer'.gen => rows'[a.id].doc = composer'.words.doc
  BY <1>1, <1>2 DEF OwnRows
<1>7. \A i \in Places' : current'.id # None /\ queue'[i].gen = current'.gen =>
                         rows'[current'.id].doc = queue'[i].words.doc
  BY <1>1, <1>2 DEF OwnRows
<1>8. current'.id # None /\ composer'.gen = current'.gen =>
                         rows'[current'.id].doc = composer'.words.doc
  BY <1>1, <1>2 DEF OwnRows
<1> QED
  BY <1>3, <1>4, <1>5, <1>6, <1>7, <1>8 DEF OwnRows

LEMMA BesideUnsaved == ASSUME Aside PROVE Unsaved'
<1>1. /\ Unsaved /\ queue' = queue /\ current' = current /\ sent' = sent /\ Places' = Places
      /\ DOMAIN rows' = DOMAIN rows /\ \A r \in DOMAIN rows : rows'[r].doc = rows[r].doc
      /\ composer'.gen = composer.gen /\ composer'.words = composer.words
      /\ (Spent' <=> Spent)
      /\ composer'.id = None => composer.id = None
  BY DEF Aside, Beside, Inv, Spent, Desktop, ghosts, Places
<1> QED
  BY <1>1 DEF Unsaved, Known, Makes

LEMMA BesideEmptying == ASSUME Aside PROVE Emptying'
<1>1. /\ Emptying /\ queue' = queue /\ sent' = sent /\ emptied' = emptied /\ Places' = Places
      /\ DOMAIN rows' = DOMAIN rows
      /\ \A r \in DOMAIN rows : /\ rows'[r].doc = rows[r].doc
                                /\ rows[r].state = "gone" => rows'[r].state = "gone"
      /\ composer'.words = composer.words /\ (Spent' <=> Spent)
      /\ composer'.id = None => composer.id = None
  BY DEF Aside, Beside, Inv, Spent, Desktop, ghosts, Places
<1>2. ASSUME NEW r \in DOMAIN rows', rows'[r].doc \in emptied'
      PROVE  rows'[r].state = "gone" \/ \E j \in Places' : Aimed(j, r)'
  <2>1. CASE rows[r].state = "gone"
    BY <1>1, <2>1
  <2>2. CASE rows[r].state # "gone"
    <3>1. PICK j \in Places : Aimed(j, r)
      BY <1>1, <1>2, <2>2 DEF Emptying
    <3>2. Aimed(j, r)'
      BY <1>1, <3>1 DEF Aimed
    <3> QED
      BY <1>1, <3>2
  <2> QED
    BY <2>1, <2>2
<1>3. \A i \in Places' : Makes(i)' /\ queue'[i].id = None /\ queue'[i].gen \in emptied' =>
          \/ \E r \in DOMAIN rows' : rows'[r].doc = queue'[i].gen
          \/ \E j \in Places' : /\ i < j /\ queue'[j].kind = "discard"
                                /\ queue'[j].gen = queue'[i].gen /\ queue'[j].gen \notin sent'
  BY <1>1 DEF Emptying, Makes
<1> QED
  BY <1>1, <1>2, <1>3 DEF Emptying

LEMMA BesideBounds == ASSUME Aside PROVE Bounds'
<1>1. /\ Bounds /\ queue' = queue /\ emptied' = emptied /\ current' = current
      /\ Places' = Places /\ answers' \subseteq answers
      /\ DOMAIN rows' = DOMAIN rows /\ \A r \in DOMAIN rows : rows'[r].doc = rows[r].doc
      /\ composer'.gen = composer.gen /\ composer'.words = composer.words
      /\ composer'.open = composer.open
      /\ composer'.id = composer.id \/ \E a \in answers : a.gen = composer.gen
  BY DEF Aside, Beside, Inv, ghosts, Places
<1>2. request'.step # "none" => request'.id # None
  BY DEF Aside, Beside, Reckoned, None
<1>3. composer.gen = 0 => composer'.id = composer.id
  BY <1>1 DEF Bounds
<1>4. /\ composer'.words.doc <= composer'.gen
      /\ composer'.gen = 0 => ~composer'.open /\ composer'.id = None /\ Drops(composer')
      /\ \A a \in answers' : a.gen >= 1
  BY <1>1, <1>3 DEF Bounds, Drops
<1>5. /\ \A i \in Places' : 1 <= queue'[i].gen /\ queue'[i].words.doc <= queue'[i].gen
      /\ \A r \in DOMAIN rows' : rows'[r].doc <= composer'.gen
      /\ \A d \in emptied' : d <= composer'.gen
      /\ current' = NoCurrent \/ (current'.gen >= 1 /\ current'.id # None)
  BY <1>1 DEF Bounds
<1> QED
  BY <1>2, <1>4, <1>5 DEF Bounds

LEMMA BesideInv == ASSUME Aside PROVE Inv'
<1>1. /\ Inv /\ TypeOK' /\ queue' = queue /\ current' = current /\ sent' = sent /\ Places' = Places
      /\ latest' = latest /\ landed' = landed /\ excused' = excused
      /\ DOMAIN rows' = DOMAIN rows
      /\ \A r \in DOMAIN rows : rows'[r].doc = rows[r].doc /\ rows'[r].words = rows[r].words
      /\ composer'.gen = composer.gen /\ composer'.words = composer.words
      /\ composer'.open = composer.open /\ composer'.armed = composer.armed
      /\ (Spent' <=> Spent)
  BY DEF Aside, Beside, Spent, Desktop, ghosts, Places
<1>2. OneRowEach' /\ WordsStayApart'
  BY <1>1 DEF Inv, OneRowEach, WordsStayApart
<1>3. InOrder'
  BY <1>1 DEF Inv, InOrder
<1>4. Ended'
  BY <1>1 DEF Inv, Ended
<1>5. SameDoc'
  BY <1>1 DEF Inv, SameDoc
<1>6. AfterSend'
  BY <1>1 DEF Inv, AfterSend, Makes
<1>7. HandedOver'
  BY <1>1 DEF Inv, HandedOver, OnTheWay, Waiting
<1> QED
  BY <1>1, <1>2, <1>3, <1>4, <1>5, <1>6, <1>7, BesideBounds, BesideOwnRows, BesideUnsaved,
     BesideEmptying DEF Inv

\* A row whose state changes stays the row it was.
LEMMA Restated ==
    ASSUME TypeOK, NEW r \in DOMAIN rows, NEW z \in States, rows[r].state # "gone",
           rows' = [rows EXCEPT ![r].state = z]
    PROVE  /\ RowsType' /\ Len(rows') = Len(rows) /\ DOMAIN rows' = DOMAIN rows
           /\ \A s \in DOMAIN rows : /\ rows'[s].doc = rows[s].doc /\ rows'[s].words = rows[s].words
                                     /\ rows[s].state = "gone" => rows'[s].state = "gone"
<1> DEFINE S == [doc : Docs, words : WordsSet, state : States]
           x == [rows[r] EXCEPT !.state = z]
<1>1. rows \in Seq(S) /\ DOMAIN rows = 1 .. Len(rows) /\ rows[r] \in S
  BY TypeParts, Reckon, ElementOfSeq DEF Types, RowsType, Reckoned
<1>2. x \in S /\ x.doc = rows[r].doc /\ x.words = rows[r].words
  BY <1>1
<1>3. rows' = [rows EXCEPT ![r] = x]
  BY <1>1
<1> HIDE DEF S, x
<1>4. /\ rows' \in Seq(S) /\ Len(rows') = Len(rows)
      /\ \A s \in 1 .. Len(rows) : rows'[s] = IF s = r THEN x ELSE rows[s]
  BY <1>1, <1>2, <1>3, ExceptSeq
<1>5. DOMAIN rows' = DOMAIN rows
  BY <1>1, <1>4, LenProperties
<1> QED
  BY <1>1, <1>2, <1>4, <1>5 DEF RowsType, S

LEMMA BesideTypes ==
    ASSUME TypeOK, UNCHANGED <<frontend, queue, current, ghosts, typed, faults>>,
           RowsType', Len(rows') = Len(rows), answers' \subseteq answers,
           composer' \in FieldsSet(Len(rows)), composer'.gen = composer.gen,
           composer'.open = composer.open, composer'.armed = composer.armed,
           last' \in Ids, request' \in RequestSet(Len(rows))
    PROVE  TypeOK'
<1>1. Types
  BY TypeParts
<1>2. FieldsType'
  BY <1>1 DEF Types, FieldsType, FieldsSet, RequestSet, Ids, Desktop
<1>3. QueueType'
  BY <1>1 DEF Types, QueueType, OpSet
<1>4. WriterType'
  BY <1>1 DEF Types, WriterType, Ids
<1>5. GhostType'
  BY <1>1 DEF Types, GhostType, ghosts
<1> QED
  BY <1>2, <1>3, <1>4, <1>5, TypePartsNext DEF Types

LEMMA ResumeReadInv == ASSUME Inv, NEW r \in DOMAIN rows, ResumeRead(r) PROVE Inv'
<1>1. TypeOK /\ Types /\ Reckoned /\ WordsStayApart
  BY TypeParts, Reckon DEF Inv
<1>2. /\ UNCHANGED <<frontend, composer, last, queue, writer_vars, ghosts, typed, faults>>
      /\ request'.id = r /\ request'.words = rows[r].words /\ request'.step \in {"none", "cancel", "open"}
      /\ request' = [step |-> request'.step, id |-> r, words |-> rows[r].words]
  BY DEF ResumeRead
<1>3. rows[r].words \in WordsSet /\ r \in Ids
  BY <1>1 DEF Reckoned, Ids
<1>4. request' \in RequestSet(Len(rows))
  BY <1>2, <1>3 DEF RequestSet, Ids
<1>5. TypeOK'
  BY <1>1, <1>2, <1>4, BesideTypes DEF Types, FieldsType, RowsType, writer_vars
<1>6. Beside
  BY <1>1, <1>2 DEF Beside, writer_vars, WordsStayApart
<1> QED
  BY <1>1, <1>5, <1>6, ReckonNext, BesideInv DEF Aside

LEMMA ResumeCancelInv == ASSUME Inv, ResumeCancel PROVE Inv'
<1>1. TypeOK /\ Types /\ Reckoned /\ WordsStayApart /\ Bounds
  BY TypeParts, Reckon DEF Inv
<1>2. /\ UNCHANGED <<frontend, composer, last, queue, current, answers, ghosts, typed, faults>>
      /\ request.step = "cancel" /\ request.id \in Ids /\ request.id # None
      /\ request \in RequestSet(Len(rows))
  BY <1>1 DEF ResumeCancel, Bounds, Types, FieldsType, Reckoned
<1>3. request.id \in DOMAIN rows
  BY <1>1, <1>2 DEF Reckoned, Ids, None
<1>4. CASE /\ rows[request.id].state = "queued"
           /\ rows' = [rows EXCEPT ![request.id].state = "editing"]
           /\ request' = [request EXCEPT !.step = "open", !.words = rows[request.id].words]
  <2>1. "editing" \in States /\ rows[request.id].state # "gone"
    BY <1>4 DEF States
  <2>2. PICK r \in DOMAIN rows : r = request.id
    BY <1>3
  <2>3. rows' = [rows EXCEPT ![r].state = "editing"]
    BY <1>4, <2>2
  <2>4. /\ RowsType' /\ Len(rows') = Len(rows) /\ DOMAIN rows' = DOMAIN rows
        /\ \A s \in DOMAIN rows : /\ rows'[s].doc = rows[s].doc /\ rows'[s].words = rows[s].words
                                  /\ rows[s].state = "gone" => rows'[s].state = "gone"
    BY <1>1, <2>1, <2>2, <2>3, Restated
  <2>5. rows[request.id].words \in WordsSet
    BY <1>1, <1>3 DEF Reckoned
  <2>6. /\ request' \in RequestSet(Len(rows)) /\ request'.id = request.id
        /\ request'.words = rows[request.id].words
    BY <1>2, <1>4, <2>5 DEF RequestSet
  <2>7. TypeOK'
    BY <1>1, <1>2, <2>4, <2>6, BesideTypes DEF Types, FieldsType
  <2>8. Beside
    BY <1>1, <1>2, <1>3, <2>4, <2>6 DEF Beside, WordsStayApart
  <2> QED
    BY <1>1, <2>7, <2>8, ReckonNext, BesideInv DEF Aside
<1>5. CASE request' = Idle /\ rows' = rows
  <2>1. Idle \in RequestSet(Len(rows)) /\ Idle.step = "none"
    BY <1>1 DEF Idle, RequestSet, WordsSet, Words, None, Docs, Stamps, Reckoned
  <2>2. TypeOK'
    BY <1>1, <1>2, <1>5, <2>1, BesideTypes DEF Types, FieldsType, RowsType
  <2>3. Beside
    BY <1>2, <1>5, <2>1 DEF Beside
  <2> QED
    BY <1>1, <2>2, <2>3, ReckonNext, BesideInv DEF Aside
<1> QED
  BY <1>4, <1>5 DEF ResumeCancel

LEMMA DrainedInv == ASSUME Inv, NEW r \in DOMAIN rows, Drained(r) PROVE Inv'
<1>1. TypeOK /\ Types /\ Reckoned /\ OwnRows /\ Bounds
  BY TypeParts, Reckon DEF Inv
<1>2. /\ UNCHANGED <<frontend, composer, last, request, queue, current, answers, ghosts, typed, faults>>
      /\ rows[r].state # "gone" /\ rows' = [rows EXCEPT ![r].state = "gone"]
  BY DEF Drained, compose_vars
<1>3. "gone" \in States
  BY DEF States
<1>4. /\ RowsType' /\ Len(rows') = Len(rows) /\ DOMAIN rows' = DOMAIN rows
      /\ \A s \in DOMAIN rows : /\ rows'[s].doc = rows[s].doc /\ rows'[s].words = rows[s].words
                                /\ rows[s].state = "gone" => rows'[s].state = "gone"
  BY <1>1, <1>2, <1>3, Restated
<1>5. TypeOK'
  BY <1>1, <1>2, <1>4, BesideTypes DEF Types, FieldsType
<1>6. request.step # "none" => request.id \in DOMAIN rows /\ rows[request.id].doc = request.words.doc
  BY <1>1 DEF Bounds, OwnRows, Reckoned, Ids, None
<1>7. Beside
  BY <1>2, <1>4, <1>6 DEF Beside
<1> QED
  BY <1>1, <1>5, <1>7, ReckonNext, BesideInv DEF Aside

LEMMA AnsweredInv == ASSUME Inv, NEW a \in answers, Answered(a) PROVE Inv'
<1>1. TypeOK /\ Types /\ Reckoned /\ OwnRows /\ Bounds
  BY TypeParts, Reckon DEF Inv
<1>2. /\ UNCHANGED <<frontend, request, queue, current, rows, ghosts, typed, faults>>
      /\ answers' \subseteq answers
  BY DEF Answered
<1>3. a.id \in DOMAIN rows /\ a.id \in Ids /\ a.id # None
  BY <1>1 DEF Reckoned, Ids, None
<1>4. composer \in FieldsSet(Len(rows)) /\ last \in Ids
  BY <1>1 DEF Types, FieldsType
<1>5. request.step # "none" => request.id \in DOMAIN rows /\ rows[request.id].doc = request.words.doc
  BY <1>1 DEF Bounds, OwnRows, Reckoned, Ids, None
<1> DEFINE x == [composer EXCEPT !.id = a.id]
<1>6. /\ x \in FieldsSet(Len(rows)) /\ x.id = a.id /\ x.open = composer.open
      /\ x.gen = composer.gen /\ x.words = composer.words /\ x.armed = composer.armed
  BY <1>3, <1>4 DEF FieldsSet, Ids
<1>7. /\ composer' \in {composer, x}
      /\ last' \in {last, a.id}
      /\ a.gen # composer.gen => composer' = composer /\ last' = last
      /\ composer' = composer /\ last' # last => composer.id # None
  <2>1. \/ composer' = composer /\ last' = last
        \/ a.gen = composer.gen /\ composer.id # None /\ composer' = composer /\ last' \in {last, a.id}
        \/ a.gen = composer.gen /\ composer' = x /\ last' \in {last, a.id}
    BY ZenonT(40) DEF Answered
  <2> HIDE DEF x
  <2> QED
    BY <1>3, <1>6, <2>1
<1> HIDE DEF x
<1>8. /\ composer' \in FieldsSet(Len(rows)) /\ composer'.gen = composer.gen
      /\ composer'.open = composer.open /\ composer'.armed = composer.armed
      /\ composer'.words = composer.words
      /\ last' \in Ids
  BY <1>3, <1>4, <1>6, <1>7
<1>9. \/ composer'.id = composer.id /\ last' = last
      \/ a.gen = composer.gen /\ composer'.id \in {composer.id, a.id} \ {None} /\ last' \in {last, a.id}
  BY <1>3, <1>6, <1>7
<1>10. TypeOK'
  BY <1>1, <1>2, <1>8, BesideTypes DEF Types, FieldsType, RowsType
<1>11. Beside
  BY <1>2, <1>5, <1>8, <1>9 DEF Beside
<1> QED
  BY <1>1, <1>10, <1>11, ReckonNext, BesideInv DEF Aside

-----------------------------------------------------------------------------
(* The invariant holds of every run.                                       *)

LEMMA InitInv == Init => Inv
<1> SUFFICES ASSUME Init PROVE Inv
  OBVIOUS
<1>1. /\ rows = <<>> /\ queue = <<>> /\ Len(rows) = 0 /\ Len(queue) = 0
      /\ DOMAIN rows = {} /\ Places = {} /\ answers = {} /\ emptied = {} /\ sent = {}
      /\ excused = {} /\ frontend \in Frontends /\ last = 0 /\ current = NoCurrent
      /\ request = Idle /\ typed = 0 /\ faults = 0
      /\ latest = [d \in Docs |-> 0] /\ landed = [d \in Docs |-> 0]
  BY EmptySeq DEF Init, Places, None
<1>2. composer = [open |-> FALSE, gen |-> 0, prev |-> 0, id |-> 0, words |-> [doc |-> 0, n |-> 0],
                  armed |-> FALSE]
  BY DEF Init, None, Words
<1>3. /\ 0 \in Docs /\ 0 \in Stamps /\ MaxFaults \in Nat /\ MaxQueue \in Nat
      /\ [doc |-> 0, n |-> 0] \in WordsSet
      /\ Idle = [step |-> "none", id |-> 0, words |-> [doc |-> 0, n |-> 0]]
      /\ NoCurrent = [gen |-> 0, id |-> 0]
  BY DEF Docs, Stamps, WordsSet, Idle, Words, None, NoCurrent
<1>4. TypeOK
  <2>1. FieldsType
    BY <1>1, <1>2, <1>3 DEF FieldsType, FieldsSet, RequestSet, Ids
  <2>2. QueueType
    BY <1>1, <1>3, EmptySeq DEF QueueType
  <2>3. WriterType
    BY <1>1, <1>2, <1>3 DEF WriterType, Ids
  <2>4. RowsType
    BY <1>1, EmptySeq DEF RowsType
  <2>5. GhostType
    BY <1>1, <1>3 DEF GhostType
  <2> QED
    BY <2>1, <2>2, <2>3, <2>4, <2>5, TypeParts DEF Types
<1>5. OneRowEach /\ WordsStayApart /\ InOrder /\ SameDoc /\ AfterSend
  BY <1>1 DEF OneRowEach, WordsStayApart, InOrder, SameDoc, AfterSend
<1>6. Bounds
  BY <1>1, <1>2, <1>3 DEF Bounds, Drops, None
<1>7. Ended
  BY <1>1 DEF Ended
<1>8. OwnRows
  BY <1>1, <1>2, <1>3 DEF OwnRows, None
<1>9. Unsaved
  BY <1>1, <1>2 DEF Unsaved, Known
<1>10. HandedOver
  BY <1>1 DEF HandedOver
<1>11. Emptying
  BY <1>1 DEF Emptying
<1> QED
  BY <1>4, <1>5, <1>6, <1>7, <1>8, <1>9, <1>10, <1>11 DEF Inv

LEMMA NextInv == Inv /\ [Next]_vars => Inv'
<1> SUFFICES ASSUME Inv, [Next]_vars PROVE Inv'
  OBVIOUS
<1>1. CASE User \/ ResumeOpen
  BY <1>1, UserHands, HandedInv DEF Inv
<1>2. CASE Writer
  BY <1>2, WriterInv
<1>3. CASE \E r \in DOMAIN rows : ResumeRead(r)
  BY <1>3, ResumeReadInv
<1>4. CASE ResumeCancel
  BY <1>4, ResumeCancelInv
<1>5. CASE \E a \in answers : Answered(a)
  BY <1>5, AnsweredInv
<1>6. CASE \E r \in DOMAIN rows : Drained(r)
  BY <1>6, DrainedInv
<1>7. CASE UNCHANGED vars
  <2>1. TypeOK /\ Types /\ Reckoned /\ OwnRows /\ Bounds
    BY TypeParts, Reckon DEF Inv
  <2>2. UNCHANGED <<frontend, composer, last, request, queue, current, answers, rows, ghosts,
                    typed, faults>>
    BY <1>7 DEF vars, compose_vars, writer_vars, ghosts
  <2>3. TypeOK'
    BY <2>1, <2>2, BesideTypes DEF Types, FieldsType, RowsType
  <2>4. request.step # "none" => request.id \in DOMAIN rows /\ rows[request.id].doc = request.words.doc
    BY <2>1 DEF Bounds, OwnRows, Reckoned, Ids, None
  <2>5. Beside
    BY <2>2, <2>4 DEF Beside
  <2> QED
    BY <2>1, <2>3, <2>5, ReckonNext, BesideInv DEF Aside
<1> QED
  BY <1>1, <1>2, <1>3, <1>4, <1>5, <1>6, <1>7 DEF Next, Resume, Rest

LEMMA InvHolds == Spec => []Inv
BY InitInv, NextInv, PTL DEF Spec

\* Composer, frontend and writer keep to their types: every id either side
\* remembers or hands over is of a row there is, and no answer of the writer is
\* of a composition the fields have not come to.
THEOREM TypeCorrect == Spec => []TypeOK
<1>1. Inv => TypeOK
  BY DEF Inv
<1> QED
  BY <1>1, InvHolds, PTL

\* DraftWriter makes one row of a composition, however many of its saves and
\* sends were handed over before the first was answered.
THEOREM OneRowOfEach == Spec => []OneRowEach
<1>1. Inv => OneRowEach
  BY DEF Inv
<1> QED
  BY <1>1, InvHolds, PTL

\* No draft's row is overwritten with another's words: neither by an answer that
\* comes after the composer moved on, nor by a draft opened over another.
THEOREM RowsHoldTheirOwn == Spec => []WordsStayApart
<1>1. Inv => WordsStayApart
  BY DEF Inv
<1> QED
  BY <1>1, InvHolds, PTL

\* The composer's closes, sends and swaps lose no words: the last ones typed wait
\* for the timer, are handed over, or have been in the row.
THEOREM EveryWordIsWritten == Spec => []WordsAreWritten
<1>1. Inv => WordsAreWritten
  BY DEF Inv, HandedOver, WordsAreWritten, Waiting, InFields
<1> QED
  BY <1>1, InvHolds, PTL

\* Closing an empty message leaves none of its rows in Drafts once the writer is
\* through, also when no save of it had been answered.
THEOREM EmptyLeavesNothing == Spec => []EmptiedIsGone
<1>1. Inv => EmptiedIsGone
  <2> SUFFICES ASSUME Inv, queue = <<>>, NEW r \in DOMAIN rows, rows[r].doc \in emptied
               PROVE  rows[r].state = "gone"
    BY DEF EmptiedIsGone
  <2>1. Places = {}
    BY EmptySeq DEF Places
  <2> QED
    BY <2>1 DEF Inv, Emptying
<1> QED
  BY <1>1, InvHolds, PTL

\* The discard that closes the composer behind a send deletes no row, whether the
\* send queued one or failed.
THEOREM SendIsNotUndone == Spec => SentStays
<1> DEFINE stays == \A gen \in sent : (WriterDiscard /\ Next1.gen = gen) => rows' = rows
<1>1. Inv => stays
  <2> SUFFICES ASSUME Inv, NEW gen \in sent, WriterDiscard, Next1.gen = gen PROVE rows' = rows
    OBVIOUS
  <2>1. Reckoned /\ RowsType /\ AfterSend /\ TypeOK
    BY Reckon, TypeParts DEF Inv, Types
  <2>2. /\ 1 \in Places /\ Next1 = queue[1] /\ queue[1].kind = "discard" /\ queue[1].gen \in sent
        /\ \A j \in Places : ~(j < 1)
    BY <2>1, TailPlaces DEF WriterDiscard, Shifted, Reckoned
  <2>3. queue[1].id = None /\ current.gen # queue[1].gen
    BY <2>1, <2>2 DEF AfterSend
  <2>4. Discarded(Next1) = None
    BY <2>2, <2>3 DEF Discarded
  <2>5. None \notin DOMAIN rows /\ rows = [r \in DOMAIN rows |-> rows[r]]
    <3> DEFINE S == [doc : Docs, words : WordsSet, state : States]
    <3>1. None \notin DOMAIN rows
      BY <2>1 DEF Reckoned, None
    <3>2. rows \in Seq(S)
      BY <2>1 DEF RowsType
    <3> HIDE DEF S
    <3>3. rows \in [1 .. Len(rows) -> S]
      BY <3>2, LenProperties
    <3> QED
      BY <3>1, <3>3
  <2>6. rows' = [r \in DOMAIN rows |-> IF r = None THEN [rows[r] EXCEPT !.state = "gone"]
                                                   ELSE rows[r]] \/ rows' = rows
    BY <2>4 DEF WriterDiscard
  <2> QED
    BY <2>5, <2>6
<1>2. Inv /\ [Next]_vars => [stays]_vars
  BY <1>1
<1> HIDE DEF stays
<1>3. Spec => [][stays]_vars
  BY <1>2, InitInv, NextInv, PTL DEF Spec
<1> QED
  BY <1>3 DEF stays, SentStays

\* In the terminal a discard deletes the row of the message it is of: what the
\* writer remembers of the composition, or else the id the composer had.
THEOREM DiscardIsItsOwn == Spec => DiscardsItsOwn
<1> DEFINE own == (WriterDiscard /\ ~Desktop) =>
                     \A r \in DOMAIN rows : rows'[r] # rows[r] => rows[r].doc = Next1.words.doc
<1>1. Inv => own
  <2> SUFFICES ASSUME Inv, WriterDiscard, ~Desktop, NEW r \in DOMAIN rows, rows'[r] # rows[r]
               PROVE  rows[r].doc = Next1.words.doc
    OBVIOUS
  <2>1. Reckoned /\ OwnRows /\ TypeOK
    BY Reckon DEF Inv
  <2>2. 1 \in Places /\ Next1 = queue[1] /\ r # None
    BY <2>1, TailPlaces DEF WriterDiscard, Shifted, Reckoned, None
  <2>3. Discarded(Next1) = r
    BY DEF WriterDiscard
  <2>4. CASE current.gen = Next1.gen
    BY <2>1, <2>2, <2>3, <2>4 DEF Discarded, OwnRows
  <2>5. CASE current.gen # Next1.gen
    BY <2>1, <2>2, <2>3, <2>5 DEF Discarded, OwnRows
  <2> QED
    BY <2>4, <2>5
<1>2. Inv /\ [Next]_vars => [own]_vars
  BY <1>1
<1> HIDE DEF own
<1>3. Spec => [][own]_vars
  BY <1>2, InitInv, NextInv, PTL DEF Spec
<1> QED
  BY <1>3 DEF own, DiscardsItsOwn

=============================================================================

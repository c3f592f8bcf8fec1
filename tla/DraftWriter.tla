---------------------------- MODULE DraftWriter ----------------------------
(***************************************************************************)
(* A composer and the writer of its drafts (postio-widgets/src/composer/   *)
(* mod.rs and present/compose.rs on the desktop, postio-tui/src/app.rs and *)
(* run.rs in the terminal, postio-host/src/compose.rs behind both).        *)
(*                                                                         *)
(* The composer never waits: it hands its writes over in order and learns  *)
(* later which row a save made.  In between the user types on, closes,     *)
(* opens something else or sends.  Both sides name a composition by a      *)
(* generation, and each remembers one id.                                  *)
(*                                                                         *)
(* The words of a message are a stamp, in the order they were typed; 0 is  *)
(* an empty message.  Each text also names its document: the composition   *)
(* that began it, whichever composition it is edited in.                   *)
(***************************************************************************)
EXTENDS Naturals, Sequences, FiniteSets

CONSTANTS
    Frontends,   \* the frontends that may run, of "desktop" and "terminal"
    MaxGen,      \* bound: compositions
    MaxTyped,    \* bound: changes typed
    MaxQueue,    \* bound: writes handed over and not carried out
    MaxFaults    \* bound: writes the store fails

ASSUME FrontendsAssumption == Frontends \subseteq {"desktop", "terminal"}
ASSUME BoundsAssumption == {MaxGen, MaxTyped, MaxQueue, MaxFaults} \subseteq Nat

VARIABLES
    frontend,   \* which one runs
    composer,   \* what the composer holds
    last,       \* the desktop's last_id, 0 when it is None
    request,    \* a resume under way: the row asked for, and how far it is
    queue,      \* the writes handed over, in order
    current,    \* the writer's current: the composition saved last, and its id
    answers,    \* what the writer said and the composer has not heard yet
    rows,       \* the drafts table, in the order the rows were made
    latest,     \* per document, the stamp of its words as the user left them
    landed,     \* per document, the newest words a row has held
    excused,    \* documents whose write failed, or that were thrown away
    emptied,    \* documents closed with nothing in them
    sent,       \* compositions handed off to be sent
    typed,      \* changes typed so far
    faults      \* writes failed so far

compose_vars == <<composer, last, request>>
writer_vars  == <<current, answers, rows>>
ghosts == <<latest, landed, excused, emptied, sent>>
vars == <<frontend, compose_vars, queue, writer_vars, ghosts, typed, faults>>

-----------------------------------------------------------------------------
None       == 0          \* DraftId::UNASSIGNED, and an id not known
Docs       == 0 .. MaxGen
Stamps     == 0 .. MaxTyped
Words(d, n) == [doc |-> d, n |-> n]
Idle       == [step |-> "none", id |-> None, words |-> Words(0, 0)]
NoCurrent  == [gen |-> 0, id |-> None]
Desktop    == frontend = "desktop"

Op(kind, c, id) == [kind |-> kind, gen |-> c.gen, id |-> id, words |-> c.words]

Room    == Len(queue) + 2 <= MaxQueue
Fills(k) == composer.gen + k <= MaxGen

\* closing: a composition with nothing in it is dropped.
Drops(c) == c.words.n = 0

\* fill, and App::compose: the next composition takes the fields, and a timer
\* armed for the one before does not fire.  The desktop's fill ends in a refresh,
\* which arms a timer for what was filled in.
Fill(c, id, words) == [c EXCEPT !.prev = c.gen, !.gen = @ + 1, !.id = id,
                                !.words = words, !.armed = Desktop]
FillNew(c) == Fill(c, None, Words(c.gen + 1, 0))

\* Mutant: the pane is put away and its timer is not.
ShutArmed(c) == [c EXCEPT !.open = FALSE]

\* What shut would flush after a fill is empty and has no row: nothing to save.
Shut(c)    == [c EXCEPT !.open = FALSE, !.armed = FALSE]

\* Composer::save hands nothing over for an empty composition with no row.  The
\* terminal's does not look.
Save(c) == IF Desktop /\ c.id = None /\ Drops(c) THEN <<>>
           ELSE <<Op("save", c, c.id)>>

\* Mutant: a close leaves the timer to lapse.
FlushNothing(c) == <<>>

\* flush_autosave: a timer still waiting runs now.
Flush(c) == IF c.armed THEN Save(c) ELSE <<>>

\* The closed handler's discard, of the composition before the last fill.
DiscardPrevious(c, words) ==
    <<[kind |-> "discard", gen |-> c.prev, id |-> last, words |-> words]>>

-----------------------------------------------------------------------------
(* The user and the frontend.                                              *)

\* compose, asked for while nothing is open: a new composition.
Open ==
    /\ ~composer.open
    /\ Fills(1)
    /\ composer' = [FillNew(composer) EXCEPT !.open = TRUE]
    /\ UNCHANGED <<frontend, last, request, queue, writer_vars, ghosts, typed, faults>>

\* An edit, which arms the autosave; n is what it leaves, 0 when all is erased.
Edit(n) ==
    /\ composer.open
    /\ composer' = [composer EXCEPT !.words.n = n, !.armed = TRUE]
    /\ latest' = [latest EXCEPT ![composer.words.doc] = n]
    /\ UNCHANGED <<frontend, last, request, queue, writer_vars, landed, excused, emptied,
                   sent, faults>>

Type  == typed < MaxTyped /\ typed' = typed + 1 /\ Edit(typed')
Erase == ~Drops(composer) /\ Edit(0) /\ UNCHANGED typed

\* The desktop's editor reports an edit late, after the composer closed.
LateReport ==
    /\ Desktop
    /\ ~composer.open
    /\ ~composer.armed
    /\ composer' = [composer EXCEPT !.armed = TRUE]
    /\ UNCHANGED <<frontend, last, request, queue, writer_vars, ghosts, typed, faults>>

\* The quiet period is over, or ctrl+s.
Autosave ==
    /\ Room
    /\ composer.armed
    /\ composer' = [composer EXCEPT !.armed = FALSE]
    /\ queue' = queue \o Save(composer)
    /\ UNCHANGED <<frontend, last, request, writer_vars, ghosts, typed, faults>>

SaveNow ==
    /\ Room
    /\ composer.open
    /\ queue' = queue \o Save(composer)
    /\ UNCHANGED <<frontend, compose_vars, writer_vars, ghosts, typed, faults>>

\* Composer::close, and close_composer in the terminal, with words to keep.
CloseKept ==
    /\ Room
    /\ composer.open
    /\ ~Drops(composer)
    /\ queue' = queue \o IF Desktop THEN Flush(composer) ELSE Save(composer)
    /\ composer' = Shut(composer)
    /\ UNCHANGED <<frontend, last, request, writer_vars, ghosts, typed, faults>>

\* The same with nothing in it: on the desktop a fill comes before the closed
\* handler, which takes last_id.
CloseEmpty ==
    /\ Room
    /\ composer.open
    /\ Drops(composer)
    /\ emptied' = emptied \cup {composer.words.doc}
    /\ IF Desktop
       THEN LET filled == FillNew(composer)
            IN  /\ Fills(1)
                /\ queue' = queue \o Flush(composer)
                                  \o DiscardPrevious(filled, composer.words)
                /\ composer' = Shut(filled)
                /\ last' = None
       ELSE /\ queue' = Append(queue, Op("discard", composer, composer.id))
            /\ composer' = Shut(composer)
            /\ UNCHANGED last
    /\ UNCHANGED <<frontend, request, writer_vars, latest, landed, excused, sent, typed,
                   faults>>

\* Composer::discard, once confirmed: a fill, and then a close, which fills again.
\* The terminal's discard_draft closes instead.
Discard ==
    /\ Desktop
    /\ Room
    /\ composer.open
    /\ Fills(2)
    /\ LET twice == FillNew(FillNew(composer))
       IN  /\ queue' = queue \o DiscardPrevious(twice, composer.words)
           /\ composer' = Shut(twice)
    /\ last' = None
    /\ excused' = excused \cup {composer.words.doc}
    /\ UNCHANGED <<frontend, request, writer_vars, latest, landed, emptied, sent, typed,
                   faults>>

\* Mutant: the close behind a send takes the id the last save left.
SendKeepsId ==
    /\ Desktop /\ Room /\ composer.open /\ ~Drops(composer) /\ Fills(1)
    /\ LET filled == FillNew(composer)
       IN  /\ queue' = queue \o <<Op("send", composer, composer.id)>>
                             \o DiscardPrevious(filled, composer.words)
           /\ composer' = Shut(filled)
    /\ last' = None
    /\ sent' = sent \cup {composer.gen}
    /\ UNCHANGED <<frontend, request, writer_vars, latest, landed, excused, emptied, typed,
                   faults>>

\* hand_off and the send handler, which forgets last_id before the closed
\* handler takes it; the terminal only queues.
Send ==
    /\ Room
    /\ composer.open
    /\ ~Drops(composer)
    /\ IF Desktop
       THEN LET filled == FillNew(composer)
            IN  /\ Fills(1)
                /\ queue' = queue \o <<Op("send", composer, composer.id),
                                       [kind |-> "discard", gen |-> filled.prev,
                                        id |-> None, words |-> composer.words]>>
                /\ composer' = Shut(filled)
                /\ last' = None
       ELSE /\ queue' = Append(queue, Op("send", composer, composer.id))
            /\ composer' = Shut(composer)
            /\ UNCHANGED last
    /\ sent' = sent \cup {composer.gen}
    /\ UNCHANGED <<frontend, request, writer_vars, latest, landed, excused, emptied, typed,
                   faults>>

-----------------------------------------------------------------------------
(* A draft in Drafts or the Outbox opens again.                            *)

\* draft_behind reads the row beside the writer; a queued one is to be taken back.
ResumeRead(r) ==
    /\ request = Idle
    /\ rows[r].state # "gone"
    /\ request' = [step  |-> IF rows[r].state = "queued" THEN "cancel" ELSE "open",
                   id    |-> r, words |-> rows[r].words]
    /\ UNCHANGED <<frontend, composer, last, queue, writer_vars, ghosts, typed, faults>>

\* cancel_send, which reads the row again; one no longer queued is not opened.
\* The desktop's Undo of a send comes here too.
ResumeCancel ==
    /\ request.step = "cancel"
    /\ IF rows[request.id].state = "queued"
       THEN /\ rows' = [rows EXCEPT ![request.id].state = "editing"]
            /\ request' = [request EXCEPT !.step = "open", !.words = rows[request.id].words]
       ELSE request' = Idle /\ UNCHANGED rows
    /\ UNCHANGED <<frontend, composer, last, queue, current, answers, ghosts, typed, faults>>

\* Composer::resume saves what it replaces, and stays with the draft it has;
\* App::compose does neither.
ResumeOpen ==
    LET opened == [Fill(composer, request.id, request.words) EXCEPT !.open = TRUE]
        held   == Desktop /\ composer.open /\ composer.id = request.id
    IN  /\ request.step = "open"
        /\ Room
        /\ Fills(1)
        /\ request' = Idle
        /\ composer' = IF held THEN composer ELSE opened
        /\ last' = IF Desktop THEN request.id ELSE last
        /\ queue' = queue \o IF Desktop /\ composer.open /\ ~held THEN Save(composer)
                             ELSE <<>>
        /\ excused' = excused \cup IF ~Desktop /\ composer.open THEN {composer.words.doc}
                                   ELSE {}
    /\ UNCHANGED <<frontend, writer_vars, latest, landed, emptied, sent, typed, faults>>

-----------------------------------------------------------------------------
(* DraftWriter::spawn's task.                                              *)

Next1 == Head(queue)
Takes(kind) == queue # <<>> /\ Next1.kind = kind /\ queue' = Tail(queue)

\* Mutant: a write goes by the id it was handed over with.
IdHandedOver(op) == op.id

\* id_for: the row this composition's first save made.
IdFor(op) == IF op.id = None /\ current.gen = op.gen THEN current.id ELSE op.id

\* A write of op's words: no id makes a row, and a row that is gone is NotFound.
Writable(op) == IdFor(op) \in {None} \cup {r \in DOMAIN rows : rows[r].state # "gone"}
Target(op) == IF IdFor(op) = None THEN Len(rows) + 1 ELSE IdFor(op)
Row(op, state) == [doc |-> op.words.doc, words |-> op.words, state |-> state]
Written(op, state) ==
    IF IdFor(op) = None THEN Append(rows, Row(op, state))
    ELSE [rows EXCEPT ![IdFor(op)].words = op.words, ![IdFor(op)].state = state]

Land(op) ==
    landed' = [landed EXCEPT ![op.words.doc] = IF op.words.n > @ THEN op.words.n ELSE @]

\* The store fails, or does not have the row: the words of op are not written.
Fails(op) ==
    /\ \/ ~Writable(op) /\ UNCHANGED faults
       \/ faults < MaxFaults /\ faults' = faults + 1
    /\ excused' = excused \cup {op.words.doc}
    /\ UNCHANGED <<rows, landed>>

WriterSave ==
    /\ Takes("save")
    /\ \/ /\ Writable(Next1)
          /\ rows' = Written(Next1, "editing")
          /\ current' = [gen |-> Next1.gen, id |-> Target(Next1)]
          /\ answers' = answers \cup {current'}
          /\ Land(Next1)
          /\ UNCHANGED <<excused, faults>>
       \/ Fails(Next1) /\ UNCHANGED <<current, answers>>
    /\ UNCHANGED <<frontend, compose_vars, latest, emptied, sent, typed>>

\* current is forgotten before the write is tried, so that no discard behind a
\* send that failed takes the autosaved row.
Forget(gen) == current' = IF current.gen = gen THEN NoCurrent ELSE current

WriterSend ==
    /\ Takes("send")
    /\ Forget(Next1.gen)
    /\ \/ /\ Writable(Next1)
          /\ rows' = Written(Next1, "queued")
          /\ Land(Next1)
          /\ UNCHANGED <<excused, faults>>
       \/ Fails(Next1)
    /\ UNCHANGED <<frontend, compose_vars, answers, latest, emptied, sent, typed>>

\* Mutant: the writer does not remember what the saves made.
DiscardedKnown(op) == op.id

\* The row the composition's saves made, else the one the frontend knows of.
Discarded(op) == IF current.gen = op.gen THEN current.id ELSE op.id

WriterDiscard ==
    /\ Takes("discard")
    /\ Forget(Next1.gen)
    /\ LET id == Discarded(Next1)
       IN  \/ /\ rows' = [r \in DOMAIN rows |-> IF r = id THEN [rows[r] EXCEPT !.state = "gone"]
                                                ELSE rows[r]]
              /\ UNCHANGED <<emptied, faults>>
           \/ /\ id # None
              /\ faults < MaxFaults
              /\ faults' = faults + 1
              /\ emptied' = emptied \ {Next1.words.doc}
              /\ UNCHANGED rows
    /\ UNCHANGED <<frontend, compose_vars, answers, latest, landed, excused, sent, typed>>

\* Mutant: a late answer is taken by whatever is in the fields.
AnsweredLate(a) ==
    /\ answers' = answers \ {a}
    /\ last' = IF Desktop THEN a.id ELSE last
    /\ composer' = IF composer.id = None THEN [composer EXCEPT !.id = a.id] ELSE composer
    /\ UNCHANGED <<frontend, request, queue, current, rows, ghosts, typed, faults>>

\* An answer reaches the frontend: last_id and adopt_id, both for the composition
\* in the fields only; DraftSaved in the terminal, while that one is open.
Answered(a) ==
    LET here == a.gen = composer.gen /\ (Desktop \/ composer.open)
    IN  /\ answers' = answers \ {a}
        /\ last' = IF here /\ Desktop THEN a.id ELSE last
        /\ composer' = IF here /\ (~Desktop \/ composer.id = None)
                       THEN [composer EXCEPT !.id = a.id] ELSE composer
    /\ UNCHANGED <<frontend, request, queue, current, rows, ghosts, typed, faults>>

\* The drainer sends a queued draft and deletes its row (SendPath has the steps).
Drained(r) ==
    /\ rows[r].state = "queued"
    /\ rows' = [rows EXCEPT ![r].state = "gone"]
    /\ UNCHANGED <<frontend, compose_vars, queue, current, answers, ghosts, typed, faults>>

-----------------------------------------------------------------------------
Init ==
    /\ frontend \in Frontends
    /\ composer = [open |-> FALSE, gen |-> 0, prev |-> 0, id |-> None,
                   words |-> Words(0, 0), armed |-> FALSE]
    /\ last = None
    /\ request = Idle
    /\ queue = <<>>
    /\ current = NoCurrent
    /\ answers = {}
    /\ rows = <<>>
    /\ latest = [d \in Docs |-> 0]
    /\ landed = [d \in Docs |-> 0]
    /\ excused = {}
    /\ emptied = {}
    /\ sent = {}
    /\ typed = 0
    /\ faults = 0

User == Open \/ Type \/ Erase \/ LateReport \/ Autosave \/ SaveNow \/ CloseKept
        \/ CloseEmpty \/ Discard \/ Send
Resume == (\E r \in DOMAIN rows : ResumeRead(r)) \/ ResumeCancel \/ ResumeOpen
Writer == WriterSave \/ WriterSend \/ WriterDiscard
Rest == (\E a \in answers : Answered(a)) \/ (\E r \in DOMAIN rows : Drained(r))

Next == User \/ Resume \/ Writer \/ Rest

Spec == Init /\ [][Next]_vars

-----------------------------------------------------------------------------
WordsSet == [doc : Docs, n : Stamps]
Ids == 0 .. Len(rows)

\* The types.  Every id known anywhere is a row's, no answer is ahead of the
\* fields, and the terminal keeps no timer for a composer that closed.
TypeOK ==
    /\ frontend \in Frontends
    /\ composer \in [open : BOOLEAN, gen : Docs, prev : Docs, id : Ids,
                     words : WordsSet, armed : BOOLEAN]
    /\ composer.armed => composer.open \/ Desktop
    /\ last \in Ids
    /\ request \in [step : {"none", "cancel", "open"}, id : Ids, words : WordsSet]
    /\ queue \in Seq([kind : {"save", "send", "discard"}, gen : 0 .. composer.gen,
                      id : Ids, words : WordsSet])
    /\ Len(queue) <= MaxQueue
    /\ current \in [gen : 0 .. composer.gen, id : Ids]
    /\ answers \subseteq [gen : 0 .. composer.gen, id : Ids \ {None}]
    /\ rows \in Seq([doc : Docs, words : WordsSet, state : {"editing", "queued", "gone"}])
    /\ {latest, landed} \subseteq [Docs -> Stamps]
    /\ {excused, emptied} \subseteq SUBSET Docs
    /\ sent \subseteq Docs
    /\ typed \in Stamps
    /\ faults \in 0 .. MaxFaults

\* A composition makes one row.  A save made before the first one's answer is in
\* updates that row, and a send queues it, however the composer moved on: the
\* writer's promise (compose.rs, #1608).
OneRowEach == \A r, s \in DOMAIN rows : rows[r].doc = rows[s].doc => r = s

\* No row ever holds another message's words: an id that arrives late is not
\* taken by the composition that is in the fields by then (adopt_id).
WordsStayApart == \A r \in DOMAIN rows : rows[r].words.doc = rows[r].doc

InFields(d) == composer.words = Words(d, latest[d]) /\ (composer.open \/ composer.armed)
OnTheWay(d) == \E i \in DOMAIN queue : /\ queue[i].kind # "discard"
                                       /\ queue[i].words = Words(d, latest[d])

\* The last words typed in a message are in the fields, on their way, or were
\* written to its row, unless the store failed them or the user threw them away:
\* closing, sending and swapping leave no edit behind unwritten.  What becomes of
\* the row afterwards is KeptWordsStay's, which the desktop breaks.  (What the
\* terminal opens over an open composition is excused.)
WordsAreWritten ==
    \A d \in Docs \ excused : latest[d] = 0 \/ latest[d] <= landed[d] \/ InFields(d)
                              \/ OnTheWay(d)

\* A message closed empty leaves no row once the writer is done, even if a save
\* of it had not been answered when it was closed: a discard is behind every save
\* its composition made.  It says nothing of Composer::discard, whose second fill
\* hands the discard over under another generation: while a save of the message
\* is unanswered its row stays, in Drafts.
EmptiedIsGone ==
    queue = <<>> => \A r \in DOMAIN rows : rows[r].doc \in emptied => rows[r].state = "gone"

\* Behind a send the composer closes, and that close deletes nothing: neither the
\* row the send queued nor, when the send failed, the autosaved one.
SentStays ==
    [][\A gen \in sent : (WriterDiscard /\ Next1.gen = gen) => rows' = rows]_vars

\* A discard deletes its own message's row and no other.  Of the terminal: the
\* desktop's last_id outlives the composition it was of.
DiscardsItsOwn ==
    [][(WriterDiscard /\ ~Desktop) =>
           \A r \in DOMAIN rows : rows'[r] # rows[r] => rows[r].doc = Next1.words.doc]_vars
-----------------------------------------------------------------------------
(* What the documentation says and the code does not keep.                 *)

\* "Since #166 a kept draft is autosaved and is a row in the Drafts folder ... so
\* starting fresh loses nothing" (composer/mod.rs:178-181), and "swapping to
\* another draft and back loses nothing" (926): a draft's row is deleted as an
\* editing row by its own discard only, and never goes back to older words.  It
\* is: last_id survives a close that keeps the draft, and the next composition,
\* closed blank, discards the row it names.
KeptWordsStay ==
    [][\A r \in DOMAIN rows :
           /\ rows[r].state = "editing" /\ rows'[r].state = "gone"
                  => Next1.words.doc = rows[r].doc
           /\ rows'[r].words.n \notin 1 .. (rows[r].words.n - 1)]_vars
=============================================================================

------------------------------- MODULE Resync -------------------------------
(***************************************************************************)
(* Keeping one mailbox the way the server has it                           *)
(* (postio-sync/src/resync.rs, initial.rs and flag_sweep.rs, the decision  *)
(* in postio-model/src/sync.rs, the sync state's repository).              *)
(*                                                                         *)
(* A pass selects the mailbox, decides from the counters it recorded last  *)
(* time how to catch up, and then reads the rest one exchange at a time    *)
(* while the server, the user and the drainer go on.  What a SELECT said,  *)
(* what the rows were and what a later command answers are of different    *)
(* moments; the arithmetic over them decides whether rows are deleted, and *)
(* the counters recorded at the end what the next pass will not look at.   *)
(*                                                                         *)
(* One action is one exchange or one store transaction.  A pass may be cut *)
(* short between any two, by an error, an interruption or a crash.         *)
(***************************************************************************)
EXTENDS Integers, FiniteSets

CONSTANTS
    Initial,       \* how many messages the mailbox holds at first
    ModSeqServers, \* whether the server may have CONDSTORE, and may lack it
    ReliableFeeds, \* whether its change feed may be complete, and incomplete
    SweepEvery,    \* SweepPolicy, for a mailbox of this size
    MaxEvents,     \* bound: what other clients and the server's owner do
    MaxGens,       \* bound: generations (UIDVALIDITY)
    MaxMoves,      \* bound: messages the user moves away
    MaxFaults,     \* bound: passes cut short
    MaxLosses      \* bound: response lines io-imap could not decode

ASSUME ServersAssumption ==
    /\ ModSeqServers \subseteq BOOLEAN
    /\ ReliableFeeds \subseteq BOOLEAN
ASSUME BoundsAssumption ==
    /\ {Initial, MaxEvents, MaxMoves, MaxFaults, MaxLosses} \subseteq Nat
    /\ {MaxGens, SweepEvery} \subseteq Nat \ {0}

VARIABLES
    kind,    \* what this server is: [modSeq, reliable]
    srv,     \* the mailbox there: [gen, next, high, box]
    told,    \* the generation the process last heard (Generations)
    past,    \* the mailbox as a selection made before a renumbering still shows it
    state,   \* the sync_state row
    rows,    \* the local rows of the mailbox that carry a UID
    leaving, \* queued moves out of it
    pass,    \* the pass under way
    quiet,   \* history: the mailbox has not changed since the pass selected it
    ahead,   \* history: counters were recorded over rows the pass did not read
    bounds   \* what has been used of each bound

server_vars == <<kind, srv>>
session_vars == <<told, past>>
local_vars  == <<rows, leaving>>
vars == <<server_vars, session_vars, state, local_vars, pass, quiet, ahead, bounds>>

-----------------------------------------------------------------------------
NoGen == 0
NoSeq == 0
Key(m) == <<m.gen, m.uid>>

\* A sync state: SyncState::never_synced.
NeverSynced == [gen |-> NoGen, next |-> 0, high |-> NoSeq, synced |-> FALSE, passes |-> 0]
NoStatus == [gen |-> NoGen, next |-> 0, high |-> NoSeq, exists |-> 0]
NoPass   == [pc |-> "idle", plan |-> "None", sel |-> NoStatus, first |-> NoStatus,
             known |-> {}, arrived |-> 0, gone |-> 0, todo |-> {}, got |-> {}]

Idle == pass = NoPass

NoBox == [u \in {} |-> NoSeq]
Uids  == DOMAIN srv.box

\* The generation the process was told is the server's.
Confirmed == told \in {NoGen, srv.gen}

\* What commands read: the mailbox, or what it was when it was selected.
Seen  == IF Confirmed THEN [gen |-> srv.gen, box |-> srv.box] ELSE [gen |-> told, box |-> past]
Shown == DOMAIN Seen.box
Message(u) == [gen |-> Seen.gen, uid |-> u, flag |-> Seen.box[u].flag]
Messages(S) == {Message(u) : u \in S \cap Shown}

\* What a SELECT reports.
Status == [gen |-> srv.gen, next |-> srv.next, exists |-> Cardinality(Uids),
           high |-> IF kind.modSeq THEN srv.high ELSE NoSeq]

\* uids_in: the rows of one generation.
UidsIn(g) == {r.uid : r \in {x \in rows : x.gen = g}}

\* shadowed_by_pending_operation: a message on its way out is not stored again.
Shadowed(m) == \E l \in leaving : Key(l) = Key(m) /\ l.state # "failed"

\* upsert_batch, of one message.
Upserted(m) == IF Shadowed(m) THEN rows
               ELSE {r \in rows : Key(r) # Key(m)} \cup {m}

\* SyncState::observe.
Observed(s) ==
    LET kept == IF state.gen \in {NoGen, s.gen} THEN state ELSE NeverSynced
    IN  [kept EXCEPT !.gen = s.gen, !.next = s.next,
                     !.high = IF s.high = NoSeq THEN @ ELSE s.high]

\* SyncState::plan, most severe reason first.
Plan(s) ==
    IF state.gen \notin {NoGen, s.gen}     THEN "GenerationChanged"
    ELSE IF ~state.synced                  THEN "NeverSynced"
    ELSE IF NoSeq \in {state.high, s.high} THEN "NoModSeq"
    ELSE IF s.high > state.high            THEN "Incremental"
    ELSE IF s.high < state.high            THEN "ModSeqWentBackwards"
    ELSE                                        "UpToDate"

\* Coverage: a pass that refreshes asks again for what it has.
Everything == pass.plan \in {"NoModSeq", "ModSeqWentBackwards", "Rebuilt"}

At(p) == pass.pc = p
Go(p) == [pass EXCEPT !.pc = p]

\* Mutant: one pass too many between two sweeps.
SweepsLate == ~kind.reliable /\ state.passes + 1 > SweepEvery

\* SweepPolicy::decide.
Sweeps == ~kind.reliable /\ state.passes + 1 >= SweepEvery

-----------------------------------------------------------------------------
(* A SELECT is refused that contradicts the generation the process was told. *)
(* A command of a pass goes to a selection made before (ensure_selected).   *)
(* While that is fresh nothing is asked, and a session keeps the numbering  *)
(* it selected; once it is not, the command selects first and may be        *)
(* refused.                                                                 *)

\* The refusal adopts the new generation, so the caller who retries succeeds.
Refused == ~Confirmed /\ told' = srv.gen /\ past' = NoBox

\* A SELECT that is answered.
Selected == Confirmed /\ told' = srv.gen /\ UNCHANGED past

Lose == /\ bounds.losses < MaxLosses
        /\ bounds' = [bounds EXCEPT !.losses = @ + 1]

\* What an undecoded line leaves of an answer, where nobody counts the lines.
Answer(S, T) ==
    \/ T = S /\ UNCHANGED bounds
    \/ T \in SUBSET S /\ T # S /\ Lose

\* resync_mailbox: select and decide.
Select ==
    /\ Idle
    /\ Selected
    /\ quiet' = TRUE
    /\ LET plan == Plan(Status) IN
       pass' = [NoPass EXCEPT
                   !.plan = plan, !.sel = Status,
                   !.known = IF plan = "Incremental" THEN UidsIn(srv.gen) ELSE {},
                   !.first = IF plan = "ModSeqWentBackwards" THEN Status ELSE NoStatus,
                   !.pc = CASE plan = "GenerationChanged"   -> "wipe"
                            [] plan = "Incremental"         -> "changes"
                            [] plan = "UpToDate"            -> "sweep"
                            [] plan = "ModSeqWentBackwards" -> "reselect"
                            [] OTHER                        -> "observe"]
    /\ UNCHANGED <<server_vars, state, local_vars, ahead, bounds>>

\* A refused SELECT, and an answer that cannot be trusted, mean a rebuild.
SelectRefused ==
    /\ Idle
    /\ Refused
    /\ pass' = [NoPass EXCEPT !.pc = "rebuild"]
    /\ UNCHANGED <<server_vars, state, local_vars, quiet, ahead, bounds>>

Rebuild ==
    /\ At("rebuild")
    /\ \/ /\ Selected
          /\ quiet' = TRUE
          /\ LET renumbered == state.gen \notin {NoGen, srv.gen} IN
             pass' = [NoPass EXCEPT
                         !.sel = Status,
                         !.plan = IF renumbered THEN "GenerationChanged" ELSE "Rebuilt",
                         !.pc = IF renumbered THEN "wipe" ELSE "observe"]
       \/ Refused /\ pass' = NoPass /\ UNCHANGED quiet
    /\ UNCHANGED <<server_vars, state, local_vars, ahead, bounds>>

\* wipe_mailbox, of the generation the rows were stored under.
Wipe ==
    /\ At("wipe")
    /\ rows' = {r \in rows : r.gen # state.gen}
    /\ pass' = Go("observe")
    /\ UNCHANGED <<server_vars, session_vars, state, leaving, quiet, ahead, bounds>>

\* What the server reported is recorded before the mailbox is read again.
ObserveFirst ==
    /\ At("observe")
    /\ state' = Observed(pass.sel)
    /\ pass' = Go("reselect")
    /\ UNCHANGED <<server_vars, session_vars, local_vars, quiet, ahead, bounds>>

-----------------------------------------------------------------------------
(* initial::enumerate.                                                     *)

\* Its own SELECT, which it records; an empty mailbox is done.  That is ahead of the
\* rows a pass for what is missing will not read, and of those of a generation a
\* refusal in between let by.
Completed(s) == [s EXCEPT !.synced = TRUE, !.passes = 0]

EnumSelect ==
    /\ At("reselect")
    /\ \/ /\ Selected
          /\ state' = IF srv.next = 1 THEN Completed(Observed(Status)) ELSE Observed(Status)
          /\ pass' = IF srv.next = 1
                     THEN [pass EXCEPT !.pc = "complete"]
                     ELSE [pass EXCEPT !.pc = "enumerate", !.sel = Status,
                                       !.known = UidsIn(srv.gen)]
          /\ ahead' = (ahead \/ \E r \in rows : r.gen # srv.gen \/ ~Everything)
       \/ Refused /\ pass' = NoPass /\ UNCHANGED <<state, ahead>>
    /\ UNCHANGED <<server_vars, local_vars, quiet, bounds>>

\* existing_uids: a listing, or none; a refusal is not an error here.
Listing(L) ==
    \/ L \in {{Shown}, {}} /\ UNCHANGED session_vars
    \/ L = {} /\ Refused

\* The UIDs to ask for: those listed, unless that is fewer than EXISTS, in which
\* case every UID below the ceiling.
EnumList ==
    /\ At("enumerate")
    /\ \E L \in {{Shown}, {}} :
          /\ Listing(L)
          /\ LET believed == {l \in L : Cardinality(l) >= pass.sel.exists}
                 below    == 1 .. pass.sel.next - 1
                 ceiling  == IF believed = {} THEN below ELSE below \cap UNION believed
             IN  pass' = [pass EXCEPT !.pc = "fetch", !.got = {}, !.known = {},
                                      !.todo = IF Everything THEN ceiling ELSE ceiling \ pass.known]
    /\ UNCHANGED <<server_vars, state, local_vars, quiet, ahead, bounds>>

\* Newest first, a batch (here one UID) at a time; the fetch comes before the
\* write of the batch in front of it.
EnumFetch ==
    /\ At("fetch")
    /\ pass.todo # {}
    /\ \/ /\ LET u == CHOOSE u \in pass.todo : \A v \in pass.todo : v <= u IN
             \E T \in SUBSET Messages({u}) :
                /\ Answer(Messages({u}), T)
                /\ pass' = [pass EXCEPT !.todo = @ \ {u}, !.got = T,
                                        !.pc = IF T = {} THEN "fetch" ELSE "store"]
          /\ UNCHANGED session_vars
       \/ Refused /\ pass' = NoPass /\ UNCHANGED bounds
    /\ UNCHANGED <<server_vars, state, local_vars, quiet, ahead>>

\* A unit of what was fetched.  An enumeration goes on to the next batch, an
\* incremental pass to the count of what is left over.
Store ==
    /\ At("store")
    /\ \E m \in pass.got :
          /\ rows' = Upserted(m)
          /\ pass' = [pass EXCEPT !.got = @ \ {m},
                         !.pc = IF pass.got # {m} THEN "store"
                                ELSE IF pass.plan = "Incremental" THEN "count" ELSE "fetch"]
    /\ UNCHANGED <<server_vars, session_vars, state, leaving, quiet, ahead, bounds>>

\* complete_full_sync, and for a MODSEQ that went backwards what was reported
\* before the re-read.
EnumEnd ==
    /\ At("fetch")
    /\ pass.todo = {}
    /\ state' = Completed(state)
    /\ pass' = IF pass.first = NoStatus THEN NoPass ELSE Go("complete")
    /\ UNCHANGED <<server_vars, session_vars, local_vars, quiet, ahead, bounds>>

ObserveLast ==
    /\ At("complete")
    /\ state' = IF pass.first = NoStatus THEN state ELSE Observed(pass.first)
    /\ pass' = NoPass
    /\ UNCHANGED <<server_vars, session_vars, local_vars, quiet, ahead, bounds>>

-----------------------------------------------------------------------------
(* The incremental pass.                                                   *)

\* The error of a change feed or of a sweep that cannot be trusted: the mailbox
\* was renumbered, or the skip counter saw a line go.
Distrust ==
    /\ \/ /\ At("changes") \/ At("arrivals") \/ (At("sweep") /\ Sweeps)
          /\ Refused
          /\ UNCHANGED bounds
       \/ /\ At("changes") \/ (At("sweep") /\ Sweeps)
          /\ Lose
          /\ UNCHANGED session_vars
    /\ pass' = [NoPass EXCEPT !.pc = "rebuild"]
    /\ UNCHANGED <<server_vars, state, local_vars, quiet, ahead>>

NewTo(S) == Cardinality({m \in S : m.uid \notin pass.known})
Greatest(S) == CHOOSE u \in S \cup {0} : \A v \in S : v <= u

\* unaccounted_arrivals: the first UID that UIDNEXT promises and the feed did
\* not report.
Floor(S) == LET above == Greatest({m.uid : m \in S}) + 1
            IN  IF above > state.next THEN above ELSE state.next

Reads(S) == [pass EXCEPT !.got = S, !.arrived = NewTo(S),
                         !.pc = IF S = {} THEN "count" ELSE "store"]

\* UID FETCH 1:* (CHANGEDSINCE n).  A feed that is not complete leaves some out.
ChangeFeed(S) ==
    LET changed == Messages({u \in Shown : Seen.box[u].mod > state.high})
    IN  S \in SUBSET changed /\ (kind.reliable => S = changed)

Changed(S) == IF Floor(S) < pass.sel.next
              THEN [pass EXCEPT !.got = S, !.pc = "arrivals"] ELSE Reads(S)

\* Mutant: the server's MODSEQ is ours once the changes were read.
FetchChangesRecords ==
    /\ At("changes")
    /\ \E S \in SUBSET Messages(Shown) : ChangeFeed(S) /\ pass' = Changed(S)
    /\ state' = Observed(pass.sel)
    /\ UNCHANGED <<server_vars, session_vars, local_vars, quiet, ahead, bounds>>

FetchChanges ==
    /\ At("changes")
    /\ \E S \in SUBSET Messages(Shown) : ChangeFeed(S) /\ pass' = Changed(S)
    /\ UNCHANGED <<server_vars, session_vars, state, local_vars, quiet, ahead, bounds>>

FetchArrivals ==
    LET S == Messages({u \in Shown : u >= Floor(pass.got)}) IN
    /\ At("arrivals")
    /\ \E T \in SUBSET S : Answer(S, T) /\ pass' = Reads(pass.got \cup T)
    /\ UNCHANGED <<server_vars, session_vars, state, local_vars, quiet, ahead>>

\* known + arrived against EXISTS decides whether to ask what is still there.
Count ==
    LET expected == Cardinality(pass.known) + pass.arrived IN
    /\ At("count")
    /\ pass' = IF pass.known # {} /\ expected # pass.sel.exists
               THEN [pass EXCEPT !.pc = "reconcile",
                        !.gone = IF expected > pass.sel.exists
                                 THEN expected - pass.sel.exists ELSE 0]
               ELSE Go("sweep")
    /\ UNCHANGED <<server_vars, session_vars, state, local_vars, quiet, ahead, bounds>>

\* Mutant: absence from an answer is proof of an expunge.
BelievedAlways(vanished) == Cardinality(vanished) >= 0

\* How many went is what EXISTS demands; any other answer is not believed.
Believed(vanished) == Cardinality(vanished) = pass.gone

\* Where a reconciliation goes on, having deleted n rows.
AfterReconcile(n) ==
    IF pass.plan = "Incremental" THEN [pass EXCEPT !.pc = "sweep", !.known = {}]
    ELSE IF n > 0 THEN NoPass
    ELSE [pass EXCEPT !.pc = "short", !.known = {}]

\* reconcile_vanished, told which of the known UIDs are there: ids_by_uid and
\* delete.
DeleteAllBut(present) ==
    LET vanished == pass.known \ present
        deleted  == {r \in rows : r.gen = pass.sel.gen /\ r.uid \in vanished}
    IN
    IF Believed(vanished)
    THEN rows' = rows \ deleted /\ pass' = AfterReconcile(Cardinality(deleted))
    ELSE pass' = AfterReconcile(0) /\ UNCHANGED rows

\* The presence check: the listing, and without one a fetch of what is known.
ReconcileListed ==
    /\ At("reconcile")
    /\ \E L \in {{Shown}, {}} :
          /\ Listing(L)
          /\ IF L = {} THEN pass' = Go("refetch") /\ UNCHANGED rows
                       ELSE DeleteAllBut(UNION L)
    /\ UNCHANGED <<server_vars, state, leaving, quiet, ahead, bounds>>

ReconcileFetched ==
    /\ At("refetch")
    /\ \/ /\ \E T \in SUBSET (pass.known \cap Shown) :
                Answer(pass.known \cap Shown, T) /\ DeleteAllBut(T)
          /\ UNCHANGED session_vars
       \/ /\ Refused
          /\ pass' = IF pass.plan = "Incremental" THEN [NoPass EXCEPT !.pc = "rebuild"]
                                                  ELSE NoPass
          /\ UNCHANGED <<rows, bounds>>
    /\ UNCHANGED <<server_vars, state, leaving, quiet, ahead>>

-----------------------------------------------------------------------------
(* The flag sweep, what is recorded, and what is still short.              *)

SweepSkipped ==
    /\ At("sweep")
    /\ ~Sweeps
    /\ pass' = [pass EXCEPT !.pc = "record", !.arrived = 0, !.gone = 0]
    /\ UNCHANGED <<server_vars, session_vars, state, local_vars, quiet, ahead, bounds>>

SweepRead ==
    /\ At("sweep")
    /\ Sweeps
    /\ pass' = [pass EXCEPT !.pc = "correct", !.got = Messages(Shown), !.arrived = 0, !.gone = 0]
    /\ UNCHANGED <<server_vars, session_vars, state, local_vars, quiet, ahead, bounds>>

\* flags_in and apply_server_flags.
SweepWrite ==
    /\ At("correct")
    /\ rows' = {IF \E m \in pass.got : Key(m) = Key(r)
                THEN CHOOSE m \in pass.got : Key(m) = Key(r) ELSE r : r \in rows}
    /\ pass' = [pass EXCEPT !.pc = "swept", !.got = {}]
    /\ UNCHANGED <<server_vars, session_vars, state, leaving, quiet, ahead, bounds>>

FlagPassed(s, swept) == [s EXCEPT !.passes = IF swept \/ kind.reliable THEN 0 ELSE @ + 1]

\* Mutant: what is recorded is the mailbox as it is when the pass ends.
RecordLatest ==
    /\ At("record") \/ At("swept")
    /\ state' = FlagPassed(Observed(Status), At("swept"))
    /\ pass' = Go(IF pass.plan = "Incremental" THEN "short" ELSE "excess")
    /\ UNCHANGED <<server_vars, session_vars, local_vars, quiet, ahead, bounds>>

\* observe and record_flag_pass: only now is the server's MODSEQ ours.  (Nothing
\* reads the count where the feed is trusted.)
Record ==
    /\ At("record") \/ At("swept")
    /\ state' = FlagPassed(Observed(pass.sel), At("swept"))
    /\ pass' = Go(IF pass.plan = "Incremental" THEN "short" ELSE "excess")
    /\ UNCHANGED <<server_vars, session_vars, local_vars, quiet, ahead, bounds>>

\* An idle MODSEQ with more rows than EXISTS: something went unreported.
Excess ==
    /\ At("excess")
    /\ pass' = Go(IF Cardinality(UidsIn(state.gen)) > pass.sel.exists THEN "relist" ELSE "short")
    /\ UNCHANGED <<server_vars, session_vars, state, local_vars, quiet, ahead, bounds>>

\* The rows are read again, and EXISTS subtracted from how many they now are: an
\* unsigned subtraction, which wraps to a number no answer has.
Relist ==
    LET known == UidsIn(state.gen) IN
    /\ At("relist")
    /\ pass' = [pass EXCEPT !.pc = "reconcile", !.known = known,
                            !.gone = Cardinality(known) - pass.sel.exists]
    /\ UNCHANGED <<server_vars, session_vars, state, local_vars, quiet, ahead, bounds>>

\* still_short_of_exists: fewer rows than EXISTS, and nothing queued explains it.
Short ==
    /\ At("short")
    /\ pass' = IF Cardinality(UidsIn(state.gen)) < pass.sel.exists /\ leaving = {}
               THEN [NoPass EXCEPT !.pc = "reselect", !.plan = "ShortOfExists"]
               ELSE NoPass
    /\ UNCHANGED <<server_vars, session_vars, state, local_vars, quiet, ahead, bounds>>

-----------------------------------------------------------------------------
(* The user and the drainer, beside a pass.                                *)

\* A move out of the mailbox: the row goes at once, the queue remembers its id.
MoveAway(r) ==
    /\ r \in rows
    /\ bounds.moves < MaxMoves
    /\ bounds' = [bounds EXCEPT !.moves = @ + 1]
    /\ rows' = rows \ {r}
    /\ leaving' = leaving \cup {[gen |-> r.gen, uid |-> r.uid, state |-> "pending"]}
    /\ UNCHANGED <<server_vars, session_vars, state, pass, quiet, ahead>>

\* The server carries it out; an id that is not of the selection's generation is
\* refused for good.  A selection made before a renumbering may be fresh still: the
\* mailbox that was is then what the command changes.
DrainMove(l) ==
    /\ l \in leaving
    /\ l.state = "pending"
    /\ \E carried \in {l.gen = srv.gen, l.gen = Seen.gen} :
          leaving' = (leaving \ {l}) \cup {[l EXCEPT !.state = IF carried THEN "moved" ELSE "failed"]}
    /\ IF l.gen = srv.gen /\ l.uid \in Uids
       THEN /\ \E high \in {srv.high, srv.high + 1} :
                  srv' = [srv EXCEPT !.high = high,
                              !.box = [u \in Uids \ {l.uid} |-> srv.box[u]]]
            /\ quiet' = FALSE
       ELSE UNCHANGED <<srv, quiet>>
    /\ UNCHANGED <<kind, session_vars, state, rows, pass, ahead, bounds>>

\* settle: the queue row is done.
DrainSettle(l) ==
    /\ l \in leaving
    /\ l.state = "moved"
    /\ leaving' = leaving \ {l}
    /\ UNCHANGED <<server_vars, session_vars, state, rows, pass, quiet, ahead, bounds>>

-----------------------------------------------------------------------------
(* The server and its other clients.                                       *)

Happens == /\ bounds.events < MaxEvents
           /\ bounds' = [bounds EXCEPT !.events = @ + 1]
           /\ quiet' = FALSE
           /\ UNCHANGED <<kind, told, state, local_vars, pass, ahead>>

Arrive ==
    /\ Happens
    /\ UNCHANGED past
    /\ srv' = [srv EXCEPT !.next = @ + 1, !.high = @ + 1,
                  !.box = [u \in Uids \cup {srv.next} |->
                     IF u = srv.next THEN [flag |-> FALSE, mod |-> srv.high + 1] ELSE srv.box[u]]]

Reflag(u) ==
    /\ Happens
    /\ UNCHANGED past
    /\ srv' = [srv EXCEPT !.high = @ + 1,
                          !.box[u] = [flag |-> ~srv.box[u].flag, mod |-> srv.high + 1]]

\* Only a server with QRESYNC has to raise MODSEQ for an expunge.
Expunge(u) ==
    /\ Happens
    /\ UNCHANGED past
    /\ \E high \in {srv.high, srv.high + 1} :
          srv' = [srv EXCEPT !.high = high, !.box = [v \in Uids \ {u} |-> srv.box[v]]]

\* A restore under a new UIDVALIDITY: the same messages, numbered anew.
Renumber ==
    LET n == Cardinality(Uids)
        low(u) == Cardinality({v \in Uids : v <= u})
    IN
    /\ Happens
    /\ srv.gen < MaxGens
    /\ past' = IF told = srv.gen THEN srv.box ELSE past
    /\ srv' = [gen |-> srv.gen + 1, next |-> n + 1, high |-> 1,
               box |-> [i \in 1 .. n |-> [srv.box[CHOOSE u \in Uids : low(u) = i] EXCEPT !.mod = 1]]]

\* A restore that keeps it and goes back in MODSEQ, behind what was recorded: of
\* any other a client sees nothing.
Restore ==
    /\ Happens
    /\ UNCHANGED past
    /\ state.high > 1
    /\ srv' = [srv EXCEPT !.high = 1,
                          !.box = [u \in Uids |-> [flag |-> FALSE, mod |-> 1]]]

\* Counters of a SELECT are recorded, and what they cover is to be read again.
Reading == Everything /\ pass.pc \in {"enumerate", "fetch", "store"}

\* An error, an interruption, or the death of the process.
Cut ==
    /\ ~Idle
    /\ bounds.faults < MaxFaults
    /\ bounds' = [bounds EXCEPT !.faults = @ + 1]
    /\ pass' = NoPass
    /\ \/ UNCHANGED session_vars
       \/ told' = NoGen /\ past' = NoBox
    /\ ahead' = (ahead \/ Reading)
    /\ UNCHANGED <<server_vars, state, local_vars, quiet>>

-----------------------------------------------------------------------------
Init ==
    /\ kind \in [modSeq : ModSeqServers, reliable : ReliableFeeds]
    /\ srv = [gen |-> 1, next |-> Initial + 1, high |-> 1,
              box |-> [u \in 1 .. Initial |-> [flag |-> FALSE, mod |-> 1]]]
    /\ told = NoGen
    /\ past = NoBox
    /\ state = NeverSynced
    /\ rows = {}
    /\ leaving = {}
    /\ pass = NoPass
    /\ quiet = TRUE
    /\ ahead = FALSE
    /\ bounds = [events |-> 0, moves |-> 0, faults |-> 0, losses |-> 0]

EnumStep == EnumSelect \/ EnumList \/ EnumFetch \/ EnumEnd \/ ObserveLast
IncrementalStep == FetchChanges \/ FetchArrivals \/ Count
ReconcileStep == Relist \/ ReconcileListed \/ ReconcileFetched
SweepStep == SweepSkipped \/ SweepRead \/ SweepWrite

PassStep ==
    \/ Select \/ SelectRefused \/ Rebuild \/ Wipe \/ ObserveFirst
    \/ EnumStep \/ Store
    \/ IncrementalStep \/ ReconcileStep \/ SweepStep \/ Distrust
    \/ Record \/ Excess \/ Short

DrainStep == \E l \in leaving : DrainMove(l) \/ DrainSettle(l)

ServerStep ==
    \/ Arrive \/ Renumber \/ Restore
    \/ \E u \in Uids : Reflag(u) \/ Expunge(u)

Next ==
    \/ PassStep \/ DrainStep \/ ServerStep \/ Cut
    \/ \E r \in rows : MoveAway(r)

Spec == Init /\ [][Next]_vars

\* The engine passes over a mailbox again and again, and drains its queue;
\* nobody owes an event, a command, an error or a lost line.
Fairness == WF_vars(PassStep) /\ WF_vars(DrainStep)
FairSpec == Spec /\ Fairness

-----------------------------------------------------------------------------
(* Properties.                                                             *)

Statuses == [gen : 0 .. MaxGens, next : Nat, high : Nat, exists : Nat]
Mails    == [gen : 1 .. MaxGens, uid : Nat, flag : BOOLEAN]

\* The mailbox, its sync state and the pass have the shape the code gives them.
\* A row has one UID, and a message one row (the unique key the upsert resolves
\* conflicts on); an incomplete feed is trusted for SweepEvery - 1 passes at most
\* between two sweeps (SweepPolicy::decide).
TypeOK ==
    /\ kind \in [modSeq : ModSeqServers, reliable : ReliableFeeds]
    /\ srv.gen \in 1 .. MaxGens /\ srv.next \in Nat \ {0} /\ srv.high \in Nat \ {0}
    /\ \A u \in Uids : /\ u \in 1 .. srv.next - 1
                       /\ srv.box[u] \in [flag : BOOLEAN, mod : 1 .. srv.high]
    /\ told \in 0 .. MaxGens
    /\ \A u \in DOMAIN past : past[u] \in [flag : BOOLEAN, mod : Nat]
    /\ state \in [gen : 0 .. MaxGens, next : Nat, high : Nat, synced : BOOLEAN,
                  passes : 0 .. SweepEvery - 1]
    /\ rows \subseteq Mails
    /\ \A r, x \in rows : Key(r) = Key(x) => r = x
    /\ leaving \subseteq [gen : 1 .. MaxGens, uid : Nat, state : {"pending", "moved", "failed"}]
    /\ {pass.sel, pass.first} \subseteq Statuses
    /\ pass.got \subseteq Mails
    /\ pass.known \cup pass.todo \subseteq Nat
    /\ pass.arrived \in Nat /\ pass.gone \in Int
    /\ {quiet, ahead} \subseteq BOOLEAN
    /\ bounds \in [events : 0 .. MaxEvents, moves : 0 .. MaxMoves,
                   faults : 0 .. MaxFaults, losses : 0 .. MaxLosses]

\* The row of a message the server holds is deleted only for the user's own move
\* of it, or when a response line was lost while the mailbox was changing: the two
\* errors together can add up to the number EXISTS demands.  Renumbering,
\* interruptions, arrivals and expunges between the select, the reading of the
\* rows and the presence check delete nothing (reconcile_vanished, wipe_mailbox).
OnlyGoneDeleted ==
    [][\A r \in rows :
          Key(r) \notin {Key(x) : x \in rows'} /\ leaving' = leaving
          /\ r.gen = srv.gen /\ r.uid \in Uids
          => ~quiet /\ bounds'.losses > bounds.losses]_vars

Held  == {Key(r) : r \in rows}
There == {<<srv.gen, u>> : u \in Uids}
SameFlags == \A r \in rows : r.gen = srv.gen /\ r.uid \in Uids => r.flag = srv.box[r.uid].flag

\* A queue row that failed for good stays, and keeps a shortfall from being filled
\* (still_short_of_exists) until the user clears it.
Stuck == \E l \in leaving : l.state = "failed"

\* The rows are what the server holds.  A pass over a server without CONDSTORE
\* deletes nothing.
InStep == /\ SameFlags
          /\ There \subseteq Held \/ Stuck
          /\ kind.modSeq => Held \subseteq There

\* Nothing the server reports tells the next pass that the rows are wrong.
NoWitness == /\ Plan(Status) = "UpToDate"
             /\ Cardinality(UidsIn(srv.gen)) = Status.exists
             /\ kind.reliable \/ SameFlags

\* What the code lets through to such an end.  The first is its own disagreement
\* (StateNeverAhead below); a response line lost where nobody counts them leaves its
\* message unread; and a row moved away while a pass held its message can come back,
\* as one too many, beside one that an incomplete feed left out.
Excused == \/ ahead
           \/ bounds.losses > 0
           \/ bounds.moves > 0 /\ ~kind.reliable

\* Whatever was cut short, lost, renumbered or moved, once the server is left alone
\* the passes end in step with it.  No wrong count, missing message, stale generation
\* or stale flag of an incomplete feed survives that a pass has a witness of, and
\* none at all unless excused (resync_mailbox_with_policy records the server's MODSEQ
\* only after what it covers was read; still_short_of_exists, sweep_flags).
Converges == <>[](InStep \/ (NoWitness /\ Excused))

Undisturbed == bounds.faults = 0 /\ bounds.losses = 0 /\ bounds.moves = 0 /\ srv.gen = 1

\* While no pass is cut short, no line lost, nothing moved and nothing renumbered,
\* what other clients do during passes is never missed: arrivals, flags, expunges
\* reported or not, and a restore that goes back in MODSEQ are all read in the end
\* (the arithmetic of incremental and unaccounted_arrivals, what is recorded when).
CatchesUp == []Undisturbed => <>[]InStep

-----------------------------------------------------------------------------
(* What the documentation says and the code does not keep.                 *)

\* "so a crash can never leave the state ahead of the messages it claims to cover"
\* (postio-model/src/sync.rs:29): between passes, a state that calls a server with a
\* complete change feed up to date has the flags it has.  enumerate records the
\* counters of its own SELECT before it reads a message (initial.rs:325), the MODSEQ
\* that went backwards among them, which resync.rs:388 says must be recorded last.
StateNeverAhead == Idle /\ kind.reliable /\ Plan(Status) = "UpToDate" => SameFlags
=============================================================================

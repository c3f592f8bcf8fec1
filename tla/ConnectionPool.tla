--------------------------- MODULE ConnectionPool ---------------------------
(***************************************************************************)
(* The bounded pool of IMAP sessions (postio-account/src/imap/pool.rs):    *)
(* slots, waiters by priority, parked sessions, timeouts, dropped futures  *)
(* and close.  One action is what a caller does under one lock of the pool *)
(* or between two awaits.  The server and the operation run on a session   *)
(* are external: an exchange finishes, fails midway, or is dropped.        *)
(***************************************************************************)
EXTENDS Integers, Sequences, FiniteSets

CONSTANTS
    Callers,
    MaxConnections, \* PoolConfig::max_connections
    Dedicate,       \* PoolConfig::dedicate_watch_connection
    DropPoints,     \* the awaits at which a caller's future may be dropped
    TimeoutGap,     \* others may run even between the drop of a timed-out
                    \* receiver and its caller's lock
    MaxAsks         \* bound: acquisitions asked for

Awaits == {"waiting", "granted", "opening", "running"}

ASSUME PoolAssumption ==
    /\ IsFiniteSet(Callers)
    /\ MaxConnections \in Nat
    /\ Dedicate \in BOOLEAN
    /\ DropPoints \subseteq Awaits
    /\ TimeoutGap \in BOOLEAN
    /\ MaxAsks \in Nat

VARIABLES
    permits, \* each lane's free slots
    parked,  \* each lane's open sessions nobody is using, oldest first
    queue,   \* the lanes' waiters: the tickets whose senders they keep
    in_use,  \* connections handed out and not yet returned
    tickets,
    closed,
    pc,      \* where each caller is in acquire_lane and run_on
    ticket,  \* the ticket it drew, with what it asked for
    conn,    \* its session, and whether half an exchange is unread on it
    discard  \* PooledSession::discard

lane_vars == <<permits, parked, queue>>
session_vars == <<conn, discard>>
vars == <<lane_vars, in_use, tickets, closed, pc, ticket, session_vars>>

-----------------------------------------------------------------------------
Lanes == {"General", "Watch"}
Priorities == {"Interactive", "Background"}
Work == Priorities \cup {"Watch"}

\* A watcher of its own needs a connection left over for commands.
Capacity == IF MaxConnections = 0 THEN 1 ELSE MaxConnections
WatchSlots == IF Dedicate /\ Capacity > 1 THEN 1 ELSE 0
SlotsOf(l) == IF l = "Watch" THEN WatchSlots ELSE Capacity - WatchSlots

LaneFor(w) == IF w = "Watch" /\ WatchSlots > 0 THEN "Watch" ELSE "General"
PriorityFor(w) == IF w = "Watch" THEN "Interactive" ELSE w

Ticket == [caller : Callers, lane : Lanes, priority : Priorities, number : Nat]
NoTicket(c) ==
    [caller |-> c, lane |-> "General", priority |-> "Interactive", number |-> 0]

\* Waiters of one priority are served in the order of their tickets.
Ahead(t, u) ==
    \/ t.priority = "Interactive" /\ u.priority = "Background"
    \/ t.priority = u.priority /\ t.number < u.number

\* A sender whose receiver is alive: sending on it succeeds.
Listening(c) == pc[c] \in {"waiting", "elapsed"}
Live(l) == {t \in queue : t.lane = l /\ ticket[t.caller] = t /\ Listening(t.caller)}

Woken(p) == IF p = "waiting" THEN "granted" ELSE "late"

\* Who has a slot: handed one by the sender, taken one, or using one.
Owns(c) == pc[c] \in {"granted", "late", "owner", "opening", "held", "running"}
Owners(l) == {c \in Callers : Owns(c) /\ ticket[c].lane = l}

-----------------------------------------------------------------------------
Init ==
    /\ permits = [l \in Lanes |-> SlotsOf(l)]
    /\ parked = [l \in Lanes |-> <<>>]
    /\ queue = {}
    /\ in_use = 0
    /\ tickets = 0
    /\ closed = FALSE
    /\ pc = [c \in Callers |-> "idle"]
    /\ ticket = [c \in Callers |-> NoTicket(c)]
    /\ conn = [c \in Callers |-> "none"]
    /\ discard = [c \in Callers |-> FALSE]

-----------------------------------------------------------------------------
(* Slots.                                                                  *)

\* Mutant: the count of free slots is not looked at.
AskUncounted(c, w) ==
    LET l == LaneFor(w)
        t == [caller |-> c, lane |-> l, priority |-> PriorityFor(w), number |-> tickets + 1]
    IN
    /\ pc[c] = "idle"
    /\ ~closed
    /\ tickets < MaxAsks
    /\ tickets' = tickets + 1
    /\ ticket' = [ticket EXCEPT ![c] = t]
    /\ permits' = [permits EXCEPT ![l] = @ - 1]
    /\ pc' = [pc EXCEPT ![c] = "owner"]
    /\ UNCHANGED <<queue, parked, in_use, closed, session_vars>>

\* take_permit, under the lock that draws the ticket.
Ask(c, w) ==
    LET l == LaneFor(w)
        t == [caller |-> c, lane |-> l, priority |-> PriorityFor(w), number |-> tickets + 1]
    IN
    /\ pc[c] = "idle"
    /\ ~closed
    /\ tickets < MaxAsks
    /\ tickets' = tickets + 1
    /\ ticket' = [ticket EXCEPT ![c] = t]
    /\ \/ /\ permits[l] > 0
          /\ permits' = [permits EXCEPT ![l] = @ - 1]
          /\ pc' = [pc EXCEPT ![c] = "owner"]
          /\ UNCHANGED queue
       \/ /\ permits[l] = 0
          /\ queue' = queue \cup {t}
          /\ pc' = [pc EXCEPT ![c] = "waiting"]
          /\ UNCHANGED permits
    /\ UNCHANGED <<parked, in_use, closed, session_vars>>

\* A caller is done with the pool.
Leave(c) ==
    /\ pc' = [pc EXCEPT ![c] = "idle"]
    /\ ticket' = [ticket EXCEPT ![c] = NoTicket(c)]

\* Mutant: the slot is put back for the waiters to contend for.
ReleaseToAll(c) ==
    /\ permits' = [permits EXCEPT ![ticket[c].lane] = @ + 1]
    /\ Leave(c)
    /\ UNCHANGED queue

\* Mutant: the first sender whose receiver is gone ends the search.
ReleaseToTheFirst(c) ==
    LET l == ticket[c].lane
        Q == {t \in queue : t.lane = l}
    IN
    /\ ticket' = [ticket EXCEPT ![c] = NoTicket(c)]
    /\ \/ /\ Q = {}
          /\ permits' = [permits EXCEPT ![l] = @ + 1]
          /\ pc' = [pc EXCEPT ![c] = "idle"]
          /\ UNCHANGED queue
       \/ \E t \in Q :
          /\ \A u \in Q \ {t} : Ahead(t, u)
          /\ queue' = queue \ {t}
          /\ IF t \in Live(l)
             THEN /\ pc' = [pc EXCEPT ![c] = "idle", ![t.caller] = Woken(@)]
                  /\ UNCHANGED permits
             ELSE /\ pc' = [pc EXCEPT ![c] = "idle"]
                  /\ permits' = [permits EXCEPT ![l] = @ + 1]

\* release_permit, by a caller on its way out: senders are popped in order until
\* one has a receiver, and that waiter owns the slot.
Release(c) ==
    LET l == ticket[c].lane IN
    \/ /\ Live(l) = {}
       /\ queue' = {u \in queue : u.lane # l}
       /\ permits' = [permits EXCEPT ![l] = @ + 1]
       /\ Leave(c)
    \/ \E t \in Live(l) :
          /\ \A u \in Live(l) \ {t} : Ahead(t, u)
          /\ queue' = {u \in queue : u.lane = l => Ahead(t, u)}
          /\ pc' = [pc EXCEPT ![c] = "idle", ![t.caller] = Woken(@)]
          /\ ticket' = [ticket EXCEPT ![c] = NoTicket(c)]
          /\ UNCHANGED permits

\* The timer of the wait runs out before a slot was sent ...
Elapse(c) ==
    /\ pc[c] = "waiting"
    /\ ticket[c] \in queue
    /\ pc' = [pc EXCEPT ![c] = "elapsed"]
    /\ UNCHANGED <<lane_vars, in_use, tickets, closed, ticket, session_vars>>

\* ... the receiver goes with it ...
DropReceiver(c) ==
    /\ pc[c] = "elapsed"
    /\ pc' = [pc EXCEPT ![c] = "gone"]
    /\ UNCHANGED <<lane_vars, in_use, tickets, closed, ticket, session_vars>>

\* Mutant: a ticket that is no longer queued is not looked into.
GiveUpQuietly(c) ==
    /\ pc[c] \in {"late", "gone"}
    /\ queue' = queue \ {ticket[c]}
    /\ Leave(c)
    /\ UNCHANGED <<permits, parked, in_use, tickets, closed, session_vars>>

\* ... and the caller cancels its ticket.  One that is not queued any more is
\* taken for a slot that arrived at the last moment, and passed on.
GiveUp(c) ==
    /\ pc[c] \in {"late", "gone"}
    /\ \/ /\ ticket[c] \in queue
          /\ queue' = queue \ {ticket[c]}
          /\ Leave(c)
          /\ UNCHANGED permits
       \/ /\ ticket[c] \notin queue
          /\ Release(c)
    /\ UNCHANGED <<parked, in_use, tickets, closed, session_vars>>

\* The pool closed underneath the wait: every sender is gone.
WaitRefused(c) ==
    /\ pc[c] = "waiting"
    /\ ticket[c] \notin queue
    /\ Leave(c)
    /\ UNCHANGED <<lane_vars, in_use, tickets, closed, session_vars>>

-----------------------------------------------------------------------------
(* Sessions.                                                               *)

\* Mutant: a connection is opened whenever the newest parked one is too old,
\* and the parked ones stay.
UseSlotBesideParked(c) ==
    /\ pc[c] \in {"granted", "owner"}
    /\ ~closed
    /\ pc' = [pc EXCEPT ![c] = "opening"]
    /\ UNCHANGED <<lane_vars, in_use, tickets, closed, ticket, session_vars>>

\* With the slot in hand: leave a closed pool, take the newest parked session,
\* or open one.  When the newest is too old so are those below it.
UseSlot(c) ==
    /\ pc[c] \in {"granted", "owner"}
    /\ \/ /\ closed
          /\ Release(c)
          /\ UNCHANGED <<parked, in_use, conn>>
       \/ LET p == parked[ticket[c].lane] IN
          /\ ~closed
          /\ p # <<>>
          /\ parked' = [parked EXCEPT ![ticket[c].lane] = SubSeq(p, 1, Len(p) - 1)]
          /\ conn' = [conn EXCEPT ![c] = p[Len(p)]]
          /\ in_use' = in_use + 1
          /\ pc' = [pc EXCEPT ![c] = "held"]
          /\ UNCHANGED <<permits, queue, ticket>>
       \/ /\ ~closed
          /\ parked' = [parked EXCEPT ![ticket[c].lane] = <<>>]
          /\ pc' = [pc EXCEPT ![c] = "opening"]
          /\ UNCHANGED <<permits, queue, in_use, conn, ticket>>
    /\ UNCHANGED <<tickets, closed, discard>>

OpenFails(c) ==
    /\ pc[c] = "opening"
    /\ Release(c)
    /\ UNCHANGED <<parked, in_use, tickets, closed, session_vars>>

OpenSucceeds(c) ==
    /\ pc[c] = "opening"
    /\ conn' = [conn EXCEPT ![c] = "clean"]
    /\ in_use' = in_use + 1
    /\ pc' = [pc EXCEPT ![c] = "held"]
    /\ UNCHANGED <<lane_vars, tickets, closed, ticket, discard>>

\* Mutant: the operation starts on a connection that is not condemned.
RunUncondemned(c) ==
    /\ pc[c] = "held"
    /\ conn' = [conn EXCEPT ![c] = "midway"]
    /\ pc' = [pc EXCEPT ![c] = "running"]
    /\ UNCHANGED <<lane_vars, in_use, tickets, closed, ticket, discard>>

\* run_on condemns the connection and starts the operation.
Run(c) ==
    /\ pc[c] = "held"
    /\ discard' = [discard EXCEPT ![c] = TRUE]
    /\ conn' = [conn EXCEPT ![c] = "midway"]
    /\ pc' = [pc EXCEPT ![c] = "running"]
    /\ UNCHANGED <<lane_vars, in_use, tickets, closed, ticket>>

\* Mutant: a closed pool still parks.
GiveBackToParked(c, session, condemned) ==
    /\ in_use' = IF in_use > 0 THEN in_use - 1 ELSE 0
    /\ parked' = IF condemned THEN parked
                 ELSE [parked EXCEPT ![ticket[c].lane] = Append(@, session)]
    /\ Release(c)
    /\ conn' = [conn EXCEPT ![c] = "none"]
    /\ discard' = [discard EXCEPT ![c] = FALSE]
    /\ UNCHANGED <<tickets, closed>>

\* give_back, when a PooledSession is dropped.
GiveBack(c, session, condemned) ==
    /\ in_use' = IF in_use > 0 THEN in_use - 1 ELSE 0
    /\ parked' = IF condemned \/ closed THEN parked
                 ELSE [parked EXCEPT ![ticket[c].lane] = Append(@, session)]
    /\ Release(c)
    /\ conn' = [conn EXCEPT ![c] = "none"]
    /\ discard' = [discard EXCEPT ![c] = FALSE]
    /\ UNCHANGED <<tickets, closed>>

\* connect acquires a session and gives it straight back.
Probe(c) == pc[c] = "held" /\ GiveBack(c, conn[c], discard[c])

\* A success or a full refusal reprieves the connection ...
Finish(c) == pc[c] = "running" /\ GiveBack(c, "clean", FALSE)

\* ... a transient failure does not.
Fail(c) == pc[c] = "running" /\ GiveBack(c, conn[c], discard[c])

\* The caller's future is dropped at an await.  Only a PooledSession has a Drop
\* that gives anything back.
DropFuture(c) ==
    /\ pc[c] \in DropPoints
    /\ \/ /\ pc[c] = "running"
          /\ GiveBack(c, conn[c], discard[c])
       \/ /\ pc[c] # "running"
          /\ Leave(c)
          /\ UNCHANGED <<lane_vars, in_use, tickets, closed, session_vars>>

-----------------------------------------------------------------------------
(* The pool as a whole.                                                    *)

DropIdle ==
    /\ \E l \in Lanes : parked[l] # <<>>
    /\ parked' = [l \in Lanes |-> <<>>]
    /\ UNCHANGED <<permits, queue, in_use, tickets, closed, pc, ticket, session_vars>>

Close ==
    /\ ~closed
    /\ closed' = TRUE
    /\ parked' = [l \in Lanes |-> <<>>]
    /\ queue' = {}
    /\ UNCHANGED <<permits, in_use, tickets, pc, ticket, session_vars>>

\* On one thread, dropping the receiver and cancelling the ticket is one step.
Runs(c) == TimeoutGap \/ \A d \in Callers \ {c} : pc[d] # "gone"

\* What a caller does by itself, given a slot or a deadline.
CallerStep(c) ==
    /\ Runs(c)
    /\ \/ DropReceiver(c) \/ GiveUp(c) \/ WaitRefused(c)
       \/ UseSlot(c) \/ OpenFails(c) \/ OpenSucceeds(c)
       \/ Run(c) \/ Probe(c) \/ Finish(c) \/ Fail(c)

\* What happens to a caller.
CallerChoice(c) ==
    /\ Runs(c)
    /\ \/ \E w \in Work : Ask(c, w)
       \/ Elapse(c)
       \/ DropFuture(c)

Next ==
    \/ \E c \in Callers : CallerStep(c) \/ CallerChoice(c)
    \/ DropIdle
    \/ Close

Spec == Init /\ [][Next]_vars
FairSpec == Spec /\ \A c \in Callers : WF_vars(CallerStep(c))

-----------------------------------------------------------------------------
(* Properties.                                                             *)

PCs == {"idle", "waiting", "elapsed", "gone", "late", "granted", "owner",
        "opening", "held", "running"}

\* The types, and that a caller has a session exactly while it holds one.
TypeOK ==
    /\ permits \in [Lanes -> Nat]
    /\ parked \in [Lanes -> Seq({"clean", "midway"})]
    /\ queue \subseteq Ticket
    /\ in_use \in Nat
    /\ tickets \in Nat
    /\ closed \in BOOLEAN
    /\ pc \in [Callers -> PCs]
    /\ ticket \in [Callers -> Ticket]
    /\ \A c \in Callers : ticket[c].caller = c
    /\ conn \in [Callers -> {"none", "clean", "midway"}]
    /\ discard \in [Callers -> BOOLEAN]
    /\ \A c \in Callers : conn[c] # "none" <=> pc[c] \in {"held", "running"}

\* No wake-up is lost (release_permit): while somebody waits in a lane, none of
\* its slots is free, whatever timed out or was dropped ahead of it.
NoIdleSlot == \A l \in Lanes : permits[l] > 0 => Live(l) = {}

\* "Servers cap how many connections one account may hold open" (the module's
\* documentation): sockets parked, being opened and in use, of both lanes.
Sockets ==
    Len(parked["General"]) + Len(parked["Watch"])
    + Cardinality({c \in Callers : pc[c] \in {"opening", "held", "running"}})
ConnectionsBounded == Sockets <= Capacity

\* A session with half an exchange on it never waits for the next caller (run_on).
ParkedIsClean ==
    \A l \in Lanes : \A i \in DOMAIN parked[l] : parked[l][i] = "clean"

\* A closed pool holds nothing open but what its callers still use (close): not
\* what was being opened, run or given back when it closed.
ClosedParksNothing == closed => \A l \in Lanes : parked[l] = <<>>

\* Who waits is served in order (take_permit, release_permit): a caller comes by
\* a slot only when nobody of its lane waits ahead of it, and a newcomer only
\* when nobody waits at all.
ServedInOrder ==
    [][\A c \in Callers : ~Owns(c) /\ Owns(c)' =>
          \A t \in Live(ticket'[c].lane) :
             t = ticket[c] \/ (ticket[c] = ticket'[c] /\ Ahead(ticket[c], t))]_vars

\* Interactive work does not wait for ever (acquire_lane), even if its own clock
\* never runs out.  Background work has only its clock to rely on.
WaitEnds == \A c \in Callers :
    pc[c] = "waiting" /\ ticket[c].priority = "Interactive" ~> pc[c] # "waiting"

\* Once the pool is closed nobody is admitted, and the count of free slots (which
\* a wait that timed out across the close leaves one too high) is not read.
FreeSlots ==
    [l \in Lanes |-> IF closed THEN SlotsOf(l) - Cardinality(Owners(l)) ELSE permits[l]]

Semaphore == INSTANCE Slots WITH
    Users <- Callers,
    Kinds <- Lanes,
    Size <- [l \in Lanes |-> SlotsOf(l)],
    free <- FreeSlots,
    owners <- [l \in Lanes |-> Owners(l)]

\* Each lane is a counting semaphore: every slot is free or has one owner, and no
\* step loses or mints one.
IsSemaphore == Semaphore!Spec
=============================================================================

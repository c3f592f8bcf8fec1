------------------------ MODULE ConnectionPoolProofs ------------------------
(***************************************************************************)
(* Proofs about ConnectionPool, for every set of callers, every size of    *)
(* the pool and every bound.                                               *)
(***************************************************************************)
EXTENDS ConnectionPool, FiniteSetTheorems, SequenceTheorems, TLAPS

USE PoolAssumption

-----------------------------------------------------------------------------
(* Type correctness.                                                       *)

\* Lanes have a natural number of slots, and work has a lane and a priority.
LEMMA LaneTypes ==
    /\ \A l \in Lanes : SlotsOf(l) \in Nat
    /\ \A w \in Work : LaneFor(w) \in Lanes /\ PriorityFor(w) \in Priorities
    /\ \A c \in Callers : NoTicket(c) \in Ticket
BY DEF Lanes, SlotsOf, WatchSlots, Capacity, Work, LaneFor, PriorityFor, Priorities,
       NoTicket, Ticket

\* A released slot: the caller leaves, at most one waiter goes on, and nobody
\* else moves.
Moved(c) ==
    /\ pc' \in [Callers -> PCs]
    /\ pc'[c] = "idle"
    /\ \A d \in Callers \ {c} : \/ pc'[d] = pc[d]
                                \/ pc[d] = "waiting" /\ pc'[d] = "granted"
                                \/ pc[d] = "elapsed" /\ pc'[d] = "late"
    /\ ticket' = [ticket EXCEPT ![c] = NoTicket(c)]

LEMMA LeaveMoves ==
    ASSUME TypeOK, NEW c \in Callers, Leave(c)
    PROVE  Moved(c)
BY DEF Leave, Moved, TypeOK, PCs

LEMMA ReleaseMoves ==
    ASSUME TypeOK, NEW c \in Callers, ~Listening(c), Release(c)
    PROVE  /\ Moved(c)
           /\ permits' \in [Lanes -> Nat]
           /\ queue' \subseteq queue
<1>1. ticket[c].lane \in Lanes
  BY DEF TypeOK, Ticket
<1>2. CASE /\ queue' = {u \in queue : u.lane # ticket[c].lane}
           /\ permits' = [permits EXCEPT ![ticket[c].lane] = @ + 1]
           /\ Leave(c)
  BY <1>1, <1>2, LeaveMoves DEF TypeOK
<1>3. CASE \E t \in Live(ticket[c].lane) :
             /\ queue' = {u \in queue : u.lane = ticket[c].lane => Ahead(t, u)}
             /\ pc' = [pc EXCEPT ![c] = "idle", ![t.caller] = Woken(@)]
             /\ ticket' = [ticket EXCEPT ![c] = NoTicket(c)]
             /\ UNCHANGED permits
  <2>1. PICK t \in Live(ticket[c].lane) :
             /\ queue' = {u \in queue : u.lane = ticket[c].lane => Ahead(t, u)}
             /\ pc' = [pc EXCEPT ![c] = "idle", ![t.caller] = Woken(@)]
             /\ ticket' = [ticket EXCEPT ![c] = NoTicket(c)]
             /\ UNCHANGED permits
    BY <1>3
  <2>2. t.caller \in Callers /\ Listening(t.caller) /\ t.caller # c
    BY DEF Live, TypeOK, Ticket
  <2>3. Moved(c)
    BY <2>1, <2>2 DEF Moved, Woken, Listening, TypeOK, PCs
  <2> QED
    BY <2>1, <2>3 DEF TypeOK
<1> QED
  BY <1>2, <1>3 DEF Release

\* What giving back a connection leaves well typed.
LEMMA GiveBackType ==
    ASSUME TypeOK, NEW c \in Callers, pc[c] \in {"held", "running"},
           NEW s \in {"clean", "midway"}, NEW b \in BOOLEAN, GiveBack(c, s, b)
    PROVE  TypeOK'
<1>1. Moved(c) /\ permits' \in [Lanes -> Nat] /\ queue' \subseteq queue
  BY ReleaseMoves DEF GiveBack, Listening
<1>2. ticket[c].lane \in Lanes
  BY DEF TypeOK, Ticket
<1>3. parked' \in [Lanes -> Seq({"clean", "midway"})]
  BY <1>2 DEF GiveBack, TypeOK
<1>4. in_use' \in Nat
  BY DEF GiveBack, TypeOK
<1>5. ticket' \in [Callers -> Ticket] /\ \A d \in Callers : ticket'[d].caller = d
  BY <1>1, LaneTypes DEF Moved, TypeOK, NoTicket
<1>6. \A d \in Callers : conn'[d] # "none" <=> pc'[d] \in {"held", "running"}
  BY <1>1 DEF GiveBack, Moved, TypeOK
<1> QED
  BY <1>1, <1>3, <1>4, <1>5, <1>6 DEF GiveBack, TypeOK, Moved

\* Every step but a connection's return keeps the types.
LEMMA QuietType ==
    ASSUME TypeOK, NEW c \in Callers, pc[c] \notin {"held", "running"},
           Moved(c), permits' \in [Lanes -> Nat], queue' \subseteq queue,
           UNCHANGED <<parked, in_use, tickets, closed, session_vars>>
    PROVE  TypeOK'
<1>1. ticket' \in [Callers -> Ticket] /\ \A d \in Callers : ticket'[d].caller = d
  BY LaneTypes DEF Moved, TypeOK, NoTicket
<1>2. \A d \in Callers : conn'[d] # "none" <=> pc'[d] \in {"held", "running"}
  BY DEF Moved, TypeOK, session_vars
<1> QED
  BY <1>1, <1>2 DEF TypeOK, Moved, session_vars

LEMMA AskType ==
    ASSUME TypeOK, NEW c \in Callers, NEW w \in Work, Ask(c, w)
    PROVE  TypeOK'
<1> DEFINE t == [caller |-> c, lane |-> LaneFor(w), priority |-> PriorityFor(w),
                 number |-> tickets + 1]
<1>1. t \in Ticket /\ t.caller = c
  BY LaneTypes DEF Ticket, TypeOK
<1>2. ticket' = [ticket EXCEPT ![c] = t] /\ queue' \subseteq queue \cup {t}
  BY DEF Ask
<1>3. ticket' \in [Callers -> Ticket] /\ \A d \in Callers : ticket'[d].caller = d
  BY <1>1, <1>2 DEF TypeOK
<1>4. permits' \in [Lanes -> Nat]
  <2>1. LaneFor(w) \in Lanes
    BY LaneTypes
  <2>2. \/ permits[LaneFor(w)] > 0 /\ permits' = [permits EXCEPT ![LaneFor(w)] = @ - 1]
        \/ permits' = permits
    BY DEF Ask
  <2> QED
    BY <2>1, <2>2 DEF TypeOK
<1>5. /\ pc' \in [Callers -> PCs]
      /\ \A d \in Callers : pc'[d] \in {"held", "running"} <=> pc[d] \in {"held", "running"}
  BY DEF Ask, TypeOK, PCs
<1>6. /\ UNCHANGED <<parked, in_use, closed, conn, discard>>
      /\ tickets' = tickets + 1
  BY DEF Ask, session_vars
<1>7. queue' \subseteq Ticket
  BY <1>1, <1>2 DEF TypeOK
<1> HIDE DEF t
<1> QED
  BY <1>3, <1>4, <1>5, <1>6, <1>7 DEF TypeOK

\* The steps that end without a slot, or with the slot passed on.
LEMMA WaitType ==
    ASSUME TypeOK, NEW c \in Callers,
           Elapse(c) \/ DropReceiver(c) \/ GiveUp(c) \/ WaitRefused(c)
    PROVE  TypeOK'
<1>1. CASE Elapse(c)
  BY <1>1 DEF Elapse, TypeOK, PCs, lane_vars, session_vars
<1>2. CASE DropReceiver(c)
  BY <1>2 DEF DropReceiver, TypeOK, PCs, lane_vars, session_vars
<1>3. CASE GiveUp(c)
  <2>1. Moved(c) /\ permits' \in [Lanes -> Nat] /\ queue' \subseteq queue
    <3>1. CASE Release(c)
      BY <1>3, <3>1, ReleaseMoves DEF GiveUp, Listening
    <3>2. CASE Leave(c) /\ queue' = queue \ {ticket[c]} /\ UNCHANGED permits
      BY <3>2, LeaveMoves DEF TypeOK
    <3> QED
      BY <1>3, <3>1, <3>2 DEF GiveUp
  <2> QED
    BY <1>3, <2>1, QuietType DEF GiveUp
<1>4. CASE WaitRefused(c)
  <2>1. Moved(c) /\ permits' \in [Lanes -> Nat] /\ queue' \subseteq queue
    BY <1>4, LeaveMoves DEF WaitRefused, TypeOK, lane_vars
  <2> QED
    BY <1>4, <2>1, QuietType DEF WaitRefused, lane_vars
<1> QED
  BY <1>1, <1>2, <1>3, <1>4

LEMMA NothingParked ==
    [l \in Lanes |-> <<>>] \in [Lanes -> Seq({"clean", "midway"})]
BY EmptySeq

\* Taking a parked session removes the newest and leaves the others as they were.
LEMMA NewestParked ==
    ASSUME NEW S, NEW p \in Seq(S), p # <<>>
    PROVE  /\ SubSeq(p, 1, Len(p) - 1) \in Seq(S)
           /\ Len(SubSeq(p, 1, Len(p) - 1)) = Len(p) - 1
           /\ \A i \in 1 .. Len(p) - 1 : SubSeq(p, 1, Len(p) - 1)[i] = p[i]
           /\ p[Len(p)] \in S
           /\ Len(p) \in Nat \ {0}
<1>1. Len(p) \in Nat \ {0}
  BY EmptySeq
<1>2. \A i \in 1 .. Len(p) : p[i] \in S
  BY ElementOfSeq
<1>3. \A i \in 1 .. Len(p) - 1 : p[i] \in S
  BY <1>1, <1>2
<1> DEFINE n == Len(p) - 1
<1>4. n \in Int /\ n >= 0 /\ n - 1 + 1 = n
  BY <1>1
<1> HIDE DEF n
<1>5. /\ SubSeq(p, 1, n) \in Seq(S)
      /\ Len(SubSeq(p, 1, n)) = IF 1 <= n THEN n - 1 + 1 ELSE 0
      /\ \A i \in 1 .. n - 1 + 1 : SubSeq(p, 1, n)[i] = p[1 + i - 1]
  <2>1. 1 \in Int /\ \A i \in 1 .. n : p[i] \in S
    BY <1>3 DEF n
  <2> QED
    BY <1>4, <2>1, SubSeqProperties, SMTT(30)
<1>6. Len(SubSeq(p, 1, n)) = n
  BY <1>4, <1>5
<1>7. \A i \in 1 .. n : SubSeq(p, 1, n)[i] = p[i]
  <2> SUFFICES ASSUME NEW i \in 1 .. n
               PROVE  SubSeq(p, 1, n)[i] = p[i]
    OBVIOUS
  <2>1. i \in 1 .. n - 1 + 1 /\ 1 + i - 1 = i
    BY <1>4
  <2> QED
    BY <1>5, <2>1
<1> QED
  BY <1>1, <1>2, <1>5, <1>6, <1>7 DEF n

LEMMA UseSlotType ==
    ASSUME TypeOK, NEW c \in Callers, UseSlot(c)
    PROVE  TypeOK'
<1>1. pc[c] \in {"granted", "owner"} /\ UNCHANGED <<tickets, closed, discard>>
  BY DEF UseSlot
<1>2. ticket[c].lane \in Lanes
  BY DEF TypeOK, Ticket
<1> DEFINE p == parked[ticket[c].lane]
<1>3. CASE Release(c) /\ UNCHANGED <<parked, in_use, conn>>
  <2>1. Moved(c) /\ permits' \in [Lanes -> Nat] /\ queue' \subseteq queue
    BY <1>1, <1>3, ReleaseMoves DEF Listening
  <2> QED
    BY <1>1, <1>3, <2>1, QuietType DEF session_vars
<1>4. CASE /\ p # <<>>
           /\ parked' = [parked EXCEPT ![ticket[c].lane] = SubSeq(p, 1, Len(p) - 1)]
           /\ conn' = [conn EXCEPT ![c] = p[Len(p)]]
           /\ in_use' = in_use + 1
           /\ pc' = [pc EXCEPT ![c] = "held"]
           /\ UNCHANGED <<permits, queue, ticket>>
  <2>1. p \in Seq({"clean", "midway"})
    BY <1>2 DEF TypeOK
  <2>2. /\ SubSeq(p, 1, Len(p) - 1) \in Seq({"clean", "midway"})
        /\ p[Len(p)] \in {"clean", "midway"}
    BY <1>4, <2>1, NewestParked
  <2> HIDE DEF p
  <2> QED
    BY <1>1, <1>2, <1>4, <2>2 DEF TypeOK, PCs
<1>5. CASE /\ parked' = [parked EXCEPT ![ticket[c].lane] = <<>>]
           /\ pc' = [pc EXCEPT ![c] = "opening"]
           /\ UNCHANGED <<permits, queue, in_use, conn, ticket>>
  BY <1>1, <1>2, <1>5 DEF TypeOK, PCs
<1> QED
  BY <1>3, <1>4, <1>5 DEF UseSlot

LEMMA SessionType ==
    ASSUME TypeOK, NEW c \in Callers,
           \/ OpenFails(c) \/ OpenSucceeds(c) \/ Run(c)
           \/ Probe(c) \/ Finish(c) \/ Fail(c) \/ DropFuture(c)
    PROVE  TypeOK'
<1>0. pc[c] \in {"held", "running"} => conn[c] \in {"clean", "midway"}
  BY DEF TypeOK
<1>1. CASE OpenFails(c)
  <2>1. Moved(c) /\ permits' \in [Lanes -> Nat] /\ queue' \subseteq queue
    BY <1>1, ReleaseMoves DEF OpenFails, Listening
  <2> QED
    BY <1>1, <2>1, QuietType DEF OpenFails
<1>2. CASE OpenSucceeds(c)
  BY <1>2 DEF OpenSucceeds, TypeOK, PCs, lane_vars
<1>3. CASE Run(c)
  BY <1>3 DEF Run, TypeOK, PCs, lane_vars
<1>4. CASE Probe(c)
  BY <1>0, <1>4, GiveBackType DEF Probe, TypeOK
<1>5. CASE Finish(c)
  BY <1>5, GiveBackType DEF Finish
<1>6. CASE Fail(c)
  BY <1>0, <1>6, GiveBackType DEF Fail, TypeOK
<1>7. CASE DropFuture(c)
  <2>1. CASE pc[c] = "running" /\ GiveBack(c, conn[c], discard[c])
    BY <1>0, <2>1, GiveBackType DEF TypeOK
  <2>2. CASE /\ pc[c] \in DropPoints \ {"running"} /\ Leave(c)
             /\ UNCHANGED <<lane_vars, in_use, tickets, closed, session_vars>>
    <3>1. Moved(c) /\ permits' \in [Lanes -> Nat] /\ queue' \subseteq queue
      BY <2>2, LeaveMoves DEF TypeOK, lane_vars
    <3> QED
      BY <2>2, <3>1, QuietType DEF Awaits, lane_vars
  <2> QED
    BY <1>7, <2>1, <2>2 DEF DropFuture
<1> QED
  BY <1>1, <1>2, <1>3, <1>4, <1>5, <1>6, <1>7

LEMMA StepType == TypeOK /\ [Next]_vars => TypeOK'
<1> SUFFICES ASSUME TypeOK, [Next]_vars PROVE TypeOK'
  OBVIOUS
<1>1. CASE \E c \in Callers : CallerStep(c)
  BY <1>1, WaitType, UseSlotType, SessionType DEF CallerStep
<1>2. CASE \E c \in Callers : CallerChoice(c)
  BY <1>2, AskType, WaitType, SessionType DEF CallerChoice
<1>3. CASE DropIdle \/ Close
  BY <1>3, NothingParked DEF DropIdle, Close, TypeOK, session_vars
<1>4. CASE UNCHANGED vars
  BY <1>4 DEF vars, TypeOK, lane_vars, session_vars
<1> QED
  BY <1>1, <1>2, <1>3, <1>4 DEF Next

LEMMA InitType == Init => TypeOK
<1> SUFFICES ASSUME Init PROVE TypeOK
  OBVIOUS
<1>1. permits \in [Lanes -> Nat]
  BY LaneTypes DEF Init
<1>2. ticket \in [Callers -> Ticket] /\ \A c \in Callers : ticket[c].caller = c
  BY LaneTypes DEF Init, NoTicket
<1>3. /\ pc \in [Callers -> PCs]
      /\ \A c \in Callers : pc[c] = "idle"
  BY DEF Init, PCs
<1>4. /\ conn \in [Callers -> {"none", "clean", "midway"}]
      /\ \A c \in Callers : conn[c] = "none"
  BY DEF Init
<1>5. /\ queue = {} /\ in_use = 0 /\ tickets = 0 /\ closed = FALSE
      /\ discard \in [Callers -> BOOLEAN]
      /\ parked \in [Lanes -> Seq({"clean", "midway"})]
  BY NothingParked DEF Init
<1> QED
  BY <1>1, <1>2, <1>3, <1>4, <1>5 DEF TypeOK

\* Permits, queue, counters and sessions stay well formed, and a caller has a
\* session exactly while it holds one, whatever is timed out, dropped or closed.
THEOREM TypeCorrect == Spec => []TypeOK
BY InitType, StepType, PTL DEF Spec

-----------------------------------------------------------------------------
(* No wake-up is lost.                                                     *)

\* A released slot is put back only if nobody listens in its lane, and nobody
\* starts to listen by it.
LEMMA ReleaseWakes ==
    ASSUME TypeOK, NoIdleSlot, NEW c \in Callers, ~Listening(c), Release(c)
    PROVE  NoIdleSlot'
<1>1. Moved(c) /\ queue' \subseteq queue
  BY ReleaseMoves
<1>2. ticket[c].lane \in Lanes
  BY DEF TypeOK, Ticket
<1>3. \A l \in Lanes : Live(l)' \subseteq Live(l)
  <2> SUFFICES ASSUME NEW l \in Lanes, NEW t \in Live(l)'
               PROVE  t \in Live(l)
    OBVIOUS
  <2>1. t \in queue /\ t.caller \in Callers /\ t.lane = l
    BY <1>1 DEF Live, TypeOK, Ticket
  <2>2. t.caller # c /\ Listening(t.caller) /\ ticket[t.caller] = t
    BY <1>1, <2>1 DEF Live, Moved, Listening, TypeOK
  <2> QED
    BY <2>1, <2>2 DEF Live
<1>4. \A l \in Lanes : permits'[l] > 0 => permits[l] > 0 \/ Live(l) = {}
  BY <1>2 DEF Release, TypeOK
<1> QED
  BY <1>3, <1>4 DEF NoIdleSlot

\* Nor does a step that frees no slot make somebody listen.
LEMMA QuietWakes ==
    ASSUME TypeOK, NoIdleSlot, UNCHANGED permits, queue' \subseteq queue,
           \A d \in Callers : Listening(d)' => Listening(d) /\ ticket'[d] = ticket[d]
    PROVE  NoIdleSlot'
<1>1. \A l \in Lanes : Live(l)' \subseteq Live(l)
  BY DEF Live, TypeOK, Ticket
<1> QED
  BY <1>1 DEF NoIdleSlot

LEMMA AskWakes ==
    ASSUME TypeOK, NoIdleSlot, NEW c \in Callers, NEW w \in Work, Ask(c, w)
    PROVE  NoIdleSlot'
<1> DEFINE t == [caller |-> c, lane |-> LaneFor(w), priority |-> PriorityFor(w),
                 number |-> tickets + 1]
<1>1. LaneFor(w) \in Lanes /\ t.caller = c /\ t.lane = LaneFor(w)
  BY LaneTypes
<1>2. ticket' = [ticket EXCEPT ![c] = t] /\ pc[c] = "idle"
  BY DEF Ask
<1>3. CASE /\ permits' = [permits EXCEPT ![LaneFor(w)] = @ - 1]
           /\ pc' = [pc EXCEPT ![c] = "owner"]
           /\ UNCHANGED queue
  <2>1. \A l \in Lanes : Live(l)' \subseteq Live(l)
    BY <1>2, <1>3 DEF Live, Listening, TypeOK, Ticket
  <2>2. \A l \in Lanes : permits'[l] > 0 => permits[l] > 0
    BY <1>1, <1>3 DEF TypeOK
  <2> QED
    BY <2>1, <2>2 DEF NoIdleSlot
<1>4. CASE /\ permits[LaneFor(w)] = 0
           /\ queue' = queue \cup {t}
           /\ pc' = [pc EXCEPT ![c] = "waiting"]
           /\ UNCHANGED permits
  <2>1. \A l \in Lanes \ {LaneFor(w)} : Live(l)' \subseteq Live(l)
    <3> SUFFICES ASSUME NEW l \in Lanes, l # LaneFor(w), NEW u \in Live(l)'
                 PROVE  u \in Live(l)
      OBVIOUS
    <3>1. u \in queue'  /\ u.lane = l /\ ticket'[u.caller] = u /\ Listening(u.caller)'
      BY DEF Live
    <3>2. u # t /\ u \in queue
      BY <1>1, <1>4, <3>1
    <3>3. u.caller \in Callers
      BY <3>2 DEF TypeOK, Ticket
    <3> HIDE DEF t
    <3>4. u.caller # c
      BY <1>2, <3>1, <3>2 DEF TypeOK
    <3> QED
      BY <1>2, <1>4, <3>1, <3>2, <3>3, <3>4 DEF Live, Listening, TypeOK
  <2> HIDE DEF t
  <2> QED
    BY <1>4, <2>1 DEF NoIdleSlot
<1> QED
  BY <1>3, <1>4 DEF Ask

LEMMA StepWakes == TypeOK /\ NoIdleSlot /\ [Next]_vars => NoIdleSlot'
<1> SUFFICES ASSUME TypeOK, NoIdleSlot, [Next]_vars PROVE NoIdleSlot'
  OBVIOUS
<1>1. ASSUME NEW c \in Callers, CallerStep(c) PROVE NoIdleSlot'
  <2>1. CASE DropReceiver(c)
    BY <2>1, QuietWakes DEF DropReceiver, Listening, TypeOK, lane_vars
  <2>2. CASE GiveUp(c)
    <3>1. CASE Release(c)
      BY <2>2, <3>1, ReleaseWakes DEF GiveUp, Listening
    <3>2. CASE queue' = queue \ {ticket[c]} /\ Leave(c) /\ UNCHANGED permits
      BY <3>2, QuietWakes DEF Leave, Listening, TypeOK
    <3> QED
      BY <2>2, <3>1, <3>2 DEF GiveUp
  <2>3. CASE WaitRefused(c)
    BY <2>3, QuietWakes DEF WaitRefused, Leave, Listening, TypeOK, lane_vars
  <2>4. CASE UseSlot(c)
    <3>1. CASE Release(c)
      BY <2>4, <3>1, ReleaseWakes DEF UseSlot, Listening
    <3>2. CASE /\ pc' = [pc EXCEPT ![c] = "held"] \/ pc' = [pc EXCEPT ![c] = "opening"]
               /\ UNCHANGED <<permits, queue, ticket>>
      BY <3>2, QuietWakes DEF Listening, TypeOK
    <3> QED
      BY <2>4, <3>1, <3>2 DEF UseSlot
  <2>5. CASE OpenFails(c)
    BY <2>5, ReleaseWakes DEF OpenFails, Listening
  <2>6. CASE OpenSucceeds(c) \/ Run(c)
    BY <2>6, QuietWakes DEF OpenSucceeds, Run, Listening, TypeOK, lane_vars
  <2>7. CASE Probe(c) \/ Finish(c) \/ Fail(c)
    BY <2>7, ReleaseWakes DEF Probe, Finish, Fail, GiveBack, Listening
  <2> QED
    BY <1>1, <2>1, <2>2, <2>3, <2>4, <2>5, <2>6, <2>7 DEF CallerStep
<1>2. ASSUME NEW c \in Callers, CallerChoice(c) PROVE NoIdleSlot'
  <2>1. CASE Elapse(c)
    BY <2>1, QuietWakes DEF Elapse, Listening, TypeOK, lane_vars
  <2>2. CASE DropFuture(c)
    <3>1. CASE pc[c] = "running" /\ GiveBack(c, conn[c], discard[c])
      BY <3>1, ReleaseWakes DEF GiveBack, Listening
    <3>2. CASE Leave(c) /\ UNCHANGED lane_vars
      BY <3>2, QuietWakes DEF Leave, Listening, TypeOK, lane_vars
    <3> QED
      BY <2>2, <3>1, <3>2 DEF DropFuture
  <2> QED
    BY <1>2, <2>1, <2>2, AskWakes DEF CallerChoice
<1>3. CASE DropIdle \/ Close
  <2>1. UNCHANGED <<permits, pc, ticket>> /\ queue' \subseteq queue
    BY <1>3 DEF DropIdle, Close
  <2> QED
    BY <2>1, QuietWakes DEF Listening
<1>4. CASE UNCHANGED vars
  BY <1>4, QuietWakes DEF vars, lane_vars, Listening
<1> QED
  BY <1>1, <1>2, <1>3, <1>4 DEF Next

\* However callers time out, are dropped at any await or race each other on any
\* number of threads, no slot is free while somebody of its lane waits.
THEOREM NoLostWakeUp == Spec => []NoIdleSlot
<1>1. Init => NoIdleSlot
  BY DEF Init, NoIdleSlot, Live
<1> QED
  BY <1>1, InitType, StepType, StepWakes, PTL DEF Spec

-----------------------------------------------------------------------------
(* What is parked.                                                         *)

\* What keeps half-read sessions out of the pool is that they are condemned.
MidwayIsCondemned == \A c \in Callers : conn[c] = "midway" => discard[c]
ParkingInv == ParkedIsClean /\ MidwayIsCondemned /\ ClosedParksNothing

LEMMA AppendClean ==
    ASSUME NEW p \in Seq({"clean", "midway"}), \A i \in DOMAIN p : p[i] = "clean"
    PROVE  \A i \in DOMAIN Append(p, "clean") : Append(p, "clean")[i] = "clean"
<1>1. /\ Append(p, "clean") \in Seq({"clean", "midway"})
      /\ Len(Append(p, "clean")) = Len(p) + 1
      /\ \A i \in 1 .. Len(p) : Append(p, "clean")[i] = p[i]
      /\ Append(p, "clean")[Len(p) + 1] = "clean"
  BY AppendProperties
<1>2. DOMAIN p = 1 .. Len(p) /\ Len(p) \in Nat
  BY LenProperties
<1>3. DOMAIN Append(p, "clean") = 1 .. Len(p) + 1
  BY <1>1, LenProperties
<1> QED
  BY <1>1, <1>2, <1>3

LEMMA GiveBackParks ==
    ASSUME TypeOK, ParkingInv, NEW c \in Callers, NEW s, NEW b \in BOOLEAN,
           s = "clean" \/ b, GiveBack(c, s, b)
    PROVE  ParkingInv'
<1>1. ticket[c].lane \in Lanes
  BY DEF TypeOK, Ticket
<1>2. MidwayIsCondemned'
  BY DEF ParkingInv, MidwayIsCondemned, GiveBack, TypeOK
<1>3. CASE b \/ closed
  <2>1. parked' = parked /\ closed' = closed
    BY <1>3 DEF GiveBack
  <2> QED
    BY <1>2, <2>1 DEF ParkingInv, ParkedIsClean, ClosedParksNothing
<1>4. CASE ~b /\ ~closed
  <2>1. parked' = [parked EXCEPT ![ticket[c].lane] = Append(@, "clean")] /\ closed' = closed
    BY <1>4 DEF GiveBack
  <2>2. ParkedIsClean'
    <3> SUFFICES ASSUME NEW l \in Lanes
                 PROVE  \A i \in DOMAIN parked'[l] : parked'[l][i] = "clean"
      BY DEF ParkedIsClean
    <3>1. /\ parked[l] \in Seq({"clean", "midway"})
          /\ \A i \in DOMAIN parked[l] : parked[l][i] = "clean"
      BY DEF ParkingInv, ParkedIsClean, TypeOK
    <3>2. parked'[l] = parked[l] \/ parked'[l] = Append(parked[l], "clean")
      BY <1>1, <2>1 DEF TypeOK
    <3> QED
      BY <3>1, <3>2, AppendClean
  <2> QED
    BY <1>2, <1>4, <2>1, <2>2 DEF ParkingInv, ClosedParksNothing
<1> QED
  BY <1>3, <1>4

LEMMA EmptyIsClean ==
    ASSUME parked' = [l \in Lanes |-> <<>>], MidwayIsCondemned,
           UNCHANGED session_vars
    PROVE  ParkingInv'
BY DEF ParkingInv, ParkedIsClean, ClosedParksNothing, MidwayIsCondemned, session_vars

LEMMA UseSlotParks ==
    ASSUME TypeOK, ParkingInv, NEW c \in Callers, UseSlot(c)
    PROVE  ParkingInv'
<1>1. ticket[c].lane \in Lanes /\ UNCHANGED <<closed, discard>>
  BY DEF UseSlot, TypeOK, Ticket
<1> DEFINE p == parked[ticket[c].lane]
<1>2. CASE UNCHANGED <<parked, conn>>
  BY <1>1, <1>2 DEF ParkingInv, ParkedIsClean, ClosedParksNothing, MidwayIsCondemned
<1>3. CASE /\ ~closed
           /\ p # <<>>
           /\ parked' = [parked EXCEPT ![ticket[c].lane] = SubSeq(p, 1, Len(p) - 1)]
           /\ conn' = [conn EXCEPT ![c] = p[Len(p)]]
  <2>1. p \in Seq({"clean", "midway"}) /\ \A i \in DOMAIN p : p[i] = "clean"
    BY <1>1 DEF ParkingInv, ParkedIsClean, TypeOK
  <2>2. DOMAIN p = 1 .. Len(p)
    BY <2>1, LenProperties
  <2> DEFINE q == SubSeq(p, 1, Len(p) - 1)
  <2>3. /\ q \in Seq({"clean", "midway"}) /\ Len(q) = Len(p) - 1
        /\ \A i \in 1 .. Len(p) - 1 : q[i] = p[i]
        /\ Len(p) \in Nat \ {0}
    BY <1>3, <2>1, NewestParked
  <2>4. DOMAIN q = 1 .. Len(p) - 1
    BY <2>3, LenProperties
  <2>5. p[Len(p)] = "clean" /\ \A i \in DOMAIN q : q[i] = "clean"
    BY <2>1, <2>2, <2>3, <2>4
  <2> HIDE DEF p, q
  <2>6. ParkedIsClean'
    BY <1>1, <1>3, <2>5 DEF ParkingInv, ParkedIsClean, TypeOK, q
  <2>7. MidwayIsCondemned'
    BY <1>1, <1>3, <2>5 DEF ParkingInv, MidwayIsCondemned, TypeOK
  <2> QED
    BY <1>1, <1>3, <2>6, <2>7 DEF ParkingInv, ClosedParksNothing
<1>4. CASE /\ ~closed
           /\ parked' = [parked EXCEPT ![ticket[c].lane] = <<>>]
           /\ UNCHANGED conn
  BY <1>1, <1>4 DEF ParkingInv, ParkedIsClean, ClosedParksNothing, MidwayIsCondemned, TypeOK
<1> QED
  BY <1>2, <1>3, <1>4 DEF UseSlot

LEMMA StepParks == TypeOK /\ ParkingInv /\ [Next]_vars => ParkingInv'
<1> SUFFICES ASSUME TypeOK, ParkingInv, [Next]_vars PROVE ParkingInv'
  OBVIOUS
<1>0. ASSUME UNCHANGED <<parked, closed, conn, discard>> PROVE ParkingInv'
  BY <1>0 DEF ParkingInv, ParkedIsClean, ClosedParksNothing, MidwayIsCondemned
<1>1. ASSUME NEW c \in Callers, GiveBack(c, conn[c], discard[c]), conn[c] # "none"
      PROVE  ParkingInv'
  <2>1. conn[c] = "clean" \/ discard[c]
    BY <1>1 DEF ParkingInv, MidwayIsCondemned, TypeOK
  <2> QED
    BY <1>1, <2>1, GiveBackParks DEF TypeOK
<1>2. ASSUME NEW c \in Callers, CallerStep(c) PROVE ParkingInv'
  <2>1. CASE DropReceiver(c) \/ GiveUp(c) \/ WaitRefused(c) \/ OpenFails(c)
    BY <1>0, <2>1 DEF DropReceiver, GiveUp, WaitRefused, OpenFails, lane_vars, session_vars
  <2>2. CASE OpenSucceeds(c) \/ Run(c)
    BY <2>2, SMTT(40) DEF OpenSucceeds, Run, lane_vars, ParkingInv, ParkedIsClean,
                ClosedParksNothing, MidwayIsCondemned, TypeOK
  <2>3. CASE Probe(c) \/ Fail(c)
    BY <1>1, <2>3 DEF Probe, Fail, TypeOK
  <2>4. CASE Finish(c)
    BY <2>4, GiveBackParks DEF Finish
  <2> QED
    BY <1>2, <2>1, <2>2, <2>3, <2>4, UseSlotParks DEF CallerStep
<1>3. ASSUME NEW c \in Callers, CallerChoice(c) PROVE ParkingInv'
  <2>1. CASE \E w \in Work : Ask(c, w)
    BY <1>0, <2>1 DEF Ask, session_vars
  <2>2. CASE Elapse(c)
    BY <1>0, <2>2 DEF Elapse, lane_vars, session_vars
  <2>3. CASE DropFuture(c)
    BY <1>0, <1>1, <2>3 DEF DropFuture, TypeOK, lane_vars, session_vars
  <2> QED
    BY <1>3, <2>1, <2>2, <2>3 DEF CallerChoice
<1>4. CASE DropIdle \/ Close
  BY <1>4, EmptyIsClean DEF DropIdle, Close, ParkingInv
<1>5. CASE UNCHANGED vars
  BY <1>0, <1>5 DEF vars, lane_vars, session_vars
<1> QED
  BY <1>2, <1>3, <1>4, <1>5 DEF Next

LEMMA ParkingInvariant == Spec => []ParkingInv
<1>1. Init => ParkingInv
  BY DEF Init, ParkingInv, ParkedIsClean, ClosedParksNothing, MidwayIsCondemned
<1> QED
  BY <1>1, InitType, StepType, StepParks, PTL DEF Spec

\* A session whose exchange stopped halfway (failed, or its caller dropped) is
\* never parked for the next caller.
THEOREM OnlyCleanParked == Spec => []ParkedIsClean
<1>1. ParkingInv => ParkedIsClean
  BY DEF ParkingInv
<1> QED
  BY <1>1, ParkingInvariant, PTL

\* A closed pool keeps no session for anybody, however late the last one returns.
THEOREM ClosedHoldsNothing == Spec => []ClosedParksNothing
<1>1. ParkingInv => ClosedParksNothing
  BY DEF ParkingInv
<1> QED
  BY <1>1, ParkingInvariant, PTL

-----------------------------------------------------------------------------
(* Each lane is a counting semaphore, when callers share a thread and their *)
(* futures are dropped only where a slot cannot be lost.                    *)

Careful == ~TimeoutGap /\ DropPoints \cap {"granted", "opening"} = {}

\* Who owns a slot is not queued for one; until the pool closes, who waits is.
QueueInv ==
    /\ \A t \in queue : t.number <= tickets
    /\ closed => queue = {}
    /\ \A c \in Callers : Owns(c) => ticket[c] \notin queue
    /\ ~closed => \A c \in Callers :
          pc[c] \in {"waiting", "elapsed", "gone"} => ticket[c] \in queue

SlotsCounted ==
    ~closed => \A l \in Lanes : permits[l] + Cardinality(Owners(l)) = SlotsOf(l)

SlotInv == TypeOK /\ QueueInv /\ SlotsCounted

\* A lane's owners become S, the other lane keeps its own.
OwnersBecome(l, S) ==
    \A k \in Lanes : Owners(k)' = IF k = l THEN S ELSE Owners(k)

\* What a step can do to the slots of an open pool, and to their owners.
Kept == (\A l \in Lanes : Owners(l)' = Owners(l)) /\ (~closed' => UNCHANGED permits)
Taken == \E l \in Lanes, c \in Callers :
    /\ ~closed /\ permits[l] > 0 /\ c \notin Owners(l)
    /\ OwnersBecome(l, Owners(l) \cup {c})
    /\ permits' = [permits EXCEPT ![l] = @ - 1]
Returned == \E l \in Lanes, c \in Callers :
    /\ c \in Owners(l)
    /\ OwnersBecome(l, Owners(l) \ {c})
    /\ ~closed' => permits' = [permits EXCEPT ![l] = @ + 1]
Passed == \E l \in Lanes, c \in Callers, d \in Callers :
    /\ c \in Owners(l) /\ d \notin Owners(l)
    /\ OwnersBecome(l, (Owners(l) \ {c}) \cup {d})
    /\ UNCHANGED permits
SlotStep == (closed => closed') /\ (Kept \/ Taken \/ Returned \/ Passed)

LEMMA OwnersFinite ==
    \A l \in Lanes : IsFiniteSet(Owners(l)) /\ Cardinality(Owners(l)) \in Nat
BY FS_Subset, FS_CardinalityType DEF Owners

\* The count is kept by every such step.
LEMMA CountKept ==
    ASSUME SlotInv, SlotStep
    PROVE  SlotsCounted'
<1> SUFFICES ASSUME ~closed', NEW k \in Lanes
             PROVE  permits'[k] + Cardinality(Owners(k)') = SlotsOf(k)
  BY DEF SlotsCounted
<1>1. /\ ~closed
      /\ permits \in [Lanes -> Nat]
      /\ permits[k] + Cardinality(Owners(k)) = SlotsOf(k)
      /\ IsFiniteSet(Owners(k)) /\ Cardinality(Owners(k)) \in Nat
  BY OwnersFinite DEF SlotInv, SlotStep, SlotsCounted, TypeOK
<1>2. CASE Kept
  BY <1>1, <1>2 DEF Kept
<1>3. CASE Taken
  <2>1. PICK l \in Lanes, c \in Callers :
            /\ permits[l] > 0 /\ c \notin Owners(l)
            /\ OwnersBecome(l, Owners(l) \cup {c})
            /\ permits' = [permits EXCEPT ![l] = @ - 1]
    BY <1>3 DEF Taken
  <2>2. Owners(k)' = IF k = l THEN Owners(l) \cup {c} ELSE Owners(k)
    BY <2>1 DEF OwnersBecome
  <2>3. k = l => Cardinality(Owners(k) \cup {c}) = Cardinality(Owners(k)) + 1
    BY <1>1, <2>1, FS_AddElement
  <2>4. permits'[k] = IF k = l THEN permits[k] - 1 ELSE permits[k]
    BY <1>1, <2>1
  <2>5. CASE k = l
    <3>1. Owners(k)' = Owners(k) \cup {c}
      BY <2>2, <2>5
    <3> QED
      BY <1>1, <2>3, <2>4, <2>5, <3>1
  <2>6. CASE k # l
    BY <1>1, <2>2, <2>4, <2>6
  <2> QED
    BY <2>5, <2>6
<1>4. CASE Returned
  <2>1. PICK l \in Lanes, c \in Callers :
            /\ c \in Owners(l)
            /\ OwnersBecome(l, Owners(l) \ {c})
            /\ permits' = [permits EXCEPT ![l] = @ + 1]
    BY <1>4 DEF Returned
  <2>2. Owners(k)' = IF k = l THEN Owners(l) \ {c} ELSE Owners(k)
    BY <2>1 DEF OwnersBecome
  <2>3. k = l => Cardinality(Owners(k) \ {c}) = Cardinality(Owners(k)) - 1
    BY <1>1, <2>1, FS_RemoveElement
  <2>4. permits'[k] = IF k = l THEN permits[k] + 1 ELSE permits[k]
    BY <1>1, <2>1
  <2>5. CASE k = l
    <3>1. Owners(k)' = Owners(k) \ {c}
      BY <2>2, <2>5
    <3> QED
      BY <1>1, <2>3, <2>4, <2>5, <3>1
  <2>6. CASE k # l
    BY <1>1, <2>2, <2>4, <2>6
  <2> QED
    BY <2>5, <2>6
<1>5. CASE Passed
  <2>1. PICK l \in Lanes, c \in Callers, d \in Callers :
            /\ c \in Owners(l) /\ d \notin Owners(l)
            /\ OwnersBecome(l, (Owners(l) \ {c}) \cup {d})
            /\ UNCHANGED permits
    BY <1>5 DEF Passed
  <2>2. Owners(k)' = IF k = l THEN (Owners(l) \ {c}) \cup {d} ELSE Owners(k)
    BY <2>1 DEF OwnersBecome
  <2>3. k = l => /\ IsFiniteSet(Owners(k) \ {c})
                 /\ Cardinality(Owners(k) \ {c}) = Cardinality(Owners(k)) - 1
    BY <1>1, <2>1, FS_RemoveElement
  <2>4. k = l => Cardinality((Owners(k) \ {c}) \cup {d}) = Cardinality(Owners(k) \ {c}) + 1
    BY <2>1, <2>3, FS_AddElement
  <2>5. CASE k = l
    <3>1. Owners(k)' = (Owners(k) \ {c}) \cup {d}
      BY <2>2, <2>5
    <3> QED
      BY <1>1, <2>1, <2>3, <2>4, <2>5, <3>1
  <2>6. CASE k # l
    BY <1>1, <2>1, <2>2, <2>6
  <2> QED
    BY <2>5, <2>6
<1> QED
  BY <1>2, <1>3, <1>4, <1>5 DEF SlotStep

\* A caller that leaves takes its own slot out of the owners, and nothing else.
LEMMA LeaverOwners ==
    ASSUME TypeOK, NEW c \in Callers, Owns(c), Leave(c)
    PROVE  OwnersBecome(ticket[c].lane, Owners(ticket[c].lane) \ {c})
BY DEF OwnersBecome, Owners, Owns, Leave, TypeOK

\* Releasing an owned slot returns it or passes it on, and every caller that
\* still waits is still queued.
LEMMA ReleaseStep ==
    ASSUME SlotInv, Careful, NEW c \in Callers, Runs(c), Owns(c), Release(c),
           UNCHANGED <<tickets, closed>>
    PROVE  SlotStep /\ QueueInv'
<1> DEFINE l == ticket[c].lane
<1>0. /\ TypeOK /\ QueueInv /\ l \in Lanes /\ c \in Owners(l)
      /\ ~Listening(c) /\ \A d \in Callers \ {c} : pc[d] # "gone"
  BY DEF SlotInv, TypeOK, Ticket, Owners, Careful, Runs, Owns, Listening
<1>1. Moved(c) /\ queue' \subseteq queue
  BY <1>0, ReleaseMoves
<1>2. CASE /\ Live(l) = {}
           /\ queue' = {u \in queue : u.lane # l}
           /\ permits' = [permits EXCEPT ![l] = @ + 1]
           /\ Leave(c)
  <2>1. Returned
    BY <1>0, <1>2, LeaverOwners DEF Returned
  <2>2. ASSUME NEW d \in Callers, Owns(d)' PROVE ticket'[d] \notin queue'
    BY <1>0, <1>1, <1>2, <2>2 DEF Owns, QueueInv, Leave, TypeOK
  <2>3. ASSUME ~closed, NEW d \in Callers, pc'[d] \in {"waiting", "elapsed", "gone"}
        PROVE  ticket'[d] \in queue'
    <3>1. d # c /\ pc[d] = pc'[d] /\ ticket'[d] = ticket[d] /\ Listening(d)
      BY <1>0, <1>1, <2>3 DEF Moved, Listening, TypeOK
    <3>2. ticket[d] \in queue /\ ticket[d].caller = d
      BY <1>0, <2>3, <3>1 DEF QueueInv, TypeOK
    <3>3. ticket[d].lane # l
      BY <1>2, <3>1, <3>2 DEF Live
    <3> QED
      BY <1>2, <3>1, <3>2, <3>3
  <2> QED
    BY <1>0, <1>1, <2>1, <2>2, <2>3 DEF SlotStep, QueueInv
<1>3. CASE \E t \in Live(l) :
             /\ \A u \in Live(l) \ {t} : Ahead(t, u)
             /\ queue' = {u \in queue : u.lane = l => Ahead(t, u)}
             /\ pc' = [pc EXCEPT ![c] = "idle", ![t.caller] = Woken(@)]
             /\ ticket' = [ticket EXCEPT ![c] = NoTicket(c)]
             /\ UNCHANGED permits
  <2>1. PICK t \in Live(l) :
             /\ \A u \in Live(l) \ {t} : Ahead(t, u)
             /\ queue' = {u \in queue : u.lane = l => Ahead(t, u)}
             /\ pc' = [pc EXCEPT ![c] = "idle", ![t.caller] = Woken(@)]
             /\ ticket' = [ticket EXCEPT ![c] = NoTicket(c)]
             /\ UNCHANGED permits
    BY <1>3
  <2> DEFINE w == t.caller
  <2>2. /\ t \in Ticket /\ t.lane = l /\ w \in Callers /\ Listening(w)
        /\ ticket[w] = t /\ w # c
    BY <1>0 DEF Live, TypeOK, Ticket
  <2>3. t \notin queue'
    BY <2>1, <2>2 DEF Ahead, Ticket
  <2>4. /\ pc'[w] \in {"granted", "late"} /\ pc'[c] = "idle"
        /\ \A d \in Callers \ {c, w} : pc'[d] = pc[d]
        /\ \A d \in Callers \ {c} : ticket'[d] = ticket[d]
    BY <2>1, <2>2 DEF Woken, Listening, TypeOK, SlotInv
  <2> HIDE DEF l, w
  <2>5. Passed
    <3>1. w \notin Owners(l)
      BY <2>2 DEF Owners, Owns, Listening
    <3>2. OwnersBecome(l, (Owners(l) \ {c}) \cup {w})
      <4> SUFFICES ASSUME NEW k \in Lanes, NEW d \in Callers
                   PROVE  (Owns(d)' /\ ticket'[d].lane = k)
                            <=> d \in IF k = l THEN (Owners(l) \ {c}) \cup {w} ELSE Owners(k)
        <5> SUFFICES ASSUME NEW k \in Lanes
                     PROVE  Owners(k)' = IF k = l THEN (Owners(l) \ {c}) \cup {w} ELSE Owners(k)
          BY DEF OwnersBecome
        <5> QED
          BY <2>2 DEF Owners
      <4>1. CASE d = c
        BY <1>0, <2>2, <2>4, <4>1 DEF Owners, Owns, l
      <4>2. CASE d = w
        BY <2>2, <2>4, <3>1, <4>2 DEF Owners, Owns, Listening, l
      <4>3. CASE d # c /\ d # w
        BY <2>4, <4>3 DEF Owners, Owns
      <4> QED
        BY <4>1, <4>2, <4>3
    <3> QED
      BY <1>0, <2>1, <2>2, <3>1, <3>2 DEF Passed
  <2>6. ASSUME NEW d \in Callers, Owns(d)' PROVE ticket'[d] \notin queue'
    <3>1. CASE d = w
      BY <2>2, <2>3, <2>4, <3>1
    <3>2. CASE d # w
      BY <1>0, <1>1, <2>4, <2>6, <3>2 DEF Owns, QueueInv
    <3> QED
      BY <3>1, <3>2
  <2>7. ASSUME ~closed, NEW d \in Callers, pc'[d] \in {"waiting", "elapsed", "gone"}
        PROVE  ticket'[d] \in queue'
    <3>1. d # c /\ d # w /\ pc[d] = pc'[d] /\ ticket'[d] = ticket[d] /\ Listening(d)
      BY <1>0, <2>4, <2>7 DEF Listening
    <3>2. ticket[d] \in queue /\ ticket[d].caller = d
      BY <1>0, <2>7, <3>1 DEF QueueInv, TypeOK
    <3>3. ticket[d].lane = l => Ahead(t, ticket[d])
      BY <2>1, <2>2, <3>1, <3>2 DEF Live, w
    <3> QED
      BY <2>1, <3>1, <3>2, <3>3
  <2> QED
    BY <1>0, <1>1, <2>5, <2>6, <2>7 DEF SlotStep, QueueInv
<1> QED
  BY <1>2, <1>3 DEF Release

\* A step that moves nobody into or out of a slot, and nobody into the queue.
LEMMA QuietSlots ==
    ASSUME SlotInv, UNCHANGED <<permits, queue, tickets, closed>>,
           \A c \in Callers :
              \/ ticket'[c] = ticket[c] /\ pc'[c] = pc[c]
              \/ ticket'[c] = ticket[c] /\ Owns(c) /\ Owns(c)'
              \/ ticket'[c] = ticket[c] /\ ~Owns(c) /\ ~Owns(c)' /\ pc[c] \in {"waiting", "elapsed"}
              \/ ~Owns(c) /\ pc'[c] = "idle"
    PROVE  SlotStep /\ QueueInv'
<1>1. ASSUME NEW c \in Callers PROVE (Owns(c)' <=> Owns(c)) /\ (Owns(c) => ticket'[c] = ticket[c])
  BY <1>1 DEF Owns
<1>2. Kept
  <2> SUFFICES ASSUME NEW l \in Lanes PROVE Owners(l)' = Owners(l)
    BY DEF Kept
  <2> QED
    BY <1>1 DEF Owners
<1>3. ASSUME NEW c \in Callers, pc'[c] \in {"waiting", "elapsed", "gone"}
      PROVE  pc[c] \in {"waiting", "elapsed", "gone"} /\ ticket'[c] = ticket[c]
  BY <1>3 DEF Owns
<1> QED
  BY <1>1, <1>2, <1>3 DEF SlotStep, QueueInv, SlotInv

LEMMA AskStep ==
    ASSUME SlotInv, NEW c \in Callers, NEW w \in Work, Ask(c, w)
    PROVE  SlotStep /\ QueueInv'
<1> DEFINE l == LaneFor(w)
           t == [caller |-> c, lane |-> l, priority |-> PriorityFor(w), number |-> tickets + 1]
<1>1. /\ TypeOK /\ QueueInv /\ l \in Lanes
      /\ t.caller = c /\ t.lane = l /\ t.number = tickets + 1
  BY LaneTypes DEF SlotInv
<1>2. /\ pc[c] = "idle" /\ ~closed /\ tickets' = tickets + 1 /\ closed' = closed
      /\ ticket' = [ticket EXCEPT ![c] = t]
  BY DEF Ask
<1>3. t \notin queue
  BY <1>1 DEF QueueInv, TypeOK, Ticket
<1> HIDE DEF t
<1>4. /\ ticket'[c] = t /\ \A d \in Callers \ {c} : ticket'[d] = ticket[d] /\ ticket[d] # t
      /\ \A u \in queue : u.number <= tickets'
  BY <1>1, <1>2 DEF TypeOK, Ticket, QueueInv
<1>5. CASE /\ permits[l] > 0
           /\ permits' = [permits EXCEPT ![l] = @ - 1]
           /\ pc' = [pc EXCEPT ![c] = "owner"]
           /\ UNCHANGED queue
  <2>1. OwnersBecome(l, Owners(l) \cup {c}) /\ c \notin Owners(l)
    BY <1>1, <1>2, <1>4, <1>5 DEF OwnersBecome, Owners, Owns, TypeOK
  <2>2. Taken
    BY <1>1, <1>2, <1>5, <2>1 DEF Taken
  <2>3. QueueInv'
    BY <1>1, <1>2, <1>3, <1>4, <1>5 DEF QueueInv, Owns, TypeOK
  <2> QED
    BY <1>2, <2>2, <2>3 DEF SlotStep
<1>6. CASE /\ queue' = queue \cup {t}
           /\ pc' = [pc EXCEPT ![c] = "waiting"]
           /\ UNCHANGED permits
  <2>1. \A k \in Lanes : Owners(k)' = Owners(k)
    BY <1>1, <1>2, <1>4, <1>6 DEF Owners, Owns, TypeOK
  <2>2. QueueInv'
    BY <1>1, <1>2, <1>4, <1>6 DEF QueueInv, Owns, TypeOK
  <2> QED
    BY <1>2, <1>6, <2>1, <2>2 DEF SlotStep, Kept
<1> QED
  BY <1>5, <1>6 DEF Ask, t

LEMMA GiveUpStep ==
    ASSUME SlotInv, Careful, NEW c \in Callers, Runs(c), GiveUp(c)
    PROVE  SlotStep /\ QueueInv'
<1>1. TypeOK /\ QueueInv /\ UNCHANGED <<tickets, closed>> /\ pc[c] \in {"late", "gone"}
  BY DEF SlotInv, GiveUp
<1>2. CASE pc[c] = "late"
  <2>1. Owns(c) /\ Release(c)
    BY <1>1, <1>2 DEF GiveUp, Owns, QueueInv
  <2> QED
    BY <1>1, <2>1, ReleaseStep
<1>3. CASE pc[c] = "gone" /\ ticket[c] \in queue
  <2>1. queue' = queue \ {ticket[c]} /\ Leave(c) /\ UNCHANGED permits
    BY <1>3 DEF GiveUp
  <2>2. \A l \in Lanes : Owners(l)' = Owners(l)
    BY <1>1, <1>3, <2>1 DEF Owners, Owns, Leave, TypeOK
  <2>3. QueueInv'
    BY <1>1, <1>3, <2>1 DEF QueueInv, Owns, Leave, TypeOK
  <2> QED
    BY <1>1, <2>1, <2>2, <2>3 DEF SlotStep, Kept
<1>4. CASE pc[c] = "gone" /\ ticket[c] \notin queue
  <2>1. closed /\ queue = {}
    BY <1>1, <1>4 DEF QueueInv
  <2>2. Leave(c) /\ queue' = {}
    BY <1>4, <2>1 DEF GiveUp, Release, Live
  <2>3. \A l \in Lanes : Owners(l)' = Owners(l)
    BY <1>1, <1>4, <2>2 DEF Owners, Owns, Leave, TypeOK
  <2>4. QueueInv'
    BY <1>1, <2>1, <2>2 DEF QueueInv
  <2> QED
    BY <1>1, <2>1, <2>3, <2>4 DEF SlotStep, Kept
<1> QED
  BY <1>1, <1>2, <1>3, <1>4

LEMMA CallerStepSlots ==
    ASSUME SlotInv, Careful, NEW c \in Callers, CallerStep(c)
    PROVE  SlotStep /\ QueueInv'
<1>1. Runs(c) /\ TypeOK
  BY DEF CallerStep, SlotInv
<1>2. CASE DropReceiver(c) \/ OpenSucceeds(c) \/ Run(c) \/ WaitRefused(c)
  BY <1>1, <1>2, QuietSlots DEF DropReceiver, OpenSucceeds, Run, WaitRefused, Leave,
     Owns, TypeOK, lane_vars
<1>3. CASE GiveUp(c)
  BY <1>1, <1>3, GiveUpStep
<1>4. CASE UseSlot(c)
  <2>1. CASE Release(c)
    BY <1>1, <1>4, <2>1, ReleaseStep DEF UseSlot, Owns
  <2>2. CASE ~Release(c)
    BY <1>1, <1>4, <2>2, QuietSlots DEF UseSlot, Owns, TypeOK
  <2> QED
    BY <2>1, <2>2
<1>5. CASE OpenFails(c) \/ Probe(c) \/ Finish(c) \/ Fail(c)
  BY <1>1, <1>5, ReleaseStep DEF OpenFails, Probe, Finish, Fail, GiveBack, Owns
<1> QED
  BY <1>2, <1>3, <1>4, <1>5 DEF CallerStep

LEMMA StepSlots ==
    ASSUME SlotInv, Careful, [Next]_vars
    PROVE  SlotStep /\ SlotInv'
<1> SUFFICES SlotStep /\ QueueInv'
  BY StepType, CountKept DEF SlotInv
<1>2. ASSUME NEW c \in Callers, CallerChoice(c) PROVE SlotStep /\ QueueInv'
  <2>1. Runs(c) /\ TypeOK
    BY <1>2 DEF CallerChoice, SlotInv
  <2>2. CASE \E w \in Work : Ask(c, w)
    BY <2>2, AskStep
  <2>3. CASE Elapse(c)
    BY <2>1, <2>3, QuietSlots DEF Elapse, Owns, TypeOK, lane_vars
  <2>4. CASE DropFuture(c)
    <3>1. CASE pc[c] = "running"
      BY <2>1, <2>4, <3>1, ReleaseStep DEF DropFuture, GiveBack, Owns
    <3>2. CASE pc[c] = "waiting"
      BY <2>1, <2>4, <3>2, QuietSlots DEF DropFuture, Leave, Owns, TypeOK, lane_vars
    <3> QED
      BY <2>4, <3>1, <3>2 DEF DropFuture, Careful, Awaits
  <2> QED
    BY <1>2, <2>2, <2>3, <2>4 DEF CallerChoice
<1>3. CASE DropIdle \/ UNCHANGED vars
  <2>1. UNCHANGED <<permits, queue, tickets, closed, pc, ticket>>
    BY <1>3 DEF DropIdle, vars, lane_vars
  <2> QED
    BY <2>1, QuietSlots
<1>4. CASE Close
  <2>1. closed' /\ queue' = {} /\ UNCHANGED <<pc, ticket>>
    BY <1>4 DEF Close
  <2>2. \A l \in Lanes : Owners(l)' = Owners(l)
    BY <2>1 DEF Owners, Owns
  <2>3. QueueInv'
    BY <2>1 DEF QueueInv
  <2> QED
    BY <2>1, <2>2, <2>3 DEF SlotStep, Kept
<1>5. CASE \E c \in Callers : CallerStep(c) \/ CallerChoice(c)
  BY <1>2, <1>5, CallerStepSlots
<1> QED
  BY <1>3, <1>4, <1>5 DEF Next

\* The free slots of the semaphore, in a state and in the next: the pool's count
\* while it is open, and what the owners leave over in any case.
LEMMA FreeSlotsAre ==
    SlotInv => FreeSlots = [l \in Lanes |-> SlotsOf(l) - Cardinality(Owners(l))]
<1> SUFFICES ASSUME SlotInv, NEW l \in Lanes, ~closed
             PROVE  permits[l] = SlotsOf(l) - Cardinality(Owners(l))
  BY DEF FreeSlots
<1>1. permits[l] \in Nat /\ Cardinality(Owners(l)) \in Nat /\ SlotsOf(l) \in Nat
  BY OwnersFinite, LaneTypes DEF SlotInv, TypeOK
<1> QED
  BY <1>1 DEF SlotInv, SlotsCounted

LEMMA FreeSlotsBecome ==
    SlotInv' => FreeSlots' = [l \in Lanes |-> SlotsOf(l) - Cardinality(Owners(l)')]
<1> SUFFICES ASSUME SlotInv', NEW l \in Lanes, ~closed'
             PROVE  permits'[l] = SlotsOf(l) - Cardinality(Owners(l)')
  BY DEF FreeSlots
<1>1. Cardinality(Owners(l)') \in Nat
  <2>1. Owners(l)' \subseteq Callers
    BY DEF Owners
  <2> QED
    BY <2>1, FS_Subset, FS_CardinalityType
<1>2. permits'[l] \in Nat /\ SlotsOf(l) \in Nat
  BY LaneTypes DEF SlotInv, TypeOK
<1>3. permits'[l] + Cardinality(Owners(l)') = SlotsOf(l)
  BY DEF SlotInv, SlotsCounted
<1> QED
  BY <1>1, <1>2, <1>3

OwnersOf == [l \in Lanes |-> Owners(l)]

\* With n more owners a lane has n free slots fewer.
LEMMA LaneMaps ==
    ASSUME SlotInv, SlotInv', NEW l \in Lanes, NEW S, NEW n \in Int,
           OwnersBecome(l, S), Cardinality(S) = Cardinality(Owners(l)) + n
    PROVE  /\ FreeSlots' = [FreeSlots EXCEPT ![l] = @ - n]
           /\ OwnersOf' = [OwnersOf EXCEPT ![l] = S]
<1>1. \A k \in Lanes : Owners(k)' = IF k = l THEN S ELSE Owners(k)
  BY DEF OwnersBecome
<1>2. \A k \in Lanes : Cardinality(Owners(k)) \in Nat /\ SlotsOf(k) \in Nat
  BY OwnersFinite, LaneTypes
<1>3. OwnersOf' = [OwnersOf EXCEPT ![l] = S]
  BY <1>1 DEF OwnersOf
<1>4. \A k \in Lanes : SlotsOf(k) - Cardinality(Owners(k)')
                       = IF k = l THEN SlotsOf(l) - Cardinality(Owners(l)) - n
                                  ELSE SlotsOf(k) - Cardinality(Owners(k))
  BY <1>1, <1>2
<1>5. FreeSlots' = [FreeSlots EXCEPT ![l] = @ - n]
  BY <1>4, FreeSlotsAre, FreeSlotsBecome
<1> QED
  BY <1>3, <1>5

LEMMA StepMaps ==
    ASSUME SlotInv, SlotInv', SlotStep
    PROVE  Semaphore!Next \/ UNCHANGED <<FreeSlots, OwnersOf>>
<1>1. CASE Kept
  <2>1. \A l \in Lanes : Owners(l)' = Owners(l)
    BY <1>1 DEF Kept
  <2> QED
    BY <2>1, FreeSlotsAre, FreeSlotsBecome DEF OwnersOf
<1>2. CASE Taken
  <2>1. PICK l \in Lanes, c \in Callers :
            /\ ~closed /\ permits[l] > 0 /\ c \notin Owners(l)
            /\ OwnersBecome(l, Owners(l) \cup {c})
    BY <1>2 DEF Taken
  <2>2. Cardinality(Owners(l) \cup {c}) = Cardinality(Owners(l)) + 1
    BY <2>1, OwnersFinite, FS_AddElement
  <2>3. /\ FreeSlots' = [FreeSlots EXCEPT ![l] = @ - 1]
        /\ OwnersOf' = [OwnersOf EXCEPT ![l] = Owners(l) \cup {c}]
    BY <2>1, <2>2, LaneMaps
  <2>4. FreeSlots[l] > 0 /\ OwnersOf[l] = Owners(l)
    BY <2>1 DEF FreeSlots, OwnersOf
  <2>5. Semaphore!Take(l, c)
    BY <2>1, <2>3, <2>4 DEF Semaphore!Take, OwnersOf
  <2> QED
    BY <2>5 DEF Semaphore!Next
<1>3. CASE Returned
  <2>1. PICK l \in Lanes, c \in Callers :
            c \in Owners(l) /\ OwnersBecome(l, Owners(l) \ {c})
    BY <1>3 DEF Returned
  <2>2. Cardinality(Owners(l) \ {c}) = Cardinality(Owners(l)) + (-1)
    BY <2>1, OwnersFinite, FS_RemoveElement
  <2>3. /\ FreeSlots' = [FreeSlots EXCEPT ![l] = @ - (-1)]
        /\ OwnersOf' = [OwnersOf EXCEPT ![l] = Owners(l) \ {c}]
    BY <2>1, <2>2, LaneMaps
  <2>4. FreeSlots[l] - (-1) = FreeSlots[l] + 1
    <3>1. FreeSlots[l] \in Int
      BY FreeSlotsAre, OwnersFinite, LaneTypes
    <3> QED
      BY <3>1
  <2>5. Semaphore!Return(l, c)
    BY <2>1, <2>3, <2>4 DEF Semaphore!Return, OwnersOf
  <2> QED
    BY <2>5 DEF Semaphore!Next
<1>4. CASE Passed
  <2>1. PICK l \in Lanes, c \in Callers, d \in Callers :
            /\ c \in Owners(l) /\ d \notin Owners(l)
            /\ OwnersBecome(l, (Owners(l) \ {c}) \cup {d})
    BY <1>4 DEF Passed
  <2>2. /\ IsFiniteSet(Owners(l) \ {c})
        /\ Cardinality(Owners(l) \ {c}) = Cardinality(Owners(l)) - 1
        /\ Cardinality(Owners(l)) \in Nat
    BY <2>1, OwnersFinite, FS_RemoveElement
  <2>3. Cardinality((Owners(l) \ {c}) \cup {d}) = Cardinality(Owners(l) \ {c}) + 1
    BY <2>1, <2>2, FS_AddElement
  <2>4. Cardinality((Owners(l) \ {c}) \cup {d}) = Cardinality(Owners(l)) + 0
    BY <2>2, <2>3
  <2>5. /\ FreeSlots' = [FreeSlots EXCEPT ![l] = @ - 0]
        /\ OwnersOf' = [OwnersOf EXCEPT ![l] = (Owners(l) \ {c}) \cup {d}]
    BY <2>1, <2>4, LaneMaps
  <2>6. FreeSlots' = FreeSlots
    <3>1. FreeSlots[l] \in Int /\ FreeSlots = [FreeSlots EXCEPT ![l] = FreeSlots[l]]
      BY FreeSlotsAre, OwnersFinite, LaneTypes DEF FreeSlots
    <3> QED
      BY <2>5, <3>1
  <2>7. Semaphore!HandOver(l, c, d)
    BY <2>1, <2>5, <2>6 DEF Semaphore!HandOver, OwnersOf
  <2> QED
    BY <2>7 DEF Semaphore!Next
<1> QED
  BY <1>1, <1>2, <1>3, <1>4 DEF SlotStep

LEMMA InitMaps == Init => SlotInv /\ Semaphore!Init
<1> SUFFICES ASSUME Init PROVE SlotInv /\ Semaphore!Init
  OBVIOUS
<1>1. \A l \in Lanes : Owners(l) = {}
  BY DEF Init, Owners, Owns
<1>2. QueueInv
  BY DEF Init, QueueInv, Owns
<1>3. SlotsCounted
  <2>1. Cardinality({}) = 0
    BY FS_EmptySet
  <2>2. \A l \in Lanes : permits[l] + 0 = SlotsOf(l)
    BY LaneTypes DEF Init
  <2> QED
    BY <1>1, <2>1, <2>2 DEF SlotsCounted
<1>4. FreeSlots = [l \in Lanes |-> SlotsOf(l)]
  BY DEF Init, FreeSlots
<1> QED
  BY <1>1, <1>2, <1>3, <1>4, InitType DEF SlotInv, Semaphore!Init

\* Under every schedule of timeouts, dropped waits and operations, refusals and
\* close, no slot is lost or minted: the pool implements a counting semaphore for
\* each lane.
THEOREM PoolIsSemaphore == ASSUME Careful PROVE Spec => IsSemaphore
<1>1. SlotInv /\ [Next]_vars => SlotInv'
  BY StepSlots
<1>2. SlotInv /\ SlotInv' /\ [Next]_vars
        => Semaphore!Next \/ UNCHANGED <<FreeSlots, OwnersOf>>
  BY StepSlots, StepMaps
<1>3. SlotInv /\ SlotInv' /\ [Next]_vars
        => [Semaphore!Next]_<<FreeSlots, [l \in Lanes |-> Owners(l)]>>
  BY <1>2 DEF OwnersOf
<1> QED
  BY InitMaps, <1>1, <1>3, PTL DEF Spec, IsSemaphore, Semaphore!Spec

-----------------------------------------------------------------------------
(* The bound on connections, under the same assumption.                    *)

\* Who has a connection open or is opening one.
Using(l) == {c \in Callers : pc[c] \in {"opening", "held", "running"} /\ ticket[c].lane = l}

\* A lane keeps parked no more than its users leave over.
LaneFits(l) == Len(parked[l]) + Cardinality(Using(l)) <= SlotsOf(l)
BoundInv == \A l \in Lanes : LaneFits(l)

LEMMA UsingFinite ==
    \A l \in Lanes : /\ IsFiniteSet(Using(l)) /\ Cardinality(Using(l)) \in Nat
                     /\ IsFiniteSet(Using(l)') /\ Cardinality(Using(l)') \in Nat
<1>1. \A l \in Lanes : Using(l) \subseteq Callers /\ Using(l)' \subseteq Callers
  BY DEF Using
<1> QED
  BY <1>1, FS_Subset, FS_CardinalityType

\* A lane that parks nothing more and gains no user fits as before.
LEMMA FitsKept ==
    ASSUME BoundInv, NEW l \in Lanes, Using(l)' \subseteq Using(l),
           Len(parked[l]) \in Nat, Len(parked'[l]) \in Nat,
           Len(parked'[l]) <= Len(parked[l])
    PROVE  LaneFits(l)'
<1>1. Cardinality(Using(l)') <= Cardinality(Using(l))
  BY UsingFinite, FS_Subset
<1>2. Len(parked[l]) + Cardinality(Using(l)) <= SlotsOf(l)
  BY DEF BoundInv, LaneFits
<1>3. /\ Cardinality(Using(l)) \in Nat /\ Cardinality(Using(l)') \in Nat
      /\ SlotsOf(l) \in Nat
  BY UsingFinite, LaneTypes
<1>4. Len(parked'[l]) + Cardinality(Using(l)') <= SlotsOf(l)
  BY <1>1, <1>2, <1>3
<1> QED
  BY <1>4 DEF LaneFits

LEMMA ParkedLength == TypeOK => \A l \in Lanes : Len(parked[l]) \in Nat
BY LenProperties DEF TypeOK

\* The same for both lanes at once: nothing is parked or opened.
LEMMA QuietFits ==
    ASSUME TypeOK, BoundInv, \A l \in Lanes : Using(l)' \subseteq Using(l),
           \A l \in Lanes : parked'[l] = parked[l] \/ parked'[l] = <<>>
    PROVE  BoundInv'
<1> SUFFICES ASSUME NEW l \in Lanes PROVE LaneFits(l)'
  BY DEF BoundInv
<1>1. Len(parked[l]) \in Nat
  BY ParkedLength
<1>2. Len(parked'[l]) \in Nat /\ Len(parked'[l]) <= Len(parked[l])
  <2>1. Len(<<>>) = 0
    OBVIOUS
  <2> QED
    BY <1>1, <2>1
<1> QED
  BY <1>1, <1>2, FitsKept

\* Whoever is woken by a released slot has no connection yet.
LEMMA MovedUsing ==
    ASSUME TypeOK, NEW c \in Callers, Moved(c)
    PROVE  \A l \in Lanes : Using(l)' = Using(l) \ {c}
BY DEF Moved, Using, TypeOK

LEMMA GiveBackFits ==
    ASSUME TypeOK, BoundInv, NEW c \in Callers, pc[c] \in {"held", "running"},
           NEW s \in {"clean", "midway"}, NEW b \in BOOLEAN, GiveBack(c, s, b)
    PROVE  BoundInv'
<1> SUFFICES ASSUME NEW l \in Lanes PROVE LaneFits(l)'
  BY DEF BoundInv
<1>1. Using(l)' = Using(l) \ {c} /\ ticket[c].lane \in Lanes
  <2>1. Moved(c)
    BY ReleaseMoves DEF GiveBack, Listening
  <2> QED
    BY <2>1, MovedUsing DEF TypeOK, Ticket
<1>2. parked[l] \in Seq({"clean", "midway"}) /\ Len(parked[l]) \in Nat
  BY ParkedLength DEF TypeOK
<1>3. CASE parked'[l] = parked[l]
  BY <1>1, <1>2, <1>3, FitsKept
<1>4. CASE l = ticket[c].lane /\ parked'[l] = Append(parked[l], s)
  <2>1. c \in Using(l)
    BY <1>4 DEF Using
  <2>2. Cardinality(Using(l)') = Cardinality(Using(l)) - 1
    BY <1>1, <2>1, UsingFinite, FS_RemoveElement, ZenonT(40)
  <2>3. Len(parked'[l]) = Len(parked[l]) + 1
    BY <1>2, <1>4, AppendProperties
  <2>4. Len(parked[l]) + Cardinality(Using(l)) <= SlotsOf(l)
    BY DEF BoundInv, LaneFits
  <2>5. Cardinality(Using(l)) \in Nat /\ SlotsOf(l) \in Nat
    BY UsingFinite, LaneTypes
  <2>6. Len(parked'[l]) + Cardinality(Using(l)') <= SlotsOf(l)
    BY <1>2, <2>2, <2>3, <2>4, <2>5
  <2> QED
    BY <2>6 DEF LaneFits
<1> QED
  BY <1>1, <1>3, <1>4 DEF GiveBack, TypeOK

\* A connection is opened only when none is parked, and under an owned slot.
LEMMA UseSlotFits ==
    ASSUME SlotInv, BoundInv, NEW c \in Callers, UseSlot(c)
    PROVE  BoundInv'
<1>0. PICK k \in Lanes : k = ticket[c].lane
  BY DEF SlotInv, TypeOK, Ticket
<1> DEFINE p == parked[k]
<1>1. TypeOK /\ pc[c] \in {"granted", "owner"} /\ k \in Lanes
  BY DEF SlotInv, UseSlot
<1>2. CASE Release(c) /\ UNCHANGED parked
  <2>1. Moved(c)
    BY <1>1, <1>2, ReleaseMoves DEF Listening
  <2> QED
    BY <1>1, <1>2, <2>1, MovedUsing, QuietFits
<1>3. ASSUME UNCHANGED ticket, pc' = [pc EXCEPT ![c] = "held"] \/ pc' = [pc EXCEPT ![c] = "opening"]
      PROVE  /\ Using(k)' = Using(k) \cup {c} /\ c \notin Using(k)
             /\ \A l \in Lanes \ {k} : Using(l)' = Using(l)
  BY <1>0, <1>1, <1>3 DEF Using, TypeOK
<1>4. CASE /\ p # <<>>
           /\ parked' = [parked EXCEPT ![k] = SubSeq(p, 1, Len(p) - 1)]
           /\ pc' = [pc EXCEPT ![c] = "held"]
           /\ UNCHANGED ticket
  <2>1. p \in Seq({"clean", "midway"})
    BY <1>1 DEF TypeOK
  <2>2. Len(p) \in Nat \ {0} /\ Len(SubSeq(p, 1, Len(p) - 1)) = Len(p) - 1
    BY <1>4, <2>1, NewestParked
  <2> HIDE DEF p
  <2>3. Len(parked'[k]) = Len(parked[k]) - 1 /\ Len(parked[k]) \in Nat
    BY <1>1, <1>4, <2>2 DEF TypeOK, p
  <2>4. Cardinality(Using(k)') = Cardinality(Using(k)) + 1
    BY <1>1, <1>3, <1>4, UsingFinite, FS_AddElement
  <2>5. /\ Len(parked[k]) + Cardinality(Using(k)) <= SlotsOf(k)
        /\ Cardinality(Using(k)) \in Nat /\ SlotsOf(k) \in Nat
    BY <1>1, UsingFinite, LaneTypes DEF BoundInv, LaneFits
  <2>6. Len(parked'[k]) + Cardinality(Using(k)') <= SlotsOf(k)
    BY <2>3, <2>4, <2>5
  <2>7. \A l \in Lanes \ {k} : parked'[l] = parked[l]
    BY <1>1, <1>4 DEF TypeOK
  <2>8. ASSUME NEW l \in Lanes PROVE LaneFits(l)'
    <3>1. CASE l = k
      BY <2>6, <3>1 DEF LaneFits
    <3>2. CASE l # k
      BY <1>3, <1>4, <2>7, <3>2 DEF BoundInv, LaneFits
    <3> QED
      BY <3>1, <3>2
  <2> QED
    BY <2>8 DEF BoundInv
<1>5. CASE /\ ~closed
           /\ parked' = [parked EXCEPT ![k] = <<>>]
           /\ pc' = [pc EXCEPT ![c] = "opening"]
           /\ UNCHANGED ticket
  <2>1. Using(k)' \subseteq Owners(k)
    BY <1>0, <1>1, <1>3, <1>5 DEF Using, Owners, Owns
  <2> HIDE DEF p
  <2>2. Cardinality(Using(k)') <= Cardinality(Owners(k))
    BY <1>1, <2>1, OwnersFinite, FS_Subset
  <2>3. /\ permits[k] + Cardinality(Owners(k)) = SlotsOf(k)
        /\ permits[k] \in Nat
    BY <1>1, <1>5 DEF SlotInv, SlotsCounted, TypeOK
  <2>4. Cardinality(Owners(k)) \in Nat /\ Cardinality(Using(k)') \in Nat /\ SlotsOf(k) \in Nat
    BY <1>1, OwnersFinite, UsingFinite, LaneTypes
  <2>5. Len(parked'[k]) = 0
    BY <1>1, <1>5 DEF TypeOK
  <2>6. Len(parked'[k]) + Cardinality(Using(k)') <= SlotsOf(k)
    BY <2>2, <2>3, <2>4, <2>5
  <2>7. \A l \in Lanes \ {k} : parked'[l] = parked[l]
    BY <1>1, <1>5 DEF TypeOK
  <2>8. ASSUME NEW l \in Lanes PROVE LaneFits(l)'
    <3>1. CASE l = k
      BY <2>6, <3>1 DEF LaneFits
    <3>2. CASE l # k
      BY <1>3, <1>5, <2>7, <3>2 DEF BoundInv, LaneFits
    <3> QED
      BY <3>1, <3>2
  <2> QED
    BY <2>8 DEF BoundInv
<1> QED
  BY <1>0, <1>2, <1>4, <1>5 DEF UseSlot

LEMMA StepFits ==
    ASSUME SlotInv, BoundInv, [Next]_vars
    PROVE  BoundInv'
<1>1. TypeOK
  BY DEF SlotInv
<1>2. ASSUME NEW c \in Callers, GiveBack(c, conn[c], discard[c]), pc[c] \in {"held", "running"}
      PROVE  BoundInv'
  <2>1. conn[c] \in {"clean", "midway"} /\ discard[c] \in BOOLEAN
    BY <1>1, <1>2 DEF TypeOK
  <2> QED
    BY <1>1, <1>2, <2>1, GiveBackFits
<1>3. ASSUME NEW c \in Callers, Moved(c), UNCHANGED parked PROVE BoundInv'
  BY <1>1, <1>3, MovedUsing, QuietFits
<1>4. ASSUME NEW c \in Callers, CallerStep(c) PROVE BoundInv'
  <2>1. CASE DropReceiver(c) \/ OpenSucceeds(c) \/ Run(c)
    <3>1. \A l \in Lanes : Using(l)' = Using(l)
      BY <1>1, <2>1 DEF DropReceiver, OpenSucceeds, Run, Using, TypeOK
    <3> QED
      BY <1>1, <2>1, <3>1, QuietFits DEF DropReceiver, OpenSucceeds, Run, lane_vars
  <2>2. CASE GiveUp(c) \/ WaitRefused(c) \/ OpenFails(c)
    <3>1. UNCHANGED parked
      BY <2>2 DEF GiveUp, WaitRefused, OpenFails, lane_vars
    <3>2. (~Listening(c) /\ Release(c)) \/ Leave(c)
      BY <2>2 DEF GiveUp, WaitRefused, OpenFails, Listening
    <3>3. Moved(c)
      BY <1>1, <3>2, ReleaseMoves, LeaveMoves
    <3> QED
      BY <1>3, <3>1, <3>3
  <2>3. CASE UseSlot(c)
    BY <2>3, UseSlotFits
  <2>4. CASE Probe(c) \/ Fail(c)
    BY <1>2, <2>4 DEF Probe, Fail
  <2>5. CASE Finish(c)
    BY <1>1, <2>5, GiveBackFits DEF Finish
  <2> QED
    BY <1>4, <2>1, <2>2, <2>3, <2>4, <2>5 DEF CallerStep
<1>5. ASSUME NEW c \in Callers, CallerChoice(c) PROVE BoundInv'
  <2>1. CASE (\E w \in Work : Ask(c, w)) \/ Elapse(c)
    <3>1. \A l \in Lanes : Using(l)' = Using(l)
      BY <1>1, <2>1 DEF Ask, Elapse, Using, TypeOK
    <3> QED
      BY <1>1, <2>1, <3>1, QuietFits DEF Ask, Elapse, lane_vars
  <2>2. CASE DropFuture(c)
    BY <1>1, <1>2, <1>3, <2>2, LeaveMoves DEF DropFuture, lane_vars
  <2> QED
    BY <1>5, <2>1, <2>2 DEF CallerChoice
<1>6. CASE DropIdle \/ Close \/ UNCHANGED vars
  <2>1. \A l \in Lanes : Using(l)' = Using(l)
    BY <1>6 DEF DropIdle, Close, vars, Using
  <2> QED
    BY <1>1, <1>6, <2>1, QuietFits DEF DropIdle, Close, vars, lane_vars
<1> QED
  BY <1>4, <1>5, <1>6 DEF Next

LEMMA BoundHolds == TypeOK /\ BoundInv => ConnectionsBounded
<1> SUFFICES ASSUME TypeOK, BoundInv PROVE ConnectionsBounded
  OBVIOUS
<1> DEFINE G == Using("General")
           W == Using("Watch")
           All == {c \in Callers : pc[c] \in {"opening", "held", "running"}}
<1>1. All = G \cup W /\ G \cap W = {}
  BY DEF Using, TypeOK, Ticket, Lanes
<1>2. IsFiniteSet(G) /\ IsFiniteSet(W) /\ Cardinality(G) \in Nat /\ Cardinality(W) \in Nat
  BY UsingFinite DEF Lanes
<1>3. Cardinality(All) = Cardinality(G) + Cardinality(W)
  <2> HIDE DEF G, W, All
  <2>1. Cardinality(G \cup W) = Cardinality(G) + Cardinality(W) - Cardinality(G \cap W)
    BY <1>2, FS_Union
  <2>2. Cardinality(G \cap W) = 0
    BY <1>1, FS_EmptySet
  <2> QED
    BY <1>1, <1>2, <2>1, <2>2
<1>4. /\ Len(parked["General"]) + Cardinality(G) <= SlotsOf("General")
      /\ Len(parked["Watch"]) + Cardinality(W) <= SlotsOf("Watch")
  BY DEF BoundInv, LaneFits, Lanes
<1>5. Len(parked["General"]) \in Nat /\ Len(parked["Watch"]) \in Nat
  BY ParkedLength DEF Lanes
<1>6. /\ SlotsOf("General") + SlotsOf("Watch") = Capacity
      /\ SlotsOf("General") \in Nat /\ SlotsOf("Watch") \in Nat /\ Capacity \in Nat
  BY DEF SlotsOf, WatchSlots, Capacity
<1> HIDE DEF G, W
<1>7. \A a, b, g, w, x, y \in Nat :
          a + g <= x /\ b + w <= y => a + b + (g + w) <= x + y
  OBVIOUS
<1>8. Len(parked["General"]) + Len(parked["Watch"]) + (Cardinality(G) + Cardinality(W))
        <= Capacity
  BY <1>2, <1>4, <1>5, <1>6, <1>7
<1> QED
  BY <1>3, <1>8 DEF ConnectionsBounded, Sockets

\* An account never has more connections open, being opened or parked than it is
\* configured to, whatever times out, fails, is dropped or comes back late.
THEOREM BoundRespected == ASSUME Careful PROVE Spec => []ConnectionsBounded
<1>1. Init => SlotInv /\ BoundInv
  <2> SUFFICES ASSUME Init PROVE BoundInv
    BY InitMaps
  <2>1. \A l \in Lanes : Using(l) = {} /\ parked[l] = <<>>
    BY DEF Init, Using
  <2>2. Cardinality({}) = 0
    BY FS_EmptySet
  <2>3. \A l \in Lanes : Len(parked[l]) = 0 /\ SlotsOf(l) \in Nat
    BY <2>1, LaneTypes
  <2>4. ASSUME NEW l \in Lanes
        PROVE  Len(parked[l]) + Cardinality(Using(l)) <= SlotsOf(l)
    <3>1. Len(parked[l]) = 0 /\ Cardinality(Using(l)) = 0 /\ SlotsOf(l) \in Nat
      BY <2>1, <2>2, <2>3
    <3> QED
      BY <3>1
  <2> QED
    BY <2>4 DEF BoundInv, LaneFits
<1>2. SlotInv /\ BoundInv /\ [Next]_vars => SlotInv' /\ BoundInv'
  BY StepSlots, StepFits
<1>3. SlotInv /\ BoundInv => ConnectionsBounded
  BY BoundHolds DEF SlotInv
<1> QED
  BY <1>1, <1>2, <1>3, PTL DEF Spec

-----------------------------------------------------------------------------
(* Who waits is served in order.                                           *)

\* c comes by a slot.
Comes(c) == ~Owns(c) /\ Owns(c)'
InTurn(c) == \A t \in Live(ticket'[c].lane) :
                t = ticket[c] \/ (ticket[c] = ticket'[c] /\ Ahead(ticket[c], t))
Served == \A c \in Callers : Comes(c) => InTurn(c)

\* A step that moves one caller, who has a slot already or comes by none.
LEMMA OneMoves ==
    ASSUME NEW c \in Callers, \A d \in Callers \ {c} : pc'[d] = pc[d] /\ ticket'[d] = ticket[d],
           Owns(c) \/ pc'[c] \in {"idle", "waiting", "elapsed", "gone"}
    PROVE  Served
BY DEF Served, Comes, Owns

\* A released slot goes to the first who listens in its lane.
LEMMA ReleaseServes ==
    ASSUME TypeOK, NEW c \in Callers, ~Listening(c), Release(c)
    PROVE  Served
<1>1. Moved(c)
  BY ReleaseMoves
<1>2. CASE Leave(c)
  BY <1>2, OneMoves DEF Leave, TypeOK
<1>3. CASE \E t \in Live(ticket[c].lane) :
             /\ \A u \in Live(ticket[c].lane) \ {t} : Ahead(t, u)
             /\ pc' = [pc EXCEPT ![c] = "idle", ![t.caller] = Woken(@)]
             /\ ticket' = [ticket EXCEPT ![c] = NoTicket(c)]
  <2>1. PICK t \in Live(ticket[c].lane) :
             /\ \A u \in Live(ticket[c].lane) \ {t} : Ahead(t, u)
             /\ pc' = [pc EXCEPT ![c] = "idle", ![t.caller] = Woken(@)]
             /\ ticket' = [ticket EXCEPT ![c] = NoTicket(c)]
    BY <1>3
  <2>2. /\ t.caller \in Callers /\ t.lane = ticket[c].lane
        /\ ticket[t.caller] = t /\ t.caller # c
    BY DEF Live, TypeOK, Ticket
  <2>3. \A d \in Callers \ {t.caller} : ~Comes(d)
    BY <1>1, <2>1, <2>2 DEF Comes, Owns, TypeOK
  <2>4. ticket'[t.caller] = t
    BY <2>1, <2>2 DEF TypeOK
  <2>5. InTurn(t.caller)
    BY <2>1, <2>2, <2>4 DEF InTurn
  <2> QED
    BY <2>3, <2>5 DEF Served
<1> QED
  BY <1>2, <1>3 DEF Release

LEMMA StepServes == TypeOK /\ NoIdleSlot /\ [Next]_vars => Served
<1> SUFFICES ASSUME TypeOK, NoIdleSlot, [Next]_vars PROVE Served
  OBVIOUS
<1>1. ASSUME NEW c \in Callers, NEW w \in Work, Ask(c, w) PROVE Served
  <2>1. CASE pc' = [pc EXCEPT ![c] = "waiting"]
    BY <1>1, <2>1, OneMoves DEF Ask, TypeOK
  <2>2. CASE permits[LaneFor(w)] > 0 /\ pc' = [pc EXCEPT ![c] = "owner"]
    <3>1. ticket'[c].lane = LaneFor(w) /\ LaneFor(w) \in Lanes
      BY <1>1, LaneTypes DEF Ask, TypeOK
    <3>2. Live(LaneFor(w)) = {}
      BY <2>2, <3>1 DEF NoIdleSlot
    <3>3. InTurn(c)
      BY <3>1, <3>2 DEF InTurn
    <3>4. \A d \in Callers \ {c} : ~Comes(d)
      BY <2>2 DEF Comes, Owns, TypeOK
    <3> QED
      BY <3>3, <3>4 DEF Served
  <2> QED
    BY <1>1, <2>1, <2>2 DEF Ask
<1>2. ASSUME NEW c \in Callers,
             Elapse(c) \/ DropReceiver(c) \/ WaitRefused(c) \/ OpenSucceeds(c) \/ Run(c)
      PROVE  Served
  BY <1>2, OneMoves DEF Elapse, DropReceiver, WaitRefused, OpenSucceeds, Run, Leave, Owns, TypeOK
<1>3. ASSUME NEW c \in Callers, GiveUp(c) PROVE Served
  BY <1>3, OneMoves, ReleaseServes DEF GiveUp, Leave, Listening, TypeOK
<1>4. ASSUME NEW c \in Callers, UseSlot(c) PROVE Served
  <2>1. CASE Release(c)
    BY <1>4, <2>1, ReleaseServes DEF UseSlot, Listening
  <2>2. CASE UNCHANGED ticket /\ \E p \in {"held", "opening"} : pc' = [pc EXCEPT ![c] = p]
    BY <1>4, <2>2, OneMoves DEF UseSlot, Owns, TypeOK
  <2> QED
    BY <1>4, <2>1, <2>2 DEF UseSlot
<1>5. ASSUME NEW c \in Callers, OpenFails(c) \/ Probe(c) \/ Finish(c) \/ Fail(c) PROVE Served
  BY <1>5, ReleaseServes DEF OpenFails, Probe, Finish, Fail, GiveBack, Listening
<1>6. ASSUME NEW c \in Callers, DropFuture(c) PROVE Served
  BY <1>6, OneMoves, ReleaseServes DEF DropFuture, GiveBack, Leave, Listening, TypeOK
<1>7. CASE UNCHANGED <<pc, ticket>>
  BY <1>7 DEF Served, Comes, Owns
<1>8. CASE DropIdle \/ Close \/ UNCHANGED vars
  BY <1>7, <1>8 DEF DropIdle, Close, vars, session_vars
<1> QED
  BY <1>1, <1>2, <1>3, <1>4, <1>5, <1>6, <1>8 DEF Next, CallerStep, CallerChoice

\* A caller comes by a slot only in its turn: handed on, it goes to the first
\* who waits in its lane, and one that is free is there for a newcomer only
\* while nobody waits (take_permit, release_permit).
THEOREM WaitersServedInOrder == Spec => ServedInOrder
<1>1. TypeOK /\ NoIdleSlot /\ [Next]_vars => [Served]_vars
  BY StepServes
<1>2. Spec => [][Served]_vars
  BY <1>1, TypeCorrect, NoLostWakeUp, PTL DEF Spec
<1> QED
  BY <1>2 DEF ServedInOrder, Served, Comes, InTurn
=============================================================================

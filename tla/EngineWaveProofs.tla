--------------------------- MODULE EngineWaveProofs ---------------------------
(***************************************************************************)
(* Proofs about EngineWave, for every number of mailboxes and of lanes,    *)
(* both kinds of server and every bound.                                   *)
(***************************************************************************)
EXTENDS EngineWave, SequenceTheorems, FiniteSetTheorems, NumberLemmas, TLAPS

USE SizesAssumption

-----------------------------------------------------------------------------
(* The inductive invariant.                                                *)

\* What a pass may hold: a version, or Unread.
Readings == Nat \cup {Unread}

\* The locals of sync_wave, as far as lanes go.
WaveShape(w) ==
    /\ w = [running |-> w.running, active |-> w.active, admitted |-> w.admitted,
            interrupted |-> w.interrupted, stopping |-> w.stopping, handed |-> w.handed,
            bodies |-> w.bodies, draining |-> w.draining, twice |-> w.twice]
    /\ w.running \in [Mailboxes -> Seq(Readings)]
    /\ w.twice \in BOOLEAN

\* Until INBOX has run twice at once it runs at most once, and whoever asks the
\* active list is told so.
Listed(w) == \/ w.twice
             \/ w.running[Inbox] = <<>>
             \/ /\ Len(w.running[Inbox]) = 1
                /\ Inbox \in w.active

WaveInv == /\ mail \in [Mailboxes -> Nat]
           /\ WaveShape(wave)
           /\ Listed(wave)

\* The passes are as many as the lanes, or one more while INBOX is listed: a look
\* starts its pass beside the lanes only when it is not, and a lane is filled only
\* when one is free.
LanesKept(w) == /\ IsFiniteSet(Running(w))
                /\ w.active \subseteq Mailboxes
                /\ Passes(w) <= Lanes \/ (Passes(w) = Lanes + 1 /\ Inbox \in w.active)

\* What a pass has read, and what is held, was at the server.
ReadIsThere ==
    /\ have \in [Mailboxes -> Nat]
    /\ \A f \in Mailboxes : have[f] <= mail[f]
    /\ \A f \in Mailboxes : \A i \in DOMAIN wave.running[f] :
          wave.running[f][i] <= mail[f]

\* Only mailboxes are queued, admitted and looked at.
OnlyMailboxes ==
    /\ toSync \in Seq(Mailboxes)
    /\ wave.admitted \in Seq(Mailboxes)
    /\ look = NoLook \/ look.folder \in Mailboxes

\* A drain beside the lanes has rows to drain, and there is none outside a wave.
DrainHasRows ==
    /\ ops \in Nat
    /\ wave.draining \in 0 .. ops
    /\ pc \notin {"fill", "run", "attend"} => wave.draining = 0

Switches ==
    /\ link \in {"online", "waiting", "due"} /\ online \in BOOLEAN
    /\ backlog \in BOOLEAN
    /\ pc \in {"select", "link", "waves", "fill", "run", "attend", "watch"}

EngineInv == /\ WaveInv
             /\ LanesKept(wave)
             /\ ReadIsThere
             /\ OnlyMailboxes
             /\ DrainHasRows
             /\ Switches

-----------------------------------------------------------------------------
(* What the steps do to the lanes.                                         *)

LEMMA InboxIsMailbox == Inbox \in Mailboxes
BY DEF Inbox, Mailboxes

LEMMA NoWaveListed == WaveShape(NoWave) /\ Listed(NoWave)
<1>1. <<>> \in Seq(Readings)
  BY EmptySeq
<1>2. NoWave.running = [f \in Mailboxes |-> <<>>] /\ NoWave.twice = FALSE
  BY DEF NoWave
<1>3. NoWave.running \in [Mailboxes -> Seq(Readings)]
  BY <1>1, <1>2
<1>4. NoWave.running[Inbox] = <<>>
  BY <1>2, InboxIsMailbox
<1> QED
  BY <1>2, <1>3, <1>4 DEF WaveShape, Listed, NoWave

\* Whatever leaves the passes, the active list and the mark alone keeps all.
SameLanes(w, x) == /\ x.running = w.running
                   /\ x.active = w.active
                   /\ x.admitted = w.admitted
                   /\ x.twice = w.twice

LEMMA SameLanesListed ==
    ASSUME NEW w, NEW x, WaveShape(w), Listed(w), SameLanes(w, x),
           x = [running |-> x.running, active |-> x.active, admitted |-> x.admitted,
                interrupted |-> x.interrupted, stopping |-> x.stopping,
                handed |-> x.handed, bodies |-> x.bodies, draining |-> x.draining,
                twice |-> x.twice]
    PROVE  WaveShape(x) /\ Listed(x)
BY DEF WaveShape, Listed, SameLanes

\* A pass is admitted: of INBOX only when it is not listed, or the mark is set.
LEMMA StartedListed ==
    ASSUME WaveShape(wave), Listed(wave), NEW f
    PROVE  /\ WaveShape(Started(wave, f))
           /\ Listed(Started(wave, f))
           /\ \A g \in Mailboxes \ {f} :
                 Started(wave, f).running[g] = wave.running[g]
<1> DEFINE w == Started(wave, f)
           two == wave.twice \/ (f = Inbox /\ wave.running[f] # <<>>)
<1>0. w = [wave EXCEPT !.running[f] = Append(@, Unread), !.active = @ \cup {f},
                       !.admitted = Append(@, f), !.twice = two]
  BY DEF Started
<1> HIDE DEF two
<1>1. w.running = [wave.running EXCEPT ![f] = Append(@, Unread)]
  BY DEF WaveShape, Started
<1>2. w.active = wave.active \cup {f}
  BY DEF WaveShape, Started
<1>3. w.twice = (wave.twice \/ (f = Inbox /\ wave.running[f] # <<>>))
  BY DEF WaveShape, Started
<1>4. w = [running |-> w.running, active |-> w.active, admitted |-> w.admitted,
           interrupted |-> w.interrupted, stopping |-> w.stopping, handed |-> w.handed,
           bodies |-> w.bodies, draining |-> w.draining, twice |-> w.twice]
  <2> HIDE DEF w
  <2> QED
    BY <1>0 DEF WaveShape
<1>5. \A s \in Seq(Readings) : Append(s, Unread) \in Seq(Readings)
  BY DEF Readings
<1>6. w.running \in [Mailboxes -> Seq(Readings)]
  <2> HIDE DEF w
  <2>1. CASE f \in Mailboxes
    BY <1>1, <1>5, <2>1 DEF WaveShape
  <2>2. CASE f \notin Mailboxes
    BY <1>1, <2>2 DEF WaveShape
  <2> QED
    BY <2>1, <2>2
<1>7. \A g \in Mailboxes \ {f} : w.running[g] = wave.running[g]
  BY <1>1 DEF WaveShape
<1> HIDE DEF w
<1>8. CASE f = Inbox
  <2>1. CASE wave.running[Inbox] = <<>>
    <3>1. w.running[Inbox] = <<Unread>>
      BY <1>1, <1>8, <2>1, InboxIsMailbox DEF WaveShape
    <3> QED
      BY <1>2, <1>3, <1>4, <1>6, <1>7, <1>8, <3>1 DEF WaveShape, Listed, w
  <2>2. CASE wave.running[Inbox] # <<>>
    BY <1>3, <1>4, <1>6, <1>7, <1>8, <2>2 DEF WaveShape, Listed, w
  <2> QED
    BY <2>1, <2>2
<1>9. CASE f # Inbox
  BY <1>2, <1>3, <1>4, <1>6, <1>7, <1>9, InboxIsMailbox DEF WaveShape, Listed, w
<1> QED
  BY <1>8, <1>9

\* Taking one pass out of a mailbox's leaves one fewer.
LEMMA RemoveAtType ==
    ASSUME NEW s \in Seq(Readings), NEW i \in DOMAIN s
    PROVE  RemoveAt(s, i) \in Seq(Readings) /\ Len(RemoveAt(s, i)) = Len(s) - 1
<1>1. i \in 1 .. Len(s) /\ Len(s) \in Nat
  BY LenProperties
<1>2. SubSeq(s, 1, i - 1) \in Seq(Readings) /\ Len(SubSeq(s, 1, i - 1)) = i - 1
  BY <1>1, SubSeqProperties
<1>3. /\ SubSeq(s, i + 1, Len(s)) \in Seq(Readings)
      /\ Len(SubSeq(s, i + 1, Len(s))) = Len(s) - i
  BY <1>1, SubSeqProperties
<1>4. \A x, y \in Seq(Readings) : x \o y \in Seq(Readings) /\ Len(x \o y) = Len(x) + Len(y)
  BY ConcatProperties
<1> DEFINE x == SubSeq(s, 1, i - 1)
           y == SubSeq(s, i + 1, Len(s))
<1>5. RemoveAt(s, i) = x \o y
  BY DEF RemoveAt
<1> HIDE DEF x, y
<1>6. x \in Seq(Readings) /\ y \in Seq(Readings)
  BY <1>2, <1>3 DEF x, y
<1>7. Len(x) = i - 1 /\ Len(y) = Len(s) - i
  BY <1>2, <1>3 DEF x, y
<1>8. x \o y \in Seq(Readings) /\ Len(x \o y) = Len(x) + Len(y)
  BY <1>4, <1>6
<1> QED
  BY <1>1, <1>5, <1>7, <1>8

\* A pass has ended: INBOX leaves the list as its only pass does.
LEMMA EndedListed ==
    ASSUME WaveShape(wave), Listed(wave), NEW f \in Mailboxes,
           NEW i \in DOMAIN wave.running[f], NEW interrupted, Ended(f, i, interrupted)
    PROVE  /\ WaveShape(wave') /\ Listed(wave')
           /\ \A g \in Mailboxes :
                 Len(wave'.running[g]) <= Len(wave.running[g])
<1> DEFINE cut == RemoveAt(wave.running[f], i)
<1>1. /\ wave'.running = [wave.running EXCEPT ![f] = cut]
      /\ wave'.active = wave.active \ {f}
      /\ wave'.twice = wave.twice
  BY DEF WaveShape, Ended
<1>2. wave' = [running |-> wave'.running, active |-> wave'.active,
               admitted |-> wave'.admitted, interrupted |-> wave'.interrupted,
               stopping |-> wave'.stopping, handed |-> wave'.handed,
               bodies |-> wave'.bodies, draining |-> wave'.draining,
               twice |-> wave'.twice]
  BY DEF WaveShape, Ended
<1>3. wave.running[f] \in Seq(Readings)
  BY DEF WaveShape
<1>4. cut \in Seq(Readings) /\ Len(cut) = Len(wave.running[f]) - 1
  BY <1>3, RemoveAtType
<1> HIDE DEF cut
<1>5. wave'.running \in [Mailboxes -> Seq(Readings)]
  BY <1>1, <1>4 DEF WaveShape
<1>6. \A g \in Mailboxes : Len(wave.running[g]) \in Nat
  BY LenProperties DEF WaveShape
<1>7. \A g \in Mailboxes : Len(wave'.running[g]) <= Len(wave.running[g])
  BY <1>1, <1>4, <1>6 DEF WaveShape
<1>8. Listed(wave')
  <2>1. CASE f = Inbox /\ ~wave.twice
    <3>1. wave.running[f] # <<>>
      BY LenProperties, <1>3
    <3>2. Len(cut) = 0
      BY <1>4, <2>1, <3>1 DEF Listed
    <3>3. cut = <<>>
      BY <1>4, <3>2, EmptySeq
    <3> QED
      BY <1>1, <2>1, <3>3 DEF Listed, WaveShape
  <2>2. CASE f # Inbox \/ wave.twice
    BY <1>1, <2>2, InboxIsMailbox DEF Listed, WaveShape
  <2> QED
    BY <2>1, <2>2 DEF WaveShape
<1> QED
  BY <1>1, <1>2, <1>5, <1>7, <1>8 DEF WaveShape

-----------------------------------------------------------------------------
(* The invariant is inductive.                                             *)

LEMMA InitWave == Init => WaveInv
BY NoWaveListed DEF Init, WaveInv

\* The steps that start no pass and end none.
LaneFree ==
    \/ TakeJob \/ Tick \/ CameUp \/ LinkAsItWas \/ BeginWave \/ ServeHandedBack
    \/ AfterWaves \/ Filled \/ AttendAfterPass \/ Attend \/ EndWave
    \/ WatchNothing \/ (\E f \in Mailboxes, kind \in {"idle", "status"} : Watch(f, kind))
    \/ Reconnect \/ TickFindsLinkDead \/ ClaimBodies \/ BodiesSettle \/ DrainSettles
    \/ Look \/ WatchReturns \/ LookFails \/ RetryFallsDue \/ WorldStep

\* They leave the lanes alone, or the wave is over and its lanes were empty.
LEMMA LaneFreeStep ==
    ASSUME WaveInv, LaneFree
    PROVE  /\ WaveShape(wave') /\ Listed(wave')
           /\ SameLanes(wave, wave') \/ SameLanes(NoWave, wave')
<1>1. CASE UNCHANGED wave
  BY <1>1 DEF WaveInv, WaveShape, Listed, SameLanes
<1>2. CASE ServeHandedBack
  <2>1. wave' = NoWave
    BY <1>2 DEF ServeHandedBack
  <2>2. SameLanes(NoWave, NoWave)
    BY DEF SameLanes
  <2> QED
    BY <2>1, <2>2, NoWaveListed
<1>3. CASE EndWave
  <2>1. wave' = [NoWave EXCEPT !.handed = wave.handed]
    BY <1>3 DEF EndWave, Over
  <2>2. SameLanes(NoWave, wave')
    BY <2>1 DEF SameLanes, NoWave
  <2>3. WaveShape(wave') /\ Listed(wave')
    BY <2>1, <2>2, NoWaveListed, SameLanesListed DEF NoWave
  <2> QED
    BY <2>2, <2>3
<1>4. CASE \/ \E b : wave' = [wave EXCEPT !.bodies = b]
           \/ wave' = [wave EXCEPT !.stopping = TRUE, !.handed = TRUE]
           \/ wave' = [wave EXCEPT !.draining = ops]
           \/ wave' = [wave EXCEPT !.draining = 0]
           \/ wave' = [wave EXCEPT !.draining = 0, !.stopping = TRUE]
  <2>1. SameLanes(wave, wave')
    BY <1>4 DEF WaveInv, WaveShape, SameLanes
  <2>2. wave' = [running |-> wave'.running, active |-> wave'.active,
                 admitted |-> wave'.admitted, interrupted |-> wave'.interrupted,
                 stopping |-> wave'.stopping, handed |-> wave'.handed,
                 bodies |-> wave'.bodies, draining |-> wave'.draining,
                 twice |-> wave'.twice]
    BY <1>4 DEF WaveInv, WaveShape
  <2> QED
    BY <2>1, <2>2, SameLanesListed DEF WaveInv
<1>5. ASSUME Attended PROVE UNCHANGED wave \/ (\E b : wave' = [wave EXCEPT !.bodies = b])
           \/ wave' = [wave EXCEPT !.stopping = TRUE, !.handed = TRUE]
           \/ wave' = [wave EXCEPT !.draining = ops]
  BY <1>5 DEF Attended
<1>6. CASE \/ TakeJob \/ Tick \/ CameUp \/ LinkAsItWas \/ BeginWave \/ AfterWaves
           \/ Filled \/ WatchNothing \/ Reconnect \/ TickFindsLinkDead \/ Look
           \/ (\E f \in Mailboxes, kind \in {"idle", "status"} : Watch(f, kind))
           \/ WatchReturns \/ LookFails \/ RetryFallsDue \/ WorldStep
  BY <1>1, <1>6 DEF TakeJob, Tick, CameUp, LinkAsItWas, BeginWave, AfterWaves, Filled,
        WatchNothing, Reconnect, TickFindsLinkDead, Look, Watch, WatchReturns, LookFails,
        RetryFallsDue, WorldStep, Arrive, SendJob, QueueOperation
<1>7. CASE AttendAfterPass \/ Attend
  BY <1>1, <1>4, <1>5, <1>7 DEF AttendAfterPass, Attend
<1>8. CASE ClaimBodies \/ BodiesSettle \/ DrainSettles
  BY <1>4, <1>8 DEF ClaimBodies, BodiesSettle, DrainSettles
<1> QED
  BY <1>2, <1>3, <1>6, <1>7, <1>8 DEF LaneFree

LEMMA NextIs ==
    Next <=> \/ LaneFree \/ FillWithInbox \/ Fill \/ LookReturns
             \/ \E f \in Mailboxes : PassStep(f)
BY DEF Next, LaneFree, LoopStep, LookStep

\* Other hands add to a mailbox, and nothing else touches it.
LEMMA MailType ==
    ASSUME WaveInv, [Next]_vars
    PROVE  mail' \in [Mailboxes -> Nat]
<1>1. CASE UNCHANGED mail
  BY <1>1 DEF WaveInv
<1>2. CASE \E f \in Mailboxes : Arrive(f)
  <2> PICK f \in Mailboxes : mail' = [mail EXCEPT ![f] = @ + 1]
    BY <1>2 DEF Arrive
  <2> QED
    BY DEF WaveInv
<1>3. CASE LoopStep \/ Reconnect \/ TickFindsLinkDead
  BY <1>1, <1>3 DEF LoopStep, TakeJob, Tick, CameUp, LinkAsItWas, BeginWave,
        ServeHandedBack, AfterWaves, FillWithInbox, Fill, Filled, AttendAfterPass, Attend,
        EndWave, WatchNothing, Watch, Reconnect, TickFindsLinkDead, world_vars
<1>4. CASE \E f \in Mailboxes : PassStep(f)
  BY <1>1, <1>4 DEF PassStep, PassReads, PassFinishes, PassInterrupted, PassFails, Ended,
        world_vars
<1>5. CASE \/ ClaimBodies \/ BodiesSettle \/ DrainSettles \/ Look \/ LookStep \/ LookFails
           \/ RetryFallsDue \/ (\E job \in {"body", "sync"} : SendJob(job))
           \/ QueueOperation \/ UNCHANGED vars
  BY <1>1, <1>5 DEF ClaimBodies, BodiesSettle, DrainSettles, Look, LookStep, LookReturns,
        WatchReturns, LookFails, RetryFallsDue, SendJob, QueueOperation, world_vars, vars
<1> QED
  BY <1>2, <1>3, <1>4, <1>5 DEF Next, WorldStep

\* A pass of f takes a step: it reads, which leaves the lanes, or it ends.
LEMMA PassStepListed ==
    ASSUME WaveInv, NEW f \in Mailboxes, PassStep(f)
    PROVE  /\ WaveShape(wave') /\ Listed(wave')
           /\ \A g \in Mailboxes :
                 Len(wave'.running[g]) <= Len(wave.running[g])
<1> PICK i \in DOMAIN wave.running[f] :
       PassReads(f, i) \/ PassFinishes(f, i) \/ PassInterrupted(f, i) \/ PassFails(f, i)
  BY DEF PassStep
<1>1. CASE PassFinishes(f, i) \/ PassInterrupted(f, i) \/ PassFails(f, i)
  BY <1>1, EndedListed DEF WaveInv, PassFinishes, PassInterrupted, PassFails
<1>2. CASE PassReads(f, i)
  <2> DEFINE read == [wave.running[f] EXCEPT ![i] = mail[f]]
  <2>1. wave.running[f] \in Seq(Readings) /\ mail[f] \in Readings
    BY DEF WaveInv, WaveShape, Readings
  <2>2. i \in 1 .. Len(wave.running[f])
    BY <2>1, LenProperties
  <2>3. read \in Seq(Readings) /\ Len(read) = Len(wave.running[f])
    BY <2>1, <2>2, ExceptSeq, LenProperties
  <2>4. /\ wave'.running = [wave.running EXCEPT ![f] = read]
        /\ wave'.active = wave.active /\ wave'.twice = wave.twice
    BY <1>2 DEF PassReads, WaveInv, WaveShape
  <2>5. wave' = [running |-> wave'.running, active |-> wave'.active,
                 admitted |-> wave'.admitted, interrupted |-> wave'.interrupted,
                 stopping |-> wave'.stopping, handed |-> wave'.handed,
                 bodies |-> wave'.bodies, draining |-> wave'.draining,
                 twice |-> wave'.twice]
    BY <1>2 DEF PassReads, WaveInv, WaveShape
  <2> HIDE DEF read
  <2>6. wave'.running \in [Mailboxes -> Seq(Readings)]
    BY <2>3, <2>4 DEF WaveInv, WaveShape
  <2>7. \A g \in Mailboxes : /\ Len(wave.running[g]) \in Nat
                             /\ Len(wave'.running[g]) = Len(wave.running[g])
    BY <2>3, <2>4, LenProperties DEF WaveInv, WaveShape
  <2>8. wave.running[Inbox] = <<>> => wave'.running[Inbox] = <<>>
    BY <2>6, <2>7, EmptySeq, InboxIsMailbox DEF WaveInv, WaveShape
  <2>9. Listed(wave')
    BY <2>4, <2>7, <2>8, InboxIsMailbox DEF WaveInv, Listed
  <2> QED
    BY <2>4, <2>5, <2>6, <2>7, <2>9 DEF WaveInv, WaveShape
<1> QED
  BY <1>1, <1>2

\* A look starts INBOX's pass, or leaves the lanes alone.
LEMMA LookReturnsIs == LookReturns => wave' \in {wave, Started(wave, Inbox)}
BY DEF LookReturns

LEMMA NextWave == WaveInv /\ [Next]_vars => WaveInv'
<1> SUFFICES ASSUME WaveInv, [Next]_vars PROVE WaveShape(wave') /\ Listed(wave')
  BY MailType DEF WaveInv
<1>1. CASE LaneFree
  BY <1>1, LaneFreeStep
<1>2. CASE FillWithInbox \/ Fill
  BY <1>2, StartedListed DEF FillWithInbox, Fill, WaveInv
<1>3. CASE LookReturns
  BY <1>3, LookReturnsIs, StartedListed DEF WaveInv
<1>4. CASE \E f \in Mailboxes : PassStep(f)
  BY <1>4, PassStepListed
<1>5. CASE UNCHANGED vars
  BY <1>5 DEF vars, WaveInv
<1> QED
  BY <1>1, <1>2, <1>3, <1>4, <1>5, NextIs

-----------------------------------------------------------------------------
(* INBOX alone.                                                            *)

\* A pass of another mailbox starts only in Fill, which asks the active list; so a
\* pass of INBOX that is not listed is all that could go wrong.
LEMMA NextAlone ==
    ASSUME WaveInv, [Next]_vars, NEW f \in Mailboxes \ {Inbox},
           Len(wave'.running[f]) > Len(wave.running[f]), ~wave.twice
    PROVE  wave.running[Inbox] = <<>>
<1> Len(wave.running[f]) \in Nat
  BY LenProperties DEF WaveInv, WaveShape
<1>1. CASE LaneFree
  <2>1. wave'.running # wave.running
    OBVIOUS
  <2>2. wave'.running[f] = <<>>
    BY <1>1, <2>1, LaneFreeStep DEF SameLanes, NoWave
  <2> QED
    BY <2>2
<1>2. CASE FillWithInbox
  BY <1>2, StartedListed DEF FillWithInbox, WaveInv
<1>3. CASE Fill
  <2>1. Inbox \notin wave.active
    BY <1>3 DEF Fill, Held
  <2> QED
    BY <2>1 DEF WaveInv, Listed
<1>4. CASE LookReturns
  BY <1>4, LookReturnsIs, StartedListed DEF WaveInv
<1>5. CASE \E g \in Mailboxes : PassStep(g)
  <2>1. Len(wave'.running[f]) <= Len(wave.running[f])
    BY <1>5, PassStepListed
  <2>2. wave'.running[f] \in Seq(Readings)
    BY <1>5, PassStepListed DEF WaveShape
  <2>3. Len(wave'.running[f]) \in Nat
    BY <2>2, LenProperties
  <2> QED
    BY <2>1, <2>3
<1>6. CASE UNCHANGED vars
  BY <1>6 DEF vars
<1> QED
  BY <1>1, <1>2, <1>3, <1>4, <1>5, <1>6, NextIs

\* While INBOX's one pass runs no other mailbox is given a lane, whatever looks,
\* jobs, interruptions and failures do to the wave (next_to_sync, engine.rs).
THEOREM InboxRunsAlone == Spec => InboxAlone
<1>1. WaveInv /\ [Next]_vars => [\A f \in Mailboxes \ {Inbox} :
          Len(wave'.running[f]) > Len(wave.running[f]) /\ ~wave.twice
             => wave.running[Inbox] = <<>>]_vars
  BY NextAlone
<1> QED
  BY <1>1, InitWave, NextWave, PTL DEF Spec, InboxAlone

-----------------------------------------------------------------------------
(* Counting the passes.                                                    *)

LEMMA InRunning ==
    ASSUME NEW w, NEW f, NEW i
    PROVE  <<f, i>> \in Running(w) <=> f \in Mailboxes /\ i \in DOMAIN w.running[f]
<1>1. ASSUME f \in Mailboxes, i \in DOMAIN w.running[f] PROVE <<f, i>> \in Running(w)
  <2>1. <<f, i>> \in {f} \X DOMAIN w.running[f]
    BY <1>1
  <2> QED
    BY <1>1, <2>1 DEF Running
<1>2. ASSUME <<f, i>> \in Running(w) PROVE f \in Mailboxes /\ i \in DOMAIN w.running[f]
  <2> PICK g \in Mailboxes : <<f, i>> \in {g} \X DOMAIN w.running[g]
    BY <1>2 DEF Running
  <2> QED
    OBVIOUS
<1> QED
  BY <1>1, <1>2

LEMMA RunningArePairs ==
    ASSUME NEW w, NEW x \in Running(w)
    PROVE  \E f, i : x = <<f, i>>
<1> PICK f \in Mailboxes : x \in {f} \X DOMAIN w.running[f]
  BY DEF Running
<1> QED
  OBVIOUS

LEMMA SameLanesKept ==
    ASSUME NEW w, NEW x, LanesKept(w), SameLanes(w, x)
    PROVE  LanesKept(x)
BY DEF LanesKept, SameLanes, Passes, Running

LEMMA NoWaveKept == LanesKept(NoWave)
<1>1. NoWave.running = [f \in Mailboxes |-> <<>>] /\ NoWave.active = {}
  BY DEF NoWave
<1>2. \A f \in Mailboxes : DOMAIN NoWave.running[f] = {}
  BY <1>1
<1>3. Running(NoWave) = {}
  <2>1. ASSUME NEW x \in Running(NoWave) PROVE FALSE
    <3> PICK f \in Mailboxes : x \in {f} \X DOMAIN NoWave.running[f]
      BY DEF Running
    <3> QED
      BY <1>2
  <2> QED
    BY <2>1
<1>4. IsFiniteSet(Running(NoWave)) /\ Passes(NoWave) = 0
  BY <1>3, FS_EmptySet DEF Passes
<1>5. 0 <= Lanes
  OBVIOUS
<1> QED
  BY <1>1, <1>4, <1>5 DEF LanesKept

\* An admitted pass is one more, in its mailbox's next place.
LEMMA StartedRunning ==
    ASSUME WaveShape(wave), IsFiniteSet(Running(wave)), NEW f \in Mailboxes
    PROVE  /\ IsFiniteSet(Running(Started(wave, f)))
           /\ Passes(Started(wave, f)) = Passes(wave) + 1
           /\ Started(wave, f).active = wave.active \cup {f}
           /\ Started(wave, f).admitted = Append(wave.admitted, f)
           /\ Started(wave, f).draining = wave.draining
           /\ Started(wave, f).running
                 = [wave.running EXCEPT ![f] = Append(wave.running[f], Unread)]
<1> DEFINE w == Started(wave, f)
           n == Len(wave.running[f])
           new == <<f, n + 1>>
<1>1. w.running = [wave.running EXCEPT ![f] = Append(wave.running[f], Unread)]
  BY DEF WaveShape, Started
<1>2. /\ w.active = wave.active \cup {f}
      /\ w.admitted = Append(wave.admitted, f)
      /\ w.draining = wave.draining
  BY DEF WaveShape, Started
<1>3. wave.running[f] \in Seq(Readings) /\ Unread \in Readings
  BY DEF WaveShape, Readings
<1>4. n \in Nat /\ DOMAIN wave.running[f] = 1 .. n
  BY <1>3, LenProperties
<1>5. DOMAIN Append(wave.running[f], Unread) = 1 .. (n + 1)
  <2>1. /\ Append(wave.running[f], Unread) \in Seq(Readings)
        /\ Len(Append(wave.running[f], Unread)) = n + 1
    BY <1>3, AppendProperties
  <2> QED
    BY <2>1, LenProperties
<1>6. \A g \in Mailboxes : w.running[g] = IF g = f THEN Append(wave.running[f], Unread)
                                            ELSE wave.running[g]
  BY <1>1 DEF WaveShape
<1> HIDE DEF w
<1>7. \A g, i : <<g, i>> \in Running(w) <=> <<g, i>> \in Running(wave) \cup {new}
  <2> TAKE g, i
  <2>1. CASE g = f
    <3>1. \A k, m \in Nat : m = m + 1 - 1 /\ (k <= m + 1 <=> k <= m \/ k = m + 1)
      OBVIOUS
    <3>2. i \in 1 .. (n + 1) <=> i \in 1 .. n \/ i = n + 1
      BY <1>4
    <3>3. <<g, i>> \in Running(w) <=> i \in 1 .. (n + 1)
      BY <2>1, <1>5, <1>6, InRunning
    <3>4. <<g, i>> \in Running(wave) <=> i \in 1 .. n
      BY <2>1, <1>4, InRunning
    <3>5. <<g, i>> = new <=> i = n + 1
      BY <2>1
    <3> QED
      BY <3>2, <3>3, <3>4, <3>5
  <2>2. CASE g # f
    <3>1. <<g, i>> # new
      BY <2>2
    <3>2. <<g, i>> \in Running(w) <=> <<g, i>> \in Running(wave)
      BY <2>2, <1>6, InRunning
    <3> QED
      BY <3>1, <3>2
  <2> QED
    BY <2>1, <2>2
<1>8. Running(w) = Running(wave) \cup {new}
  <2>1. \A x : x \in Running(w) <=> x \in Running(wave) \cup {new}
    BY <1>7, RunningArePairs
  <2> QED
    BY <2>1
<1>9. new \notin Running(wave)
  <2>1. n + 1 \notin 1 .. n
    BY <1>4
  <2> QED
    BY <1>4, <2>1, InRunning
<1>10. IsFiniteSet(Running(w)) /\ Cardinality(Running(w)) = Cardinality(Running(wave)) + 1
  <2> HIDE DEF new
  <2> QED
    BY <1>8, <1>9, FS_AddElement
<1> QED
  BY <1>1, <1>2, <1>10 DEF Passes, w

\* One that has ended is one fewer.
LEMMA EndedRunning ==
    ASSUME WaveShape(wave), IsFiniteSet(Running(wave)), NEW f \in Mailboxes,
           NEW i \in DOMAIN wave.running[f], NEW interrupted, Ended(f, i, interrupted)
    PROVE  /\ IsFiniteSet(Running(wave'))
           /\ Passes(wave') = Passes(wave) - 1
           /\ wave'.active = wave.active \ {f}
           /\ wave'.admitted = wave.admitted
           /\ wave'.draining = wave.draining
           /\ wave'.running
                 = [wave.running EXCEPT ![f] = RemoveAt(wave.running[f], i)]
<1> DEFINE cut == RemoveAt(wave.running[f], i)
           n == Len(wave.running[f])
           gone == <<f, n>>
<1>1. /\ wave'.running = [wave.running EXCEPT ![f] = cut]
      /\ wave'.active = wave.active \ {f}
      /\ wave'.admitted = wave.admitted
      /\ wave'.draining = wave.draining
  BY DEF WaveShape, Ended
<1>2. wave.running[f] \in Seq(Readings)
  BY DEF WaveShape
<1>3. n \in Nat /\ DOMAIN wave.running[f] = 1 .. n
  BY <1>2, LenProperties
<1>4. cut \in Seq(Readings) /\ Len(cut) = n - 1
  BY <1>2, RemoveAtType
<1>5. DOMAIN cut = 1 .. (n - 1)
  BY <1>4, LenProperties
<1> HIDE DEF cut
<1>6. \A g \in Mailboxes : wave'.running[g] = IF g = f THEN cut ELSE wave.running[g]
  BY <1>1 DEF WaveShape
<1> DEFINE w == wave'
<1>7. \A g \in Mailboxes : w.running[g] = IF g = f THEN cut ELSE wave.running[g]
  BY <1>6
<1>8. w.running = [wave.running EXCEPT ![f] = cut] /\ w.active = wave.active \ {f}
      /\ w.admitted = wave.admitted /\ w.draining = wave.draining
  BY <1>1
<1> HIDE DEF w
<1>9. \A g, k : <<g, k>> \in Running(w) <=> <<g, k>> \in Running(wave) \ {gone}
  <2> TAKE g, k
  <2>1. CASE g = f
    <3>2. k \in 1 .. (n - 1) <=> k \in 1 .. n /\ k # n
      BY <1>3
    <3>3. <<g, k>> \in Running(w) <=> k \in 1 .. (n - 1)
      BY <2>1, <1>5, <1>7, InRunning
    <3>4. <<g, k>> \in Running(wave) <=> k \in 1 .. n
      BY <2>1, <1>3, InRunning
    <3>5. <<g, k>> = gone <=> k = n
      BY <2>1
    <3> QED
      BY <3>2, <3>3, <3>4, <3>5
  <2>2. CASE g # f
    <3>1. <<g, k>> # gone
      BY <2>2
    <3>2. <<g, k>> \in Running(w) <=> <<g, k>> \in Running(wave)
      BY <2>2, <1>7, InRunning
    <3> QED
      BY <3>1, <3>2
  <2> QED
    BY <2>1, <2>2
<1>10. Running(w) = Running(wave) \ {gone}
  <2>1. \A x : x \in Running(w) <=> x \in Running(wave) \ {gone}
    BY <1>9, RunningArePairs
  <2> QED
    BY <2>1
<1>11. gone \in Running(wave)
  <2>1. n \in 1 .. n
    BY <1>3
  <2> QED
    BY <1>3, <2>1, InRunning
<1>12. IsFiniteSet(Running(w)) /\ Cardinality(Running(w)) = Cardinality(Running(wave)) - 1
  <2> HIDE DEF gone
  <2> QED
    BY <1>10, <1>11, FS_RemoveElement
<1> QED
  BY <1>8, <1>12 DEF Passes, w, cut

-----------------------------------------------------------------------------
(* The lanes are kept.                                                     *)

LEMMA PassesType == ASSUME NEW w, IsFiniteSet(Running(w)) PROVE Passes(w) \in Nat
BY FS_CardinalityType DEF Passes

\* A pass of f reads, or ends as some pass of it does.
LEMMA PassStepIs ==
    ASSUME NEW f \in Mailboxes, PassStep(f)
    PROVE  \E i \in DOMAIN wave.running[f] :
              \/ PassReads(f, i)
              \/ \E interrupted \in BOOLEAN : Ended(f, i, interrupted)
BY DEF PassStep, PassFinishes, PassInterrupted, PassFails

\* A pass that reads keeps its place.
LEMMA PassReadsRunning ==
    ASSUME WaveInv, NEW f \in Mailboxes, NEW i \in DOMAIN wave.running[f], PassReads(f, i)
    PROVE  /\ Running(wave') = Running(wave)
           /\ wave'.active = wave.active
           /\ wave'.admitted = wave.admitted
           /\ wave'.draining = wave.draining
           /\ wave'.running
                 = [wave.running EXCEPT ![f] = [wave.running[f] EXCEPT ![i] = mail[f]]]
<1>1. /\ wave'.running
            = [wave.running EXCEPT ![f] = [wave.running[f] EXCEPT ![i] = mail[f]]]
      /\ wave'.active = wave.active
      /\ wave'.admitted = wave.admitted
      /\ wave'.draining = wave.draining
  BY DEF PassReads, WaveInv, WaveShape
<1>2. \A g \in Mailboxes : DOMAIN wave'.running[g] = DOMAIN wave.running[g]
  BY <1>1 DEF WaveInv, WaveShape
<1>3. Running(wave') = Running(wave)
  BY <1>2 DEF Running
<1> QED
  BY <1>1, <1>3

LEMMA HeadIsMailbox ==
    ASSUME OnlyMailboxes, toSync # <<>>
    PROVE  Head(toSync) \in Mailboxes /\ Tail(toSync) \in Seq(Mailboxes)
BY HeadTailProperties DEF OnlyMailboxes

LEMMA NextLanes ==
    ASSUME EngineInv, [Next]_vars
    PROVE  LanesKept(wave')
<1> USE DEF EngineInv
<1>0. Passes(wave) \in Nat
  BY PassesType DEF LanesKept
<1>1. CASE LaneFree
  BY <1>1, LaneFreeStep, SameLanesKept, NoWaveKept
<1>2. CASE FillWithInbox \/ Fill
  <2> PICK f \in Mailboxes : wave' = Started(wave, f)
    BY <1>2, HeadIsMailbox, InboxIsMailbox DEF FillWithInbox, Fill
  <2>1. Passes(wave) < Lanes
    BY <1>2 DEF FillWithInbox, Fill, FreeLane
  <2>2. /\ IsFiniteSet(Running(wave'))
        /\ Passes(wave') = Passes(wave) + 1
        /\ wave'.active = wave.active \cup {f}
    BY StartedRunning DEF LanesKept, WaveInv
  <2>3. Passes(wave) + 1 <= Lanes
    BY <1>0, <2>1
  <2> QED
    BY <2>2, <2>3 DEF LanesKept
<1>3. CASE LookReturns
  <2>1. CASE wave' = wave
    BY <2>1 DEF LanesKept, Passes, Running
  <2>2. CASE wave' = Started(wave, Inbox) /\ Inbox \notin wave.active
    <3>1. /\ IsFiniteSet(Running(wave'))
          /\ Passes(wave') = Passes(wave) + 1
          /\ wave'.active = wave.active \cup {Inbox}
      BY <2>2, StartedRunning, InboxIsMailbox DEF LanesKept, WaveInv
    <3>2. Passes(wave) <= Lanes
      BY <2>2 DEF LanesKept
    <3>3. Passes(wave) + 1 <= Lanes \/ Passes(wave) + 1 = Lanes + 1
      BY <1>0, <3>2
    <3> QED
      BY <3>1, <3>3, InboxIsMailbox DEF LanesKept
  <2> QED
    BY <1>3, <2>1, <2>2 DEF LookReturns
<1>4. CASE \E f \in Mailboxes : PassStep(f)
  <2> PICK f \in Mailboxes : PassStep(f)
    BY <1>4
  <2> PICK i \in DOMAIN wave.running[f] :
         PassReads(f, i) \/ \E interrupted \in BOOLEAN : Ended(f, i, interrupted)
    BY PassStepIs
  <2>1. CASE PassReads(f, i)
    <3>1. Running(wave') = Running(wave) /\ wave'.active = wave.active
      BY <2>1, PassReadsRunning
    <3> QED
      BY <3>1 DEF LanesKept, Passes
  <2>2. CASE \E interrupted \in BOOLEAN : Ended(f, i, interrupted)
    <3>1. /\ IsFiniteSet(Running(wave'))
          /\ Passes(wave') = Passes(wave) - 1
          /\ wave'.active = wave.active \ {f}
      BY <2>2, EndedRunning DEF LanesKept, WaveInv
    <3>2. Passes(wave) - 1 <= Lanes
      BY <1>0 DEF LanesKept
    <3> QED
      BY <3>1, <3>2 DEF LanesKept
  <2> QED
    BY <2>1, <2>2
<1>5. CASE UNCHANGED vars
  BY <1>5 DEF vars, LanesKept, Passes, Running
<1> QED
  BY <1>1, <1>2, <1>3, <1>4, <1>5, NextIs

-----------------------------------------------------------------------------
(* What is queued, admitted and looked at is a mailbox.                    *)

\* The entries of a sequence that are in a set are a sequence of its entries.
LEMMA OnlyType ==
    ASSUME NEW M, NEW s \in Seq(M), NEW S
    PROVE  Only(s, S) \in Seq(M)
<1> DEFINE at == {i \in DOMAIN s : s[i] \in S}
           place(k) == CHOOSE i \in at : Cardinality({j \in at : j <= i}) = k
<1>1. Len(s) \in Nat /\ DOMAIN s = 1 .. Len(s) /\ \A i \in 1 .. Len(s) : s[i] \in M
  BY LenProperties, ElementOfSeq
<1>2. IsFiniteSet(at) /\ at \in SUBSET Nat
  <2>1. IsFiniteSet(1 .. Len(s))
    BY <1>1, FS_Interval
  <2> QED
    BY <1>1, <2>1, FS_Subset
<1>3. \A k \in 1 .. Cardinality(at) : \E i \in at : Cardinality({j \in at : j <= i}) = k
  <2> HIDE DEF at
  <2> QED
    BY <1>2, RanksOnto
<1>4. \A k \in 1 .. Cardinality(at) : place(k) \in at
  BY <1>3
<1>5. \A k \in 1 .. Cardinality(at) : s[place(k)] \in M
  BY <1>1, <1>4
<1>6. Cardinality(at) \in Nat
  BY <1>2, FS_CardinalityType
<1>7. Only(s, S) = [k \in 1 .. Cardinality(at) |-> s[place(k)]]
  BY DEF Only
<1> HIDE DEF at, place
<1>8. Only(s, S) \in [1 .. Cardinality(at) -> M]
  BY <1>5, <1>7
<1> QED
  BY <1>6, <1>8, IsASeq

LEMMA RemoveAtMailbox ==
    ASSUME NEW M, NEW s \in Seq(M), NEW i \in DOMAIN s
    PROVE  RemoveAt(s, i) \in Seq(M)
<1>1. i \in 1 .. Len(s) /\ Len(s) \in Nat
  BY LenProperties
<1>2. SubSeq(s, 1, i - 1) \in Seq(M) /\ SubSeq(s, i + 1, Len(s)) \in Seq(M)
  BY <1>1, SubSeqProperties
<1> QED
  BY <1>2, ConcatProperties DEF RemoveAt

\* Whatever is put on the queue, in front or behind, is a mailbox.
LEMMA NextQueue ==
    ASSUME EngineInv, [Next]_vars
    PROVE  toSync' \in Seq(Mailboxes)
<1> USE DEF EngineInv
<1>0. toSync \in Seq(Mailboxes) /\ wave.admitted \in Seq(Mailboxes)
  BY DEF OnlyMailboxes
<1>a. \A f \in Mailboxes : Append(toSync, f) \in Seq(Mailboxes)
  BY <1>0, AppendProperties
<1>b. \A s, t \in Seq(Mailboxes) : s \o t \in Seq(Mailboxes)
  BY ConcatProperties
<1>1. CASE UNCHANGED toSync
  BY <1>0, <1>1
<1>2. CASE CameUp
  <2>1. toSync' = [i \in 1 .. Folders |-> i] /\ Folders \in Nat
    BY <1>2 DEF CameUp, Mailboxes
  <2>2. toSync' \in [1 .. Folders -> Mailboxes]
    BY <2>1 DEF Mailboxes
  <2> QED
    BY <2>1, <2>2, IsASeq
<1>3. CASE FillWithInbox
  BY <1>0, <1>3, RemoveAtMailbox DEF FillWithInbox
<1>4. CASE Fill
  BY <1>4, HeadIsMailbox DEF Fill
<1>5. CASE LookReturns
  <2>1. <<Inbox>> \in Seq(Mailboxes)
    BY InboxIsMailbox
  <2>2. <<Inbox>> \o toSync \in Seq(Mailboxes)
    BY <1>0, <1>b, <2>1
  <2>3. Only(toSync, Mailboxes \ {Inbox}) \in Seq(Mailboxes)
    BY <1>0, OnlyType
  <2> QED
    BY <1>0, <1>5, <2>2, <2>3 DEF LookReturns
<1>6. CASE EndWave
  <2>1. Requeued \in Seq(Mailboxes)
    BY <1>0, OnlyType DEF Requeued
  <2>2. \/ toSync' = Requeued \o toSync
        \/ toSync' = Requeued \o Append(toSync, Inbox)
    BY <1>6 DEF EndWave
  <2> QED
    BY <1>0, <1>a, <1>b, <2>1, <2>2, InboxIsMailbox
<1>7. CASE WatchReturns
  <2>1. look.folder \in Mailboxes
    BY <1>7 DEF WatchReturns, OnlyMailboxes
  <2>2. toSync' = toSync \/ toSync' = Append(toSync, look.folder)
    BY <1>7 DEF WatchReturns
  <2> QED
    BY <1>0, <1>a, <2>1, <2>2
<1>8. CASE \/ TakeJob \/ Tick \/ LinkAsItWas \/ BeginWave \/ ServeHandedBack
           \/ AfterWaves \/ Filled \/ AttendAfterPass \/ Attend
           \/ WatchNothing \/ (\E f \in Mailboxes, kind \in {"idle", "status"} : Watch(f, kind))
           \/ Reconnect \/ TickFindsLinkDead \/ ClaimBodies \/ BodiesSettle \/ DrainSettles
           \/ Look \/ LookFails \/ RetryFallsDue \/ WorldStep
           \/ (\E f \in Mailboxes : PassStep(f)) \/ UNCHANGED vars
  BY <1>1, <1>8 DEF TakeJob, Tick, LinkAsItWas, BeginWave, ServeHandedBack, AfterWaves,
        Filled, AttendAfterPass, Attend, WatchNothing, Watch, Reconnect, TickFindsLinkDead,
        ClaimBodies, BodiesSettle, DrainSettles, Look, LookFails, RetryFallsDue, WorldStep,
        Arrive, SendJob, QueueOperation, PassStep, PassReads, PassFinishes,
        PassInterrupted, PassFails, Ended, vars
<1> QED
  BY <1>2, <1>3, <1>4, <1>5, <1>6, <1>7, <1>8, NextIs DEF LaneFree

LEMMA NextLook ==
    ASSUME EngineInv, [Next]_vars
    PROVE  look' = NoLook \/ look'.folder \in Mailboxes
<1> USE DEF EngineInv
<1>1. CASE look' \in {look, NoLook}
  BY <1>1 DEF OnlyMailboxes
<1>2. CASE \E f \in Mailboxes, kind \in {"idle", "status"} : look' = Step(f, kind)
  BY <1>2 DEF Step
<1>3. CASE Look \/ (\E f \in Mailboxes, kind \in {"idle", "status"} : Watch(f, kind))
  BY <1>2, <1>3, InboxIsMailbox DEF Look, Watch
<1>4. CASE \/ TakeJob \/ Tick \/ CameUp \/ LinkAsItWas \/ BeginWave \/ ServeHandedBack
           \/ AfterWaves \/ Filled \/ AttendAfterPass \/ Attend \/ EndWave
           \/ WatchNothing \/ Reconnect \/ TickFindsLinkDead \/ ClaimBodies
           \/ BodiesSettle \/ DrainSettles \/ WatchReturns \/ LookFails \/ RetryFallsDue
           \/ WorldStep \/ FillWithInbox \/ Fill \/ LookReturns
           \/ (\E f \in Mailboxes : PassStep(f)) \/ UNCHANGED vars
  BY <1>1, <1>4 DEF TakeJob, Tick, CameUp, LinkAsItWas, BeginWave, ServeHandedBack,
        AfterWaves, Filled, AttendAfterPass, Attend, EndWave, WatchNothing, Reconnect,
        TickFindsLinkDead, ClaimBodies, BodiesSettle, DrainSettles, WatchReturns,
        LookFails, RetryFallsDue, WorldStep, Arrive, SendJob, QueueOperation, PassStep,
        PassReads, PassFinishes, PassInterrupted, PassFails, Ended, FillWithInbox, Fill,
        LookReturns, vars
<1> QED
  BY <1>3, <1>4, NextIs DEF LaneFree

LEMMA NextOnlyMailboxes == EngineInv /\ [Next]_vars => OnlyMailboxes'
<1> SUFFICES ASSUME EngineInv, [Next]_vars PROVE wave'.admitted \in Seq(Mailboxes)
  BY NextQueue, NextLook DEF OnlyMailboxes
<1> USE DEF EngineInv
<1>0. wave.admitted \in Seq(Mailboxes)
  BY DEF OnlyMailboxes
<1>a. \A f \in Mailboxes : Append(wave.admitted, f) \in Seq(Mailboxes)
  BY <1>0, AppendProperties
<1>1. CASE LaneFree
  <2>1. NoWave.admitted = <<>> /\ <<>> \in Seq(Mailboxes)
    BY EmptySeq DEF NoWave
  <2> QED
    BY <1>0, <1>1, <2>1, LaneFreeStep DEF SameLanes
<1>2. CASE FillWithInbox \/ Fill \/ LookReturns
  <2>1. CASE wave' = wave
    BY <1>0, <2>1
  <2>2. CASE \E f \in Mailboxes : wave' = Started(wave, f)
    <3> PICK f \in Mailboxes : wave' = Started(wave, f)
      BY <2>2
    <3>1. wave'.admitted = Append(wave.admitted, f)
      BY StartedRunning DEF WaveInv, LanesKept
    <3> QED
      BY <1>a, <3>1
  <2> QED
    BY <1>2, <2>1, <2>2, HeadIsMailbox, InboxIsMailbox, LookReturnsIs DEF FillWithInbox, Fill
<1>3. CASE \E f \in Mailboxes : PassStep(f)
  <2> PICK f \in Mailboxes : PassStep(f)
    BY <1>3
  <2> PICK i \in DOMAIN wave.running[f] :
         PassReads(f, i) \/ \E interrupted \in BOOLEAN : Ended(f, i, interrupted)
    BY PassStepIs
  <2>1. wave'.admitted = wave.admitted
    BY PassReadsRunning, EndedRunning DEF WaveInv, LanesKept
  <2> QED
    BY <1>0, <2>1
<1>4. CASE UNCHANGED vars
  BY <1>0, <1>4 DEF vars
<1> QED
  BY <1>1, <1>2, <1>3, <1>4, NextIs

-----------------------------------------------------------------------------
(* What is read was there.                                                 *)

\* A mailbox only moves on.
LEMMA MailGrows ==
    ASSUME EngineInv, [Next]_vars
    PROVE  /\ mail' \in [Mailboxes -> Nat]
           /\ \A f \in Mailboxes : mail[f] <= mail'[f]
<1> USE DEF EngineInv
<1>0. mail \in [Mailboxes -> Nat] /\ mail' \in [Mailboxes -> Nat]
  BY MailType DEF WaveInv
<1>1. CASE UNCHANGED mail
  BY <1>0, <1>1
<1>2. CASE \E f \in Mailboxes : Arrive(f)
  <2> PICK f \in Mailboxes : mail' = [mail EXCEPT ![f] = @ + 1]
    BY <1>2 DEF Arrive
  <2> QED
    BY <1>0
<1>3. CASE \/ LaneFree /\ ~(\E f \in Mailboxes : Arrive(f))
           \/ FillWithInbox \/ Fill \/ LookReturns \/ (\E f \in Mailboxes : PassStep(f))
           \/ UNCHANGED vars
  BY <1>1, <1>3 DEF LaneFree, TakeJob, Tick, CameUp, LinkAsItWas, BeginWave,
        ServeHandedBack, AfterWaves, Filled, AttendAfterPass, Attend, EndWave,
        WatchNothing, Watch, Reconnect, TickFindsLinkDead, ClaimBodies, BodiesSettle,
        DrainSettles, Look, WatchReturns, LookFails, RetryFallsDue, WorldStep, SendJob,
        QueueOperation, FillWithInbox, Fill, LookReturns, PassStep, PassReads,
        PassFinishes, PassInterrupted, PassFails, Ended, world_vars, vars
<1> QED
  BY <1>2, <1>3, NextIs

LEMMA SettledHave ==
    ASSUME ReadIsThere, mail \in [Mailboxes -> Nat], NEW f \in Mailboxes, NEW seen,
           seen \in Nat \/ ~(seen > have[f]), seen <= mail[f], Settled(f, seen)
    PROVE  /\ have' \in [Mailboxes -> Nat]
           /\ \A g \in Mailboxes : have'[g] <= mail[g]
<1>1. have' = [have EXCEPT ![f] = IF seen > have[f] THEN seen ELSE have[f]]
  BY DEF Settled, ReadIsThere
<1> QED
  BY <1>1 DEF ReadIsThere

\* What is held: of a pass that finished, what it read; of a job's, what is there.
LEMMA NextHave ==
    ASSUME EngineInv, [Next]_vars
    PROVE  /\ have' \in [Mailboxes -> Nat]
           /\ \A f \in Mailboxes : have'[f] <= mail[f]
<1> USE DEF EngineInv
<1>0. mail \in [Mailboxes -> Nat]
  BY DEF WaveInv
<1>1. CASE UNCHANGED have
  BY <1>1 DEF ReadIsThere
<1>2. CASE ServeSync
  <2>1. CASE \E f \in Mailboxes : Settled(f, mail[f])
    BY <1>0, <2>1, SettledHave
  <2> QED
    BY <1>1, <1>2, <2>1 DEF ServeSync
<1>3. CASE \E f \in Mailboxes : PassStep(f)
  <2> PICK f \in Mailboxes : PassStep(f)
    BY <1>3
  <2> PICK i \in DOMAIN wave.running[f] :
         PassReads(f, i) \/ PassFinishes(f, i) \/ PassInterrupted(f, i) \/ PassFails(f, i)
    BY DEF PassStep
  <2>1. CASE PassFinishes(f, i)
    <3>1. wave.running[f] \in Seq(Readings)
      BY DEF WaveInv, WaveShape
    <3>2. wave.running[f][i] \in Readings
      BY <3>1, LenProperties, ElementOfSeq
    <3>3. wave.running[f][i] \in Nat /\ wave.running[f][i] <= mail[f]
      BY <2>1, <3>2 DEF PassFinishes, Readings, ReadIsThere
    <3> QED
      BY <1>0, <2>1, <3>3, SettledHave DEF PassFinishes
  <2> QED
    BY <1>1, <2>1 DEF PassReads, PassInterrupted, PassFails
<1>4. CASE TakeJob
  BY <1>1, <1>2, <1>4 DEF TakeJob, Serve
<1>5. CASE ServeHandedBack
  BY <1>2, <1>5 DEF ServeHandedBack
<1>6. CASE \/ Tick \/ CameUp \/ LinkAsItWas \/ BeginWave
           \/ AfterWaves \/ Filled \/ AttendAfterPass \/ Attend \/ EndWave
           \/ WatchNothing \/ (\E f \in Mailboxes, kind \in {"idle", "status"} : Watch(f, kind))
           \/ Reconnect \/ TickFindsLinkDead \/ ClaimBodies \/ BodiesSettle \/ DrainSettles
           \/ Look \/ WatchReturns \/ LookFails \/ RetryFallsDue \/ WorldStep
           \/ FillWithInbox \/ Fill \/ LookReturns \/ UNCHANGED vars
  BY <1>1, <1>6 DEF Tick, CameUp, LinkAsItWas, BeginWave, AfterWaves, Filled,
        AttendAfterPass, Attend, EndWave, WatchNothing, Watch, Reconnect,
        TickFindsLinkDead, ClaimBodies, BodiesSettle, DrainSettles, Look, WatchReturns,
        LookFails, RetryFallsDue, WorldStep, Arrive, SendJob, QueueOperation,
        FillWithInbox, Fill, LookReturns, vars
<1> QED
  BY <1>3, <1>4, <1>5, <1>6, NextIs DEF LaneFree

\* What the passes hold: each is asked of the server, or was there before.
ReadBy(w) == \A f \in Mailboxes : \A i \in DOMAIN w.running[f] : w.running[f][i] <= mail[f]

LEMMA NextReadings ==
    ASSUME EngineInv, [Next]_vars
    PROVE  ReadBy(wave')
<1> USE DEF EngineInv
<1>0. /\ mail \in [Mailboxes -> Nat] /\ ReadBy(wave)
      /\ wave.running \in [Mailboxes -> Seq(Readings)]
  BY DEF WaveInv, ReadIsThere, ReadBy, WaveShape
<1>1. CASE LaneFree
  <2>1. CASE wave'.running = wave.running
    BY <1>0, <2>1 DEF ReadBy
  <2>2. CASE wave'.running = NoWave.running
    <3>1. \A f \in Mailboxes : DOMAIN wave'.running[f] = {}
      BY <2>2 DEF NoWave
    <3> QED
      BY <3>1 DEF ReadBy
  <2> QED
    BY <1>1, <2>1, <2>2, LaneFreeStep DEF SameLanes
<1>2. CASE FillWithInbox \/ Fill \/ LookReturns
  <2>1. CASE wave' = wave
    BY <1>0, <2>1 DEF ReadBy
  <2>2. CASE \E f \in Mailboxes : wave' = Started(wave, f)
    <3> PICK f \in Mailboxes : wave' = Started(wave, f)
      BY <2>2
    <3> DEFINE more == Append(wave.running[f], Unread)
    <3>1. wave'.running = [wave.running EXCEPT ![f] = more]
      BY StartedRunning DEF WaveInv, LanesKept
    <3>2. \A i \in DOMAIN more : \/ more[i] = Unread
                                 \/ /\ i \in DOMAIN wave.running[f]
                                    /\ more[i] = wave.running[f][i]
      <4>1. wave.running[f] \in Seq(Readings) /\ Unread \in Readings
        BY <1>0 DEF Readings
      <4>2. /\ more \in Seq(Readings) /\ Len(more) = Len(wave.running[f]) + 1
            /\ \A i \in 1 .. Len(wave.running[f]) : more[i] = wave.running[f][i]
            /\ more[Len(wave.running[f]) + 1] = Unread
        BY <4>1, AppendProperties
      <4>3. /\ DOMAIN more = 1 .. (Len(wave.running[f]) + 1)
            /\ DOMAIN wave.running[f] = 1 .. Len(wave.running[f])
            /\ Len(wave.running[f]) \in Nat
        BY <4>1, <4>2, LenProperties
      <4> HIDE DEF more
      <4>4. \A n \in Nat : \A i \in 1 .. (n + 1) : i \in 1 .. n \/ i = n + 1
        OBVIOUS
      <4> QED
        BY <4>2, <4>3, <4>4, Zenon
    <3> HIDE DEF more
    <3>3. Unread <= mail[f]
      BY <1>0 DEF Unread
    <3>4. ASSUME NEW g \in Mailboxes, NEW i \in DOMAIN wave'.running[g]
          PROVE  wave'.running[g][i] <= mail[g]
      <4>1. CASE g = f
        BY <1>0, <3>1, <3>2, <3>3, <4>1 DEF ReadBy
      <4>2. CASE g # f
        BY <1>0, <3>1, <4>2 DEF ReadBy
      <4> QED
        BY <4>1, <4>2
    <3> QED
      BY <3>4 DEF ReadBy
  <2> QED
    BY <1>2, <2>1, <2>2, HeadIsMailbox, InboxIsMailbox, LookReturnsIs DEF FillWithInbox, Fill
<1>3. CASE \E f \in Mailboxes : PassStep(f)
  <2> PICK f \in Mailboxes : PassStep(f)
    BY <1>3
  <2> PICK i \in DOMAIN wave.running[f] :
         PassReads(f, i) \/ \E interrupted \in BOOLEAN : Ended(f, i, interrupted)
    BY PassStepIs
  <2>1. CASE PassReads(f, i)
    <3> DEFINE read == [wave.running[f] EXCEPT ![i] = mail[f]]
    <3>1. wave'.running = [wave.running EXCEPT ![f] = read]
      BY <2>1, PassReadsRunning
    <3>2. /\ DOMAIN read = DOMAIN wave.running[f]
          /\ \A k \in DOMAIN read : read[k] = IF k = i THEN mail[f] ELSE wave.running[f][k]
      OBVIOUS
    <3> HIDE DEF read
    <3>3. mail[f] <= mail[f]
      BY <1>0
    <3> QED
      BY <1>0, <3>1, <3>2, <3>3 DEF ReadBy
  <2>2. CASE \E interrupted \in BOOLEAN : Ended(f, i, interrupted)
    <3> DEFINE cut == RemoveAt(wave.running[f], i)
               s == wave.running[f]
    <3>1. wave'.running = [wave.running EXCEPT ![f] = cut]
      BY <2>2, EndedRunning DEF WaveInv, LanesKept
    <3>2. \A k \in DOMAIN cut : \E j \in DOMAIN s : cut[k] = s[j]
      <4>1. s \in Seq(Readings)
        BY <1>0
      <4> HIDE DEF s
      <4>2. /\ Len(s) \in Nat /\ DOMAIN s = 1 .. Len(s) /\ i \in 1 .. Len(s)
        BY <4>1, LenProperties DEF s
      <4>3. s \in Seq({s[j] : j \in DOMAIN s})
        BY <4>1, <4>2, IsASeq
      <4>4. RemoveAt(s, i) \in Seq({s[j] : j \in DOMAIN s})
        BY <4>2, <4>3, RemoveAtMailbox
      <4> QED
        BY <4>4, LenProperties, ElementOfSeq DEF s
    <3> HIDE DEF cut, s
    <3>3. ASSUME NEW g \in Mailboxes, NEW k \in DOMAIN wave'.running[g]
          PROVE  wave'.running[g][k] <= mail[g]
      <4>1. CASE g = f
        <5>1. k \in DOMAIN cut /\ wave'.running[g][k] = cut[k]
          BY <1>0, <3>1, <4>1
        <5>2. PICK j \in DOMAIN s : cut[k] = s[j]
          BY <3>2, <5>1
        <5> QED
          BY <1>0, <4>1, <5>1, <5>2 DEF ReadBy, s
      <4>2. CASE g # f
        BY <1>0, <3>1, <4>2 DEF ReadBy
      <4> QED
        BY <4>1, <4>2
    <3> QED
      BY <3>3 DEF ReadBy
  <2> QED
    BY <2>1, <2>2
<1>4. CASE UNCHANGED vars
  BY <1>0, <1>4 DEF vars, ReadBy
<1> QED
  BY <1>1, <1>2, <1>3, <1>4, NextIs

LEMMA NextRead == EngineInv /\ [Next]_vars => ReadIsThere'
<1> SUFFICES ASSUME EngineInv, [Next]_vars PROVE ReadIsThere'
  OBVIOUS
<1>1. /\ mail \in [Mailboxes -> Nat] /\ mail' \in [Mailboxes -> Nat]
      /\ \A f \in Mailboxes : mail[f] <= mail'[f]
  BY MailGrows DEF EngineInv, WaveInv
<1>2. have' \in [Mailboxes -> Nat] /\ \A f \in Mailboxes : have'[f] <= mail[f]
  BY NextHave
<1>3. \A f \in Mailboxes : have'[f] <= mail'[f]
  <2>1. \A a, b, c \in Nat : a <= b /\ b <= c => a <= c
    OBVIOUS
  <2> QED
    BY <1>1, <1>2, <2>1
<1>4. \A f \in Mailboxes : \A i \in DOMAIN wave'.running[f] :
         wave'.running[f][i] \in Int /\ wave'.running[f][i] <= mail[f]
  <2>1. ReadBy(wave')
    BY NextReadings
  <2>2. wave'.running \in [Mailboxes -> Seq(Readings)]
    BY NextWave DEF EngineInv, WaveInv, WaveShape
  <2>3. \A f \in Mailboxes : \A i \in DOMAIN wave'.running[f] :
           wave'.running[f][i] \in Readings
    BY <2>2, LenProperties, ElementOfSeq
  <2> QED
    BY <2>1, <2>3 DEF ReadBy, Readings, Unread
<1>5. \A f \in Mailboxes : \A i \in DOMAIN wave'.running[f] :
         wave'.running[f][i] <= mail'[f]
  <2>1. \A a \in Int : \A b, c \in Nat : a <= b /\ b <= c => a <= c
    OBVIOUS
  <2> QED
    BY <1>1, <1>4, <2>1
<1> QED
  BY <1>2, <1>3, <1>5 DEF ReadIsThere

-----------------------------------------------------------------------------
(* The drain, the link and the loop.                                       *)

LEMMA NextDrains == EngineInv /\ [Next]_vars => DrainHasRows'
<1> SUFFICES ASSUME EngineInv, [Next]_vars PROVE DrainHasRows'
  OBVIOUS
<1> USE DEF EngineInv
<1>0. /\ ops \in Nat /\ wave.draining \in Nat /\ wave.draining <= ops
      /\ pc \notin {"fill", "run", "attend"} => wave.draining = 0
  BY DEF DrainHasRows
<1>1. CASE /\ UNCHANGED <<ops, pc>>
           /\ wave'.draining = wave.draining
  BY <1>0, <1>1 DEF DrainHasRows
<1>2. CASE /\ UNCHANGED ops
           /\ wave'.draining = wave.draining
           /\ \/ wave.draining = 0
              \/ pc' \in {"fill", "run", "attend"}
  BY <1>0, <1>2 DEF DrainHasRows
<1>3. CASE ops' \in {0, ops} /\ wave'.draining = 0
  BY <1>0, <1>3 DEF DrainHasRows
<1>4. CASE \/ TakeJob \/ Reconnect \/ Tick \/ TickFindsLinkDead \/ WatchNothing
           \/ WatchReturns \/ BeginWave
  BY <1>0, <1>2, <1>4 DEF TakeJob, Reconnect, Tick, TickFindsLinkDead, WatchNothing,
        WatchReturns, BeginWave, At, Go, asks
<1>5. CASE CameUp \/ LinkAsItWas \/ AfterWaves
  BY <1>0, <1>3, <1>5 DEF CameUp, LinkAsItWas, AfterWaves, At, Drain
<1>6. CASE ServeHandedBack \/ EndWave
  BY <1>0, <1>3, <1>6 DEF ServeHandedBack, EndWave, Over, NoWave, asks
<1>7. CASE FillWithInbox \/ Fill \/ LookReturns
  <2>1. CASE wave' = wave
    BY <1>1, <1>7, <2>1 DEF FillWithInbox, Fill, LookReturns, asks
  <2>2. CASE \E f \in Mailboxes : wave' = Started(wave, f)
    <3>1. wave'.draining = wave.draining
      BY <2>2, StartedRunning DEF WaveInv, LanesKept
    <3> QED
      BY <1>1, <1>7, <3>1 DEF FillWithInbox, Fill, LookReturns, asks
  <2> QED
    BY <1>7, <2>1, <2>2, HeadIsMailbox, InboxIsMailbox, LookReturnsIs DEF FillWithInbox, Fill
<1>8. CASE Filled
  BY <1>0, <1>2, <1>8 DEF Filled, Go, asks
<1>9. CASE \E f \in Mailboxes : PassStep(f)
  <2> PICK f \in Mailboxes : PassStep(f)
    BY <1>9
  <2> PICK i \in DOMAIN wave.running[f] :
         PassReads(f, i) \/ \E interrupted \in BOOLEAN : Ended(f, i, interrupted)
    BY PassStepIs
  <2>1. wave'.draining = wave.draining
    BY PassReadsRunning, EndedRunning DEF WaveInv, LanesKept
  <2> QED
    BY <1>1, <1>2, <2>1 DEF PassReads, Ended, asks
<1>10. CASE Attend \/ AttendAfterPass
  <2>1. ops' = ops
    BY <1>10 DEF Attend, AttendAfterPass
  <2>2. pc' \in {"fill", "run", "attend"}
    BY <1>10 DEF Attend, AttendAfterPass, At, Go
  <2>3. ASSUME Attended PROVE wave'.draining \in {wave.draining, ops}
    BY <2>3 DEF Attended, WaveInv, WaveShape
  <2>4. wave'.draining \in {wave.draining, ops}
    BY <1>10, <2>3 DEF Attend, AttendAfterPass, WaveInv, WaveShape
  <2> QED
    BY <1>0, <2>1, <2>2, <2>4 DEF DrainHasRows
<1>11. CASE ClaimBodies \/ BodiesSettle
  <2>1. ops' = ops
    BY <1>11 DEF ClaimBodies, BodiesSettle, asks
  <2>2. wave'.draining = wave.draining
    BY <1>11 DEF ClaimBodies, BodiesSettle, WaveInv, WaveShape
  <2>3. pc' \in {"fill", "run", "attend"}
    BY <1>11 DEF ClaimBodies, BodiesSettle, At
  <2> QED
    BY <1>2, <2>1, <2>2, <2>3
<1>12. CASE DrainSettles
  <2>1. wave'.draining = 0
    BY <1>12 DEF DrainSettles, WaveInv, WaveShape
  <2>2. ops' \in {ops, ops - wave.draining}
    BY <1>12 DEF DrainSettles
  <2> QED
    BY <1>0, <2>1, <2>2 DEF DrainHasRows
<1>13. CASE QueueOperation
  <2>1. ops' = ops + 1 /\ UNCHANGED <<wave, pc>>
    BY <1>13 DEF QueueOperation
  <2> QED
    BY <1>0, <2>1 DEF DrainHasRows
<1>14. CASE \/ (\E f \in Mailboxes, kind \in {"idle", "status"} : Watch(f, kind))
            \/ Look \/ LookFails \/ RetryFallsDue
            \/ (\E f \in Mailboxes : Arrive(f))
            \/ (\E job \in {"body", "sync"} : SendJob(job))
            \/ UNCHANGED vars
  BY <1>1, <1>14 DEF Watch, Look, LookFails, RetryFallsDue, Arrive, SendJob, asks, vars
<1> QED
  BY <1>4, <1>5, <1>6, <1>7, <1>8, <1>9, <1>10, <1>11, <1>12, <1>13, <1>14, NextIs
     DEF LaneFree, WorldStep

LEMMA NextLoop ==
    ASSUME EngineInv, [Next]_vars
    PROVE  pc' \in {"select", "link", "waves", "fill", "run", "attend", "watch"}
<1> USE DEF EngineInv, Switches
<1>1. CASE LaneFree
  BY <1>1 DEF LaneFree, TakeJob, Tick, CameUp, LinkAsItWas, BeginWave, ServeHandedBack,
        AfterWaves, Filled, AttendAfterPass, Attend, EndWave, WatchNothing, Watch,
        Reconnect, TickFindsLinkDead, ClaimBodies, BodiesSettle, DrainSettles, Look,
        WatchReturns, LookFails, RetryFallsDue, WorldStep, Arrive, SendJob,
        QueueOperation, Go
<1>2. CASE FillWithInbox \/ Fill \/ LookReturns \/ UNCHANGED vars
  BY <1>2 DEF FillWithInbox, Fill, LookReturns, vars
<1>3. CASE \E f \in Mailboxes : PassStep(f)
  BY <1>3 DEF PassStep, PassReads, PassFinishes, PassInterrupted, PassFails, Ended
<1> QED
  BY <1>1, <1>2, <1>3, NextIs

LEMMA NextLink ==
    ASSUME EngineInv, [Next]_vars
    PROVE  link' \in {"online", "waiting", "due"} /\ online' \in BOOLEAN
<1> USE DEF EngineInv, Switches
<1>1. CASE LaneFree
  BY <1>1 DEF LaneFree, TakeJob, Serve, ServeSync, Tick, CameUp, LinkAsItWas, Drain, Drop,
        BeginWave, ServeHandedBack, AfterWaves, Filled, AttendAfterPass, Attend, EndWave,
        WatchNothing, Watch, Reconnect, TickFindsLinkDead, ClaimBodies, BodiesSettle,
        DrainSettles, Look, WatchReturns, Failed, LookFails, RetryFallsDue, WorldStep,
        Arrive, SendJob, QueueOperation, link_vars
<1>2. CASE FillWithInbox \/ Fill \/ LookReturns \/ UNCHANGED vars
  BY <1>2 DEF FillWithInbox, Fill, LookReturns, link_vars, vars
<1>3. CASE \E f \in Mailboxes : PassStep(f)
  BY <1>3 DEF PassStep, PassReads, PassFinishes, PassInterrupted, PassFails, Ended, Drop,
        link_vars
<1> QED
  BY <1>1, <1>2, <1>3, NextIs

LEMMA NextBacklog ==
    ASSUME EngineInv, [Next]_vars
    PROVE  backlog' \in BOOLEAN
<1> USE DEF EngineInv, Switches
<1>1. CASE LaneFree
  BY <1>1 DEF LaneFree, TakeJob, Serve, ServeSync, Settled, Tick, CameUp, LinkAsItWas,
        BeginWave, ServeHandedBack, AfterWaves, Filled, AttendAfterPass, Attend, EndWave,
        WatchNothing, Watch, Reconnect, TickFindsLinkDead, ClaimBodies, BodiesSettle,
        DrainSettles, Look, WatchReturns, LookFails, RetryFallsDue, WorldStep, Arrive,
        SendJob, QueueOperation, body_vars
<1>2. CASE FillWithInbox \/ Fill \/ LookReturns \/ UNCHANGED vars
  BY <1>2 DEF FillWithInbox, Fill, LookReturns, body_vars, vars
<1>3. CASE \E f \in Mailboxes : PassStep(f)
  BY <1>3 DEF PassStep, PassReads, PassFinishes, Settled, PassInterrupted, PassFails,
        body_vars
<1> QED
  BY <1>1, <1>2, <1>3, NextIs

-----------------------------------------------------------------------------
(* The types.                                                              *)

LEMMA InitEngine == Init => EngineInv
<1> SUFFICES ASSUME Init PROVE EngineInv
  OBVIOUS
<1>1. WaveInv
  BY InitWave
<1>2. LanesKept(wave)
  BY NoWaveKept DEF Init
<1>3. ReadIsThere
  BY DEF Init, ReadIsThere, NoWave
<1>4. OnlyMailboxes
  BY EmptySeq DEF Init, OnlyMailboxes, NoWave
<1>5. DrainHasRows
  BY DEF Init, DrainHasRows, NoWave
<1>6. Switches
  BY DEF Init, Switches
<1> QED
  BY <1>1, <1>2, <1>3, <1>4, <1>5, <1>6 DEF EngineInv

LEMMA NextEngine == EngineInv /\ [Next]_vars => EngineInv'
<1> SUFFICES ASSUME EngineInv, [Next]_vars PROVE EngineInv'
  OBVIOUS
<1>1. WaveInv'
  BY NextWave DEF EngineInv
<1>2. LanesKept(wave)'
  BY NextLanes DEF LanesKept, Passes, Running
<1>3. Switches'
  BY NextLoop, NextLink, NextBacklog DEF Switches
<1> QED
  BY <1>1, <1>2, <1>3, NextRead, NextOnlyMailboxes, NextDrains DEF EngineInv

\* The types hold, and however looks, jobs, faults and interruptions fall there are
\* never more passes than the lanes and the one a look starts for INBOX beside them
\* (sync_wave, engine.rs); a pass never holds what its mailbox has not reached.
THEOREM TypeCorrect == Spec => []TypeOK
<1>1. EngineInv => TypeOK
  <2> SUFFICES ASSUME EngineInv PROVE TypeOK
    OBVIOUS
  <2>1. \A f \in Mailboxes : have[f] \in 0 .. mail[f]
    BY DEF EngineInv, WaveInv, ReadIsThere
  <2>2. Passes(wave) <= Lanes + 1
    BY PassesType DEF EngineInv, LanesKept
  <2> QED
    BY <2>1, <2>2 DEF EngineInv, LanesKept, OnlyMailboxes, DrainHasRows, Switches, TypeOK
<1> QED
  BY <1>1, InitEngine, NextEngine, PTL DEF Spec
=============================================================================

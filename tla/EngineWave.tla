----------------------------- MODULE EngineWave -----------------------------
(***************************************************************************)
(* The engine's loop, its wave and its watcher (postio-runtime/src/        *)
(* engine.rs, postio-sync/src/watch.rs and connect.rs, the rule of         *)
(* postio-sync/src/order.rs).                                              *)
(*                                                                         *)
(* One thread runs an account.  Its loop takes a job or a tick, looks at   *)
(* the link, and while mailboxes are queued runs waves: passes in lanes,   *)
(* with a batch of bodies, a drain and the inbox's watch beside them.      *)
(* With nothing queued it watches.  A handler runs while the passes are    *)
(* suspended; mail, jobs and operations arrive at any moment.              *)
(*                                                                         *)
(* What a pass reads and what a look sees are versions of a mailbox, so    *)
(* that what is seen and never read can be told.                           *)
(***************************************************************************)
EXTENDS Integers, FiniteSets, Sequences, SequencesExt, Functions

CONSTANTS
    Folders,   \* how many selectable mailboxes; in sync_priority order
    Lanes,     \* sync_lanes
    IdleKinds, \* whether the server may have IDLE, and may lack it
    MaxMail,   \* bound: changes other hands make to the mailboxes
    MaxEvents  \* bound: those changes, jobs, operations and faults together

ASSUME SizesAssumption == /\ {Folders, Lanes} \subseteq Nat \ {0}
                          /\ IdleKinds \subseteq BOOLEAN
ASSUME BoundsAssumption == {MaxMail, MaxEvents} \subseteq Nat

VARIABLES
    canIdle,     \* whether this server has IDLE
    mail,        \* per mailbox, its version at the server
    have,        \* per mailbox, the version last read
    link,        \* the supervisor's: "online", "waiting", or "due" to retry
    online,      \* State::online, the link as the loop last noticed it
    toSync,      \* State::to_sync
    watcher,     \* per mailbox, what the watcher holds of it
    pagePending, \* State::inbox_page_pending
    backlog,     \* whether bodies are queued in the backfill, a batch of them
    jobs,        \* the inbox of jobs
    ops,         \* due rows of the operation queue
    pc,          \* where the loop is
    wave,        \* the locals of sync_wave
    look,        \* the step handed out by the watcher
    owed,        \* per mailbox, its version when it was last queued with all
    overlooked,  \* mailboxes with a change that was seen and dropped
    unanswered,  \* jobs sent and not answered yet
    events       \* how many of the events that MaxEvents bounds

world_vars == <<canIdle, mail>>
link_vars  == <<link, online>>
body_vars  == <<pagePending, backlog>>
asks       == <<jobs, ops>>
ghosts     == <<owed, overlooked, unanswered>>
vars == <<world_vars, have, link_vars, toSync, watcher, body_vars, asks, pc, wave, look,
          ghosts, events>>

-----------------------------------------------------------------------------
Inbox     == 1
Mailboxes == 1 .. Folders
Unread    == -1
NoLook    == [folder |-> 0, kind |-> "none", at |-> Unread]

\* A mailbox the watcher has just been told of is due, and was never looked at.
Unwatched == [signature |-> Unread, verified |-> FALSE, due |-> TRUE]

NoWave == [running |-> [f \in Mailboxes |-> <<>>], active |-> {}, admitted |-> <<>>,
           interrupted |-> {}, stopping |-> FALSE, handed |-> FALSE, bodies |-> FALSE,
           draining |-> 0, twice |-> FALSE]

At(p) == pc = p
Go(p) == pc' = p

Event == events < MaxEvents /\ events' = events + 1

\* Something fails: a connection, a pass, a look, a drain.
Fault == Event

\* Supervisor::observe of a transient error, which only moves a link that is up.
Drop == link' = IF link = "online" THEN "waiting" ELSE link

\* Watcher::unverified, before a drain selects mailboxes of its own.
Unverified == [f \in Mailboxes |-> [watcher[f] EXCEPT !.verified = FALSE]]

\* The entries of s that are in S, in order.
Only(s, S) ==
    LET at == {i \in DOMAIN s : s[i] \in S}
    IN  [k \in 1 .. Cardinality(at) |->
            s[CHOOSE i \in at : Cardinality({j \in at : j <= i}) = k]]

\* Only a mailbox that is looked at again can be noticed again.
Noticed(f, w) == w[f].signature # mail[f] /\ (f = Inbox \/ ~canIdle)

\* A change of f that was seen and will not be read for it.
Overlook(f, w) == IF Noticed(f, w) THEN overlooked ELSE overlooked \cup {f}

\* settle_pass of a pass that finished: what it read is held, the bodies of what
\* is new are seeded, and INBOX's are the page the others wait for.
Settled(f, seen) ==
    /\ have' = [have EXCEPT ![f] = IF seen > @ THEN seen ELSE @]
    /\ overlooked' = IF seen = mail[f] THEN overlooked \ {f} ELSE overlooked
    /\ IF seen > have[f]
       THEN \E seeded \in BOOLEAN :
               /\ backlog' = (backlog \/ seeded)
               /\ pagePending' = (pagePending \/ (f = Inbox /\ seeded))
       ELSE UNCHANGED body_vars

-----------------------------------------------------------------------------
(* The loop: what it waits for, the link, and what it does before a wave.  *)

\* Engine::sync, one pass for a job; without a link it is refused.
ServeSync ==
    \/ /\ link # "waiting"
       /\ link' = "online"
       /\ \E f \in Mailboxes : Settled(f, mail[f])
       /\ UNCHANGED events
    \/ /\ link # "waiting"
       /\ Fault
       /\ link' \in {"online", "waiting"}
       /\ UNCHANGED <<have, overlooked, body_vars>>
    \/ /\ link = "waiting"
       /\ UNCHANGED <<have, overlooked, body_vars, link, events>>

\* serve; a body asked for here is fetched at once.
Serve(job) == IF job = "sync" THEN ServeSync
              ELSE UNCHANGED <<have, overlooked, body_vars, link, events>>

TakeJob ==
    /\ At("select")
    /\ jobs # <<>>
    /\ Serve(Head(jobs))
    /\ jobs' = Tail(jobs)
    /\ unanswered' = unanswered - 1
    /\ Go("link")
    /\ UNCHANGED <<world_vars, online, toSync, watcher, ops, wave, look, owed>>

\* The link's retry time has come, for its own arm or for the tick.
Reconnect ==
    /\ At("select")
    /\ link = "due"
    /\ \/ link' = "online" /\ UNCHANGED events
       \/ link' = "waiting" /\ Fault
    /\ Go("link")
    /\ UNCHANGED <<world_vars, have, online, toSync, watcher, body_vars, asks, wave,
                   look, ghosts>>

\* A tick with nothing due, a link found dead, or work that was queued.
Tick ==
    /\ At("select")
    /\ \/ link # "due" \/ ops > 0
       /\ UNCHANGED <<link, events>>
    /\ Go("link")
    /\ UNCHANGED <<world_vars, have, online, toSync, watcher, body_vars, asks, wave,
                   look, ghosts>>

TickFindsLinkDead ==
    /\ At("select")
    /\ link = "online"
    /\ Drop /\ Fault
    /\ Go("link")
    /\ UNCHANGED <<world_vars, have, online, toSync, watcher, body_vars, asks, wave,
                   look, ghosts>>

\* drain, outside a wave.
Drain == \/ ops' = 0 /\ UNCHANGED <<link, events>>
         \/ ops' = ops /\ Drop /\ Fault

\* handle_link_transition, when came_up: drain, discover, queue_every_mailbox,
\* start_watching.
CameUp ==
    /\ At("link")
    /\ link = "online" /\ ~online
    /\ online' = TRUE
    /\ Drain
    /\ toSync' = [i \in Mailboxes |-> i]
    /\ watcher' = [f \in Mailboxes |-> Unwatched]
    /\ owed' = mail
    /\ overlooked' = {}
    /\ Go("waves")
    /\ UNCHANGED <<world_vars, have, body_vars, jobs, wave, look, unanswered>>

\* Otherwise the link is noted, and a due operation drained.
LinkAsItWas ==
    /\ At("link")
    /\ ~(link = "online" /\ ~online)
    /\ online' = (link = "online")
    /\ IF link = "online" /\ ops > 0
       THEN Drain /\ watcher' = Unverified
       ELSE UNCHANGED <<link, ops, watcher, events>>
    /\ Go("waves")
    /\ UNCHANGED <<world_vars, have, toSync, body_vars, jobs, wave, look, ghosts>>

\* A wave starts while mailboxes are queued and nothing else asks.
MayWave == /\ jobs = <<>>
           /\ link = "online"
           /\ toSync # <<>>
           /\ ops = 0

BeginWave ==
    /\ At("waves")
    /\ ~wave.handed
    /\ MayWave
    /\ Go("fill")
    /\ UNCHANGED <<world_vars, have, link_vars, toSync, watcher, body_vars, asks, wave,
                   look,
                   ghosts, events>>

\* The job a wave handed back is served before anything else.
ServeHandedBack ==
    /\ At("waves")
    /\ wave.handed
    /\ wave' = NoWave
    /\ unanswered' = unanswered - 1
    /\ ServeSync
    /\ UNCHANGED <<world_vars, online, toSync, watcher, asks, pc, look, owed>>

\* The drain after the waves, bodies while nothing asks, and then the watch.
AfterWaves ==
    /\ At("waves")
    /\ ~wave.handed
    /\ ~MayWave
    /\ IF link = "online" /\ ops > 0
       THEN Drain /\ watcher' = Unverified
       ELSE UNCHANGED <<link, ops, watcher, events>>
    /\ backlog' \in {FALSE, backlog}
    /\ pc' = IF jobs = <<>> /\ toSync = <<>> THEN "watch" ELSE "select"
    /\ UNCHANGED <<world_vars, have, online, toSync, pagePending, jobs, wave, look,
                   ghosts>>

-----------------------------------------------------------------------------
(* The wave.                                                               *)

\* The passes that run: which of its mailbox each is.
Running(w) == UNION {{f} \X DOMAIN w.running[f] : f \in Mailboxes}
Passes(w)  == Cardinality(Running(w))

\* Mutant for TypeOK: a pass is started and its mailbox not noted as active.
MutantUnnoted(w, f) ==
    [w EXCEPT !.running[f] = Append(@, Unread),
              !.admitted = Append(@, f)]

\* A pass is admitted to a lane.
Started(w, f) ==
    [w EXCEPT !.running[f] = Append(@, Unread),
              !.active = @ \cup {f},
              !.admitted = Append(@, f),
              !.twice = @ \/ (f = Inbox /\ w.running[f] # <<>>)]

FreeLane == Passes(wave) < Lanes

\* inbox_pass_pending.
InboxPending == Contains(toSync, Inbox) \/ Inbox \in wave.active

\* Mutant for InboxAlone: a lane is held for INBOX's bodies and not for its pass.
MutantBodiesOnly == pagePending /\ wave.bodies

\* What next_to_sync holds a lane free for: INBOX's pass, and its newest page of
\* bodies as long as bodies are coming down.  (It asks for a backfill that is not
\* idle as well: while a batch runs its claims are in flight, so it never is.)
Held == \/ Inbox \in wave.active
        \/ pagePending /\ wave.bodies

\* The first INBOX in the queue, and that one only.
FillWithInbox ==
    /\ At("fill")
    /\ FreeLane
    /\ \E i \in DOMAIN toSync :
          /\ toSync[i] = Inbox
          /\ \A j \in 1 .. i - 1 : toSync[j] # Inbox
          /\ toSync' = RemoveAt(toSync, i)
    /\ wave' = Started(wave, Inbox)
    /\ UNCHANGED <<world_vars, have, link_vars, watcher, body_vars, asks, pc, look,
                   ghosts, events>>

Fill ==
    /\ At("fill")
    /\ FreeLane
    /\ ~Contains(toSync, Inbox) /\ toSync # <<>>
    /\ ~Held
    /\ toSync' = Tail(toSync)
    /\ wave' = Started(wave, Head(toSync))
    /\ pagePending' = FALSE
    /\ UNCHANGED <<world_vars, have, link_vars, watcher, backlog, asks, pc, look,
                   ghosts, events>>

Filled ==
    /\ At("fill")
    /\ \/ ~FreeLane
       \/ ~Contains(toSync, Inbox) /\ (toSync = <<>> \/ Held)
    /\ pagePending' = (pagePending /\ (~FreeLane \/ Held))
    /\ Go("run")
    /\ UNCHANGED <<world_vars, have, link_vars, toSync, watcher, backlog, asks, wave,
                   look,
                   ghosts, events>>

\* A pass asks the server what its mailbox holds.
PassReads(f, i) ==
    /\ At("run")
    /\ wave.running[f][i] = Unread
    /\ wave' = [wave EXCEPT !.running[f][i] = mail[f]]
    /\ UNCHANGED <<world_vars, have, link_vars, toSync, watcher, body_vars, asks, pc,
                   look,
                   ghosts, events>>

\* A pass has ended: its lane is free, and unless the wave is stopping whatever
\* asked meanwhile is attended to.
Ended(f, i, interrupted) ==
    /\ At("run")
    /\ wave' = [wave EXCEPT !.running[f] = RemoveAt(@, i),
                            !.active = @ \ {f},
                            !.interrupted = IF interrupted THEN @ \cup {f} ELSE @]
    /\ pc' = IF wave.stopping THEN "run" ELSE "attend"
    /\ UNCHANGED <<world_vars, online, toSync, watcher, asks, look, owed, unanswered>>

PassFinishes(f, i) ==
    /\ wave.running[f][i] # Unread
    /\ Ended(f, i, FALSE)
    /\ Settled(f, wave.running[f][i])
    /\ UNCHANGED <<link, events>>

\* Cancelled with the wave, or turned away by a busy store.
PassInterrupted(f, i) ==
    /\ Ended(f, i, TRUE)
    /\ \/ wave.stopping /\ UNCHANGED events
       \/ Fault
    /\ UNCHANGED <<have, link, body_vars, overlooked>>

\* Failed, with the link or alone: reported, and not queued again.
PassFails(f, i) ==
    /\ Ended(f, i, FALSE)
    /\ Fault
    /\ UNCHANGED link \/ Drop
    /\ overlooked' = Overlook(f, watcher)
    /\ UNCHANGED <<have, body_vars>>

CanClaim == /\ ~wave.bodies
            /\ jobs = <<>>
            /\ link = "online"
            /\ ops = 0
            /\ ~InboxPending
            /\ backlog

\* attend: what is answered beside the lanes, and what stops them.
Attended ==
    \/ /\ jobs # <<>> /\ Head(jobs) = "body"
       /\ jobs' = Tail(jobs)
       /\ unanswered' = unanswered - 1
       /\ wave' = [wave EXCEPT !.bodies = TRUE]
       /\ UNCHANGED watcher
    \/ /\ jobs # <<>> /\ Head(jobs) = "sync"
       /\ jobs' = Tail(jobs)
       /\ wave' = [wave EXCEPT !.stopping = TRUE, !.handed = TRUE]
       /\ UNCHANGED <<watcher, unanswered>>
    \/ /\ jobs = <<>> /\ ops > 0 /\ wave.draining = 0
       /\ wave' = [wave EXCEPT !.draining = ops]
       /\ watcher' = Unverified
       /\ UNCHANGED <<jobs, unanswered>>

NothingAsked == jobs = <<>> /\ (ops = 0 \/ wave.draining > 0)

\* After a pass: attend, claim bodies, and only then fill the lane.
AttendAfterPass ==
    /\ At("attend")
    /\ \/ /\ Attended
          /\ pc' = IF wave'.stopping THEN "run" ELSE "fill"
          /\ UNCHANGED backlog
       \/ /\ NothingAsked
          /\ UNCHANGED <<jobs, unanswered, wave, watcher, backlog>>
          /\ Go("fill")
       \/ /\ NothingAsked /\ CanClaim
          /\ wave' = [wave EXCEPT !.bodies = TRUE]
          /\ backlog' = FALSE
          /\ UNCHANGED <<jobs, unanswered, watcher>>
          /\ Go("fill")
    /\ UNCHANGED <<world_vars, have, link_vars, toSync, pagePending, ops, look, owed,
                   overlooked,
                   events>>

\* A job or a queued operation wakes the wave.
Attend ==
    /\ At("run")
    /\ ~wave.stopping
    /\ Attended
    /\ UNCHANGED <<world_vars, have, link_vars, toSync, body_vars, ops, pc, look, owed,
                   overlooked, events>>

\* A committed batch of headers rings, and bodies are claimed.
ClaimBodies ==
    /\ At("run")
    /\ ~wave.stopping
    /\ Passes(wave) > 0
    /\ CanClaim
    /\ wave' = [wave EXCEPT !.bodies = TRUE]
    /\ backlog' = FALSE
    /\ UNCHANGED <<world_vars, have, link_vars, toSync, watcher, pagePending, asks, pc,
                   look,
                   ghosts, events>>

\* settle_bodies; the next batch may go out, and the lanes are filled.
BodiesSettle ==
    /\ At("run")
    /\ wave.bodies
    /\ \/ UNCHANGED <<link, events>>
       \/ Drop /\ Fault
    /\ \E more \in BOOLEAN :
          /\ more => /\ ~wave.stopping /\ jobs = <<>> /\ link' = "online" /\ ops = 0
                     /\ ~InboxPending /\ backlog
          /\ wave' = [wave EXCEPT !.bodies = more]
          /\ backlog' = (backlog /\ ~more)
    /\ pc' = IF wave.stopping THEN "run" ELSE "fill"
    /\ UNCHANGED <<world_vars, have, online, toSync, watcher, pagePending, asks, look,
                   ghosts>>

\* settle_drain; a drain that failed stops the wave.
DrainSettles ==
    /\ At("run")
    /\ wave.draining > 0
    /\ \/ /\ ops' = ops - wave.draining
          /\ wave' = [wave EXCEPT !.draining = 0]
          /\ UNCHANGED <<link, events>>
       \/ /\ Fault
          /\ wave' = [wave EXCEPT !.draining = 0, !.stopping = TRUE]
          /\ UNCHANGED link \/ Drop
          /\ UNCHANGED ops
    /\ UNCHANGED <<world_vars, have, online, toSync, watcher, body_vars, jobs, pc,
                   look, ghosts>>

-----------------------------------------------------------------------------
(* The watcher's steps.                                                    *)

\* Watcher::step.
Step(f, kind) == [folder |-> f, kind |-> kind, at |-> IF kind = "idle" THEN mail[f] ELSE Unread]
\* The interval is over or is not, as the clock says when the step is asked for:
\* a mailbox that is not due may have become so, and one that is verified may
\* have gone a whole interval since.
MayIdle(f) == canIdle /\ f = Inbox /\ watcher[f].due /\ watcher[f].verified

\* woke and observed: whether the mailbox moved, and what the watcher then holds.
Sees(told) ==
    IF look.kind = "idle" THEN told ELSE watcher[look.folder].signature # mail[look.folder]
Reported(told) ==
    [watcher EXCEPT ![look.folder] =
        IF look.kind = "status"
        THEN [signature |-> mail[look.folder], verified |-> TRUE,
              due |-> canIdle /\ look.folder = Inbox]
        ELSE [signature |-> IF told THEN Unread ELSE @.signature,
              verified |-> @.verified \/ told, due |-> TRUE]]

\* An IDLE may be deaf: it need not report what it could.
Tells(told) == told => look.kind = "idle" /\ mail[look.folder] > look.at

Failed == /\ Fault
          /\ UNCHANGED link \/ Drop
          /\ watcher' = [watcher EXCEPT ![look.folder].due = FALSE]

\* In a wave the inbox is watched, and nothing else.
Look ==
    /\ At("run")
    /\ ~wave.stopping
    /\ look = NoLook
    /\ \E kind \in {"idle", "status"} : /\ kind = "idle" => MayIdle(Inbox)
                                        /\ look' = Step(Inbox, kind)
    /\ UNCHANGED <<world_vars, have, link_vars, toSync, watcher, body_vars, asks, pc,
                   wave,
                   ghosts, events>>

\* The look came back.  A changed inbox is queued behind its own pass, or gets a
\* lane of its own at once; a wave that is stopping only takes note.
LookReturns ==
    /\ At("run")
    /\ look # NoLook
    /\ look' = NoLook
    /\ \E told \in BOOLEAN :
          /\ Tells(told)
          /\ watcher' = Reported(told)
          /\ IF Sees(told) /\ ~wave.stopping
             THEN IF Inbox \in wave.active
                  THEN /\ toSync' = IF Contains(toSync, Inbox) THEN toSync ELSE <<Inbox>> \o toSync
                       /\ UNCHANGED wave
                  ELSE /\ toSync' = Only(toSync, Mailboxes \ {Inbox})
                       /\ wave' = Started(wave, Inbox)
             ELSE UNCHANGED <<toSync, wave>>
          /\ overlooked' = IF Sees(told) /\ wave.stopping THEN Overlook(Inbox, watcher')
                           ELSE overlooked
    /\ UNCHANGED <<world_vars, have, link_vars, body_vars, asks, pc, owed, unanswered,
                   events>>

LookFails ==
    /\ At("run")
    /\ look # NoLook
    /\ look' = NoLook
    /\ Failed
    /\ UNCHANGED <<world_vars, have, online, toSync, body_vars, asks, pc, wave, ghosts>>

\* Mutant for ReadInTheEnd: an interrupted pass is left to the next poll.
MutantForgotten == <<>>

\* What an interrupted pass was admitted for comes back in front, in order.
Requeued == Only(wave.admitted, wave.interrupted)

\* Mutant for ServedInTheEnd: the job is dropped with the wave that took it.
MutantJobDropped == NoWave

\* What outlives a wave is the job it took and could not answer.
Over == [NoWave EXCEPT !.handed = wave.handed]

\* The wave's work is done: its IDLE is cancelled, what the look saw is queued,
\* and the interrupted passes go back in front.
EndWave ==
    /\ At("run")
    /\ Passes(wave) = 0 /\ ~wave.bodies /\ wave.draining = 0
    /\ look' = NoLook
    /\ \E told \in BOOLEAN :
          LET saw == look # NoLook /\ Sees(told) IN
          /\ Tells(told)
          /\ watcher' = IF look = NoLook THEN watcher ELSE Reported(told)
          /\ toSync' = Requeued \o IF saw /\ ~Contains(toSync, Inbox)
                                   THEN Append(toSync, Inbox) ELSE toSync
    /\ wave' = Over
    /\ Go("waves")
    /\ UNCHANGED <<world_vars, have, link_vars, body_vars, asks, ghosts, events>>

\* keep_watch: the inbox first, and when it has nothing due any other mailbox.
Watch(f, kind) ==
    /\ At("watch")
    /\ look = NoLook
    /\ online /\ link = "online"
    /\ f # Inbox => ~watcher[Inbox].due
    /\ kind = "idle" => MayIdle(f)
    /\ look' = Step(f, kind)
    /\ UNCHANGED <<world_vars, have, link_vars, toSync, watcher, body_vars, asks, pc,
                   wave,
                   ghosts, events>>

\* Nothing due, or no link: the loop comes round.
WatchNothing ==
    /\ At("watch")
    /\ look = NoLook
    /\ link # "online" \/ ~online \/ \A f \in Mailboxes : ~watcher[f].due
    /\ Go("select")
    /\ UNCHANGED <<world_vars, have, link_vars, toSync, watcher, body_vars, asks, wave,
                   look,
                   ghosts, events>>

WatchReturns ==
    /\ At("watch")
    /\ look # NoLook
    /\ look' = NoLook
    /\ \/ /\ \E told \in BOOLEAN :
                /\ Tells(told)
                /\ watcher' = Reported(told)
                /\ toSync' = IF Sees(told) /\ ~Contains(toSync, look.folder)
                             THEN Append(toSync, look.folder) ELSE toSync
          /\ UNCHANGED <<link, events>>
       \/ Failed /\ UNCHANGED toSync
    /\ Go("select")
    /\ UNCHANGED <<world_vars, have, online, body_vars, asks, wave, ghosts>>

-----------------------------------------------------------------------------
(* Everybody else.                                                         *)

Arrive(f) ==
    /\ FoldFunction(+, 0, mail) < Folders + MaxMail
    /\ Event
    /\ mail' = [mail EXCEPT ![f] = @ + 1]
    /\ UNCHANGED <<canIdle, have, link_vars, toSync, watcher, body_vars, asks, pc,
                   wave, look, ghosts>>

SendJob(job) ==
    /\ Event
    /\ jobs' = Append(jobs, job)
    /\ unanswered' = unanswered + 1
    /\ UNCHANGED <<world_vars, have, link_vars, toSync, watcher, body_vars, ops, pc,
                   wave, look,
                   owed, overlooked>>

QueueOperation ==
    /\ Event
    /\ ops' = ops + 1
    /\ UNCHANGED <<world_vars, have, link_vars, toSync, watcher, body_vars, jobs, pc,
                   wave, look, ghosts>>

RetryFallsDue ==
    /\ link = "waiting"
    /\ link' = "due"
    /\ UNCHANGED <<world_vars, have, online, toSync, watcher, body_vars, asks, pc,
                   wave, look, ghosts, events>>

-----------------------------------------------------------------------------
Init ==
    /\ canIdle \in IdleKinds
    /\ mail = [f \in Mailboxes |-> 1]
    /\ have = [f \in Mailboxes |-> 0]
    /\ link = "due"
    /\ online = FALSE
    /\ toSync = <<>>
    /\ watcher = [f \in Mailboxes |-> Unwatched]
    /\ pagePending = FALSE
    /\ backlog = FALSE
    /\ jobs = <<>>
    /\ ops = 0
    /\ pc = "select"
    /\ wave = NoWave
    /\ look = NoLook
    /\ owed = [f \in Mailboxes |-> 0]
    /\ overlooked = {}
    /\ unanswered = 0
    /\ events = 0

LoopStep ==
    \/ TakeJob \/ Tick \/ CameUp \/ LinkAsItWas
    \/ BeginWave \/ ServeHandedBack \/ AfterWaves
    \/ FillWithInbox \/ Fill \/ Filled
    \/ AttendAfterPass \/ Attend \/ EndWave
    \/ WatchNothing \/ \E f \in Mailboxes, kind \in {"idle", "status"} : Watch(f, kind)

PassStep(f) == \E i \in DOMAIN wave.running[f] :
                  PassReads(f, i) \/ PassFinishes(f, i) \/ PassInterrupted(f, i) \/ PassFails(f, i)

LookStep == LookReturns \/ WatchReturns

WorldStep ==
    \/ \E f \in Mailboxes : Arrive(f)
    \/ \E job \in {"body", "sync"} : SendJob(job)
    \/ QueueOperation

Next ==
    \/ LoopStep \/ Reconnect \/ TickFindsLinkDead
    \/ \E f \in Mailboxes : PassStep(f)
    \/ ClaimBodies \/ BodiesSettle \/ DrainSettles
    \/ Look \/ LookStep \/ LookFails
    \/ RetryFallsDue
    \/ WorldStep

Spec == Init /\ [][Next]_vars

\* The loop, the passes and what runs beside them go on by themselves.  select!
\* takes a ready arm at random, so a job or a retry that is due again and again is
\* taken.  An interval is minutes and a look a round trip, so a mailbox that may
\* be looked at again and again is, with a STATUS.  Nothing is assumed of mail,
\* jobs, operations or faults.
Fairness ==
    /\ WF_vars(LoopStep)
    /\ SF_vars(TakeJob \/ Reconnect)
    /\ \A f \in Mailboxes : WF_vars(PassStep(f)) /\ SF_vars(Watch(f, "status"))
    /\ WF_vars(BodiesSettle) /\ WF_vars(DrainSettles)
    /\ WF_vars(LookStep)
    /\ WF_vars(RetryFallsDue)
FairSpec == Spec /\ Fairness

-----------------------------------------------------------------------------
\* The types, and the lanes: beside them at most the pass a look started runs
\* (sync_wave, engine.rs:3414).
TypeOK ==
    /\ \A f \in Mailboxes : have[f] \in 0 .. mail[f]
    /\ link \in {"online", "waiting", "due"} /\ online \in BOOLEAN
    /\ toSync \in Seq(Mailboxes)
    /\ backlog \in BOOLEAN /\ ops \in Nat
    /\ pc \in {"select", "link", "waves", "fill", "run", "attend", "watch"}
    /\ Passes(wave) <= Lanes + 1
    /\ wave.active \subseteq Mailboxes

\* No other mailbox is given a lane while INBOX's pass runs, the rule of
\* postio-sync/src/order.rs that next_to_sync carries.  The one exception is met,
\* not wanted: two passes of INBOX at once, the first of which takes both off the
\* active list when it ends.
InboxAlone ==
    [][\A f \in Mailboxes \ {Inbox} :
          Len(wave'.running[f]) > Len(wave.running[f]) /\ ~wave.twice
             => wave.running[Inbox] = <<>>]_vars

\* What the engine owes a mailbox: all that happens to it, if it is looked at, and
\* otherwise what was there when the link last came up.  With IDLE only INBOX is
\* looked at: it always has a step, so no other mailbox's turn to be polled comes.
Wanted(f) == IF f = Inbox \/ ~canIdle THEN mail[f] ELSE owed[f]

\* Once nothing more happens every mailbox is read, whatever was interrupted,
\* deferred, requeued, held back for INBOX or told to a wave that had stopped
\* watching; save one whose change was seen by a look that a stopping wave drops,
\* or by a pass that failed (sync_wave and keep_watch): that change is never seen
\* again, the watcher remembers it from when it was seen.
ReadInTheEnd == <>[](\A f \in Mailboxes : have[f] >= Wanted(f) \/ f \in overlooked)

\* Every job is answered and every operation drained, those that reach a wave
\* beside its lanes or after it (attend, and the job sync_wave hands back).
ServedInTheEnd == <>[](unanswered = 0 /\ ops = 0)
=============================================================================

----------------------------- MODULE ResyncProofs -----------------------------
(***************************************************************************)
(* Proofs about Resync, for every size of the mailbox, every kind of       *)
(* server, every sweep interval and every bound.                           *)
(***************************************************************************)
EXTENDS Resync, NumberLemmas

USE ServersAssumption, BoundsAssumption

-----------------------------------------------------------------------------
(* The inductive invariant.                                                *)

Pcs == {"idle", "rebuild", "wipe", "observe", "reselect", "enumerate", "fetch", "store",
        "complete", "changes", "arrivals", "count", "reconcile", "refetch", "sweep",
        "correct", "swept", "record", "excess", "relist", "short"}
Plans == {"None", "GenerationChanged", "NeverSynced", "NoModSeq", "Incremental",
          "ModSeqWentBackwards", "UpToDate", "Rebuilt", "ShortOfExists"}

PassShapes == [pc : Pcs, plan : Plans, sel : Statuses, first : Statuses,
               known : SUBSET Nat, arrived : Nat, gone : Int, todo : SUBSET Nat,
               got : SUBSET Mails]
States == [gen : 0 .. MaxGens, next : Nat, high : Nat, synced : BOOLEAN,
           passes : 0 .. SweepEvery - 1]
Kinds   == [modSeq : ModSeqServers, reliable : ReliableFeeds]
Leaving == [gen : 1 .. MaxGens, uid : Nat, state : {"pending", "moved", "failed"}]
Used    == [events : 0 .. MaxEvents, moves : 0 .. MaxMoves,
            faults : 0 .. MaxFaults, losses : 0 .. MaxLosses]

\* The server's variable, of whatever value it has.
ServerShape(s) ==
    /\ s = [gen |-> s.gen, next |-> s.next, high |-> s.high, box |-> s.box]
    /\ s.gen \in 1 .. MaxGens /\ s.next \in Nat \ {0} /\ s.high \in Nat \ {0}
    /\ s.box = [u \in DOMAIN s.box |-> s.box[u]]
    /\ \A u \in DOMAIN s.box : /\ u \in 1 .. s.next - 1
                               /\ s.box[u] \in [flag : BOOLEAN, mod : 1 .. s.high]

RowsShape(R) ==
    /\ R \subseteq Mails
    /\ IsFiniteSet(R)
    /\ \A r, x \in R : Key(r) = Key(x) => r = x

\* The mailbox a selection made before still shows.
BoxShape(b) ==
    /\ DOMAIN b \subseteq Nat /\ IsFiniteSet(DOMAIN b)
    /\ \A u \in DOMAIN b : b[u] \in [flag : BOOLEAN, mod : Nat]

PassShape(p) == p \in PassShapes /\ IsFiniteSet(p.known) /\ IsFiniteSet(p.got)

\* TypeOK with the shapes of the records and the finiteness of the sets that it
\* leaves out, and with what bounds the passes between two sweeps: a pass that
\* does not sweep has not reached the limit.
TypeInv ==
    /\ kind \in Kinds
    /\ ServerShape(srv)
    /\ told \in 0 .. MaxGens /\ BoxShape(past)
    /\ state \in States
    /\ RowsShape(rows)
    /\ leaving \subseteq Leaving
    /\ PassShape(pass)
    /\ quiet \in BOOLEAN /\ ahead \in BOOLEAN
    /\ bounds \in Used
    /\ At("record") => kind.reliable \/ state.passes + 1 < SweepEvery

LEMMA TypeInvTypeOK == TypeInv => TypeOK
BY DEF TypeInv, TypeOK, ServerShape, RowsShape, PassShape, PassShapes, States, Kinds,
       Leaving, Used, Uids, BoxShape

-----------------------------------------------------------------------------
(* What the operators yield.                                               *)

\* The UIDs of the mailbox are finitely many numbers.
LEMMA UidsFinite ==
    ASSUME TypeInv
    PROVE  /\ Uids \subseteq Nat \ {0}
           /\ IsFiniteSet(Uids)
           /\ Cardinality(Uids) \in Nat
<1>1. Uids \subseteq 1 .. srv.next - 1 /\ srv.next - 1 \in Nat
  BY DEF TypeInv, ServerShape, Uids
<1>2. \A n \in Nat : IsFiniteSet(1 .. n)
  BY FS_Interval
<1>3. IsFiniteSet(Uids)
  BY <1>1, <1>2, FS_Subset
<1> QED
  BY <1>1, <1>3, FS_CardinalityType

LEMMA StatusType ==
    ASSUME TypeInv
    PROVE  /\ Status \in Statuses
           /\ Status.gen = srv.gen /\ Status.exists = Cardinality(Uids)
BY UidsFinite DEF TypeInv, ServerShape, Status, Statuses, NoSeq

\* What a selection shows, the mailbox or what it was.
LEMMA ShownType ==
    ASSUME TypeInv
    PROVE  /\ Shown \subseteq Nat /\ IsFiniteSet(Shown)
           /\ Seen.gen \in 1 .. MaxGens
           /\ \A u \in Shown : Seen.box[u].flag \in BOOLEAN
<1>1. CASE Confirmed
  <2>1. Seen.gen = srv.gen /\ Seen.box = srv.box /\ Shown = Uids
    BY <1>1 DEF Seen, Shown, Uids
  <2> QED
    BY <2>1, UidsFinite DEF TypeInv, ServerShape, Uids
<1>2. CASE ~Confirmed
  <2>1. Seen.gen = told /\ Seen.box = past /\ Shown = DOMAIN past
    BY <1>2 DEF Seen, Shown
  <2> QED
    BY <1>2, <2>1 DEF Confirmed, NoGen, TypeInv, BoxShape
<1> QED
  BY <1>1, <1>2

LEMMA MessagesType ==
    ASSUME TypeInv, NEW S
    PROVE  Messages(S) \subseteq Mails /\ IsFiniteSet(Messages(S))
<1> DEFINE f == [u \in S \cap Shown |-> Message(u)]
<1>1. Messages(S) \subseteq Mails
  BY ShownType DEF Messages, Message, Mails
<1>2. f \in Surjection(S \cap Shown, Messages(S))
  BY DEF Surjection, Messages
<1>3. IsFiniteSet(S \cap Shown)
  BY ShownType, FS_Subset
<1> QED
  BY <1>1, <1>2, <1>3, FS_Surjection

LEMMA PlanType == TypeInv => \A s \in Statuses : Plan(s) \in Plans
BY DEF Plan, Plans

LEMMA ObservedType ==
    ASSUME TypeInv, NEW s \in Statuses
    PROVE  Observed(s) \in States /\ Observed(s).gen = s.gen
<1> DEFINE kept == IF state.gen \in {NoGen, s.gen} THEN state ELSE NeverSynced
<1>1. NeverSynced \in States
  BY DEF NeverSynced, States, NoGen, NoSeq
<1>2. kept \in States
  BY <1>1 DEF TypeInv
<1>3. Observed(s) = [kept EXCEPT !.gen = s.gen, !.next = s.next,
                                !.high = IF s.high = NoSeq THEN @ ELSE s.high]
  BY DEF Observed
<1> HIDE DEF kept
<1> QED
  BY <1>2, <1>3 DEF States, Statuses

\* uids_in names finitely many numbers.
LEMMA UidsInType ==
    ASSUME TypeInv, NEW g
    PROVE  UidsIn(g) \subseteq Nat /\ IsFiniteSet(UidsIn(g))
<1> DEFINE R == {x \in rows : x.gen = g}
           f == [r \in R |-> r.uid]
<1>1. IsFiniteSet(R)
  BY FS_Subset DEF TypeInv, RowsShape
<1>2. f \in Surjection(R, UidsIn(g))
  BY DEF Surjection, UidsIn
<1>3. IsFiniteSet(UidsIn(g))
  BY <1>1, <1>2, FS_Surjection
<1> QED
  BY <1>3 DEF UidsIn, TypeInv, RowsShape, Mails

\* An answer is all of what was asked for, or a line of it was lost.
LEMMA AnswerType ==
    ASSUME TypeInv, NEW S, NEW T, Answer(S, T)
    PROVE  /\ T \subseteq S
           /\ bounds' \in Used
           /\ T = S \/ bounds'.losses > bounds.losses
BY DEF TypeInv, Answer, Lose, Used

LEMMA NoPassType == PassShape(NoPass)
<1>1. IsFiniteSet({})
  BY FS_EmptySet
<1>2. NoStatus \in Statuses
  BY DEF NoStatus, Statuses, NoGen, NoSeq
<1> QED
  BY <1>1, <1>2 DEF NoPass, PassShape, PassShapes, Pcs, Plans

LEMMA NoPassFields ==
    /\ NoPass.pc = "idle" /\ NoPass.plan = "None"
    /\ NoPass.sel = NoStatus /\ NoPass.first = NoStatus /\ NoPass.known = {}
BY DEF NoPass

\* A new pass, at whatever point it starts.
LEMMA FreshType ==
    ASSUME NEW p \in Pcs, NEW q \in Plans, NEW f,
           f \in {[NoPass EXCEPT !.pc = p], [NoPass EXCEPT !.pc = p, !.plan = q]}
    PROVE  /\ PassShape(f)
           /\ f.pc = p /\ f.plan \in {"None", q}
           /\ f.sel = NoStatus /\ f.first = NoStatus /\ f.known = {}
BY NoPassType DEF NoPass, PassShape, PassShapes

LEMMA GoType ==
    ASSUME TypeInv, NEW p \in Pcs
    PROVE  /\ PassShape(Go(p))
           /\ Go(p).pc = p
           /\ \A f \in {"plan", "sel", "first", "known", "arrived", "gone", "todo", "got"} :
                 Go(p)[f] = pass[f]
BY DEF TypeInv, PassShape, PassShapes, Go

-----------------------------------------------------------------------------
(* Type correctness, one lemma per group of actions.                       *)

\* What a command of a pass does to what the process was told.
Session == /\ told' \in {told, srv.gen}
           /\ past' \in {past, NoBox}
           /\ ahead' \in BOOLEAN

LEMMA SessionType ==
    ASSUME TypeInv, Session
    PROVE  told' \in 0 .. MaxGens /\ BoxShape(past') /\ ahead' \in BOOLEAN
<1>1. BoxShape(NoBox)
  BY FS_EmptySet DEF BoxShape, NoBox
<1> QED
  BY <1>1 DEF Session, TypeInv, ServerShape

LEMMA PassSession ==
    ASSUME TypeInv, PassStep
    PROVE  Session
<1> USE DEF Session, TypeInv, session_vars, Refused, Selected
<1>1. CASE Select \/ SelectRefused \/ Rebuild
  BY <1>1 DEF Select, SelectRefused, Rebuild
<1>2. CASE EnumSelect
  <2>1. ahead' \in BOOLEAN
    BY <1>2 DEF EnumSelect
  <2> QED
    BY <1>2, <2>1 DEF EnumSelect
<1>3. CASE EnumList \/ EnumFetch \/ ReconcileListed \/ ReconcileFetched \/ Distrust
  BY <1>3 DEF EnumList, EnumFetch, ReconcileListed, ReconcileFetched, Distrust, Listing
<1>4. CASE \/ Wipe \/ ObserveFirst \/ EnumEnd \/ ObserveLast \/ Store \/ IncrementalStep
           \/ Relist \/ SweepStep \/ Record \/ Excess \/ Short
  <2>1. UNCHANGED session_vars /\ ahead' = ahead
    BY <1>4 DEF Wipe, ObserveFirst, EnumEnd, ObserveLast, Store, IncrementalStep,
                FetchChanges, FetchArrivals, Count, Relist, SweepStep, SweepSkipped,
                SweepRead, SweepWrite, Record, Excess, Short
  <2> QED
    BY <2>1
<1> QED
  BY <1>1, <1>2, <1>3, <1>4 DEF PassStep, EnumStep, ReconcileStep

\* A step of a pass that writes neither rows nor the sync state.
LEMMA PassOnlyType ==
    ASSUME TypeInv, UNCHANGED <<server_vars, state, local_vars>>,
           Session, quiet' \in BOOLEAN, bounds' \in Used,
           PassShape(pass'), pass'.pc # "record"
    PROVE  TypeInv'
BY SessionType DEF TypeInv, server_vars, local_vars, At, ServerShape, RowsShape

LEMMA SelectType ==
    ASSUME TypeInv, Select \/ SelectRefused \/ Rebuild
    PROVE  TypeInv'
<1>0. Session
  BY PassSession DEF PassStep
<1>1. Status \in Statuses
  BY StatusType
<1>2. CASE Select
  <2>1. UidsIn(srv.gen) \subseteq Nat /\ IsFiniteSet(UidsIn(srv.gen)) /\ IsFiniteSet({})
    BY UidsInType, FS_EmptySet
  <2>2. Plan(Status) \in Plans
    BY <1>1, PlanType
  <2>3. PassShape(pass')
    <3> DEFINE k == IF Plan(Status) = "Incremental" THEN UidsIn(srv.gen) ELSE {}
               i == IF Plan(Status) = "ModSeqWentBackwards" THEN Status ELSE NoStatus
               c == CASE Plan(Status) = "GenerationChanged"   -> "wipe"
                      [] Plan(Status) = "Incremental"         -> "changes"
                      [] Plan(Status) = "UpToDate"            -> "sweep"
                      [] Plan(Status) = "ModSeqWentBackwards" -> "reselect"
                      [] OTHER                                -> "observe"
    <3>1. pass' = [NoPass EXCEPT !.plan = Plan(Status), !.sel = Status, !.known = k,
                                 !.first = i, !.pc = c]
      BY <1>2 DEF Select
    <3>2. k \in SUBSET Nat /\ IsFiniteSet(k)
      BY <2>1
    <3>3. i \in Statuses
      BY <1>1, NoPassType DEF PassShape, PassShapes, NoPass
    <3>4. c \in Pcs
      BY DEF Pcs
    <3> HIDE DEF k, i, c
    <3> QED
      BY <1>1, <2>2, <3>1, <3>2, <3>3, <3>4, NoPassType DEF PassShape, PassShapes, NoPass
  <2>4. pass'.pc # "record"
    BY <1>2 DEF Select, NoPass
  <2> QED
    BY <1>2, <2>3, <2>4, <1>0, PassOnlyType DEF Select, TypeInv
<1>3. CASE SelectRefused
  <2>1. PassShape(pass') /\ pass'.pc # "record"
    BY <1>3, NoPassType DEF SelectRefused, PassShape, PassShapes, NoPass, Pcs
  <2> QED
    BY <1>3, <2>1, <1>0, PassOnlyType DEF SelectRefused, Refused, TypeInv
<1>4. CASE Rebuild
  <2>1. PassShape(pass') /\ pass'.pc # "record"
    BY <1>1, <1>4, NoPassType, ZenonT(40) DEF Rebuild, PassShape, PassShapes, NoPass, Pcs, Plans
  <2> QED
    BY <1>4, <2>1, <1>0, PassOnlyType DEF Rebuild, Refused, TypeInv
<1> QED
  BY <1>2, <1>3, <1>4

LEMMA FirstType ==
    ASSUME TypeInv, Wipe \/ ObserveFirst
    PROVE  TypeInv'
<1>0. Session
  BY PassSession DEF PassStep
<1>1. CASE Wipe
  <2>1. PassShape(pass') /\ pass'.pc # "record"
    BY <1>1, GoType DEF Wipe, Pcs
  <2>2. RowsShape(rows')
    BY <1>1, FS_Subset DEF Wipe, TypeInv, RowsShape
  <2> QED
    BY <1>0, <1>1, <2>1, <2>2, SessionType DEF Wipe, TypeInv, server_vars, At
<1>2. CASE ObserveFirst
  <2>1. PassShape(pass') /\ pass'.pc # "record"
    BY <1>2, GoType DEF ObserveFirst, Pcs
  <2>2. state' \in States
    BY <1>2, ObservedType DEF ObserveFirst, TypeInv, PassShape, PassShapes
  <2> QED
    BY <1>0, <1>2, <2>1, <2>2, SessionType
       DEF ObserveFirst, TypeInv, server_vars, local_vars, At
<1> QED
  BY <1>1, <1>2

LEMMA CompletedType ==
    ASSUME NEW s \in States
    PROVE  Completed(s) \in States /\ Completed(s).gen = s.gen
<1>1. 0 \in 0 .. SweepEvery - 1
  OBVIOUS
<1> QED
  BY <1>1 DEF Completed, States

LEMMA EnumType ==
    ASSUME TypeInv, EnumStep
    PROVE  TypeInv'
<1>0. Session
  BY PassSession DEF PassStep
<1>1. CASE EnumSelect
  <2>1. UidsIn(srv.gen) \subseteq Nat /\ IsFiniteSet(UidsIn(srv.gen))
    BY UidsInType
  <2>2. PassShape(pass') /\ pass'.pc # "record"
    <3>1. \/ pass' = NoPass
          \/ pass' = [pass EXCEPT !.pc = "complete"]
          \/ pass' = [pass EXCEPT !.pc = "enumerate", !.sel = Status,
                                  !.known = UidsIn(srv.gen)]
      BY <1>1 DEF EnumSelect
    <3>2. Status \in Statuses
      BY StatusType
    <3> QED
      BY <3>1, <3>2, <2>1, NoPassType, ZenonT(40)
         DEF TypeInv, PassShape, PassShapes, Pcs, NoPass
  <2>3. state' \in States
    BY <1>1, StatusType, ObservedType, CompletedType DEF EnumSelect, TypeInv
  <2> QED
    BY <1>0, <1>1, <2>2, <2>3, SessionType DEF EnumSelect, TypeInv, server_vars, local_vars, At
<1>2. CASE EnumList
  <2>1. PICK L \in {{Shown}, {}} :
           /\ Listing(L)
           /\ LET believed == {l \in L : Cardinality(l) >= pass.sel.exists}
                  below    == 1 .. pass.sel.next - 1
                  ceiling  == IF believed = {} THEN below ELSE below \cap UNION believed
              IN  pass' = [pass EXCEPT !.pc = "fetch", !.got = {}, !.known = {},
                                       !.todo = IF Everything THEN ceiling ELSE ceiling \ pass.known]
    BY <1>2 DEF EnumList
  <2> DEFINE below == 1 .. pass.sel.next - 1
  <2>2. PICK todo : /\ todo \subseteq below
                    /\ pass' = [pass EXCEPT !.pc = "fetch", !.got = {}, !.known = {},
                                            !.todo = todo]
    BY <2>1
  <2>3. below \subseteq Nat
    BY DEF TypeInv, PassShape, PassShapes, Statuses
  <2>4. IsFiniteSet({})
    BY FS_EmptySet
  <2>5. PassShape(pass') /\ pass'.pc # "record"
    <3> HIDE DEF below
    <3> QED
      BY <2>2, <2>3, <2>4 DEF TypeInv, PassShape, PassShapes, Pcs
  <2> QED
    BY <1>2, <2>5, <1>0, PassOnlyType DEF EnumList, TypeInv
<1>3. CASE EnumFetch
  <2>1. UNCHANGED <<server_vars, state, local_vars, quiet>>
    BY <1>3 DEF EnumFetch
  <2>2. CASE Refused /\ pass' = NoPass /\ UNCHANGED bounds
    BY <2>1, <2>2, NoPassType, <1>0, PassOnlyType DEF NoPass, TypeInv
  <2>3. CASE \E u, T : /\ T \subseteq Messages({u})
                       /\ Answer(Messages({u}), T)
                       /\ pass' = [pass EXCEPT !.todo = @ \ {u}, !.got = T,
                                               !.pc = IF T = {} THEN "fetch" ELSE "store"]
    <3>1. PICK u, T : /\ T \subseteq Messages({u})
                      /\ Answer(Messages({u}), T)
                      /\ pass' = [pass EXCEPT !.todo = @ \ {u}, !.got = T,
                                              !.pc = IF T = {} THEN "fetch" ELSE "store"]
      BY <2>3
    <3>2. T \subseteq Mails /\ IsFiniteSet(T)
      BY <3>1, MessagesType, FS_Subset
    <3>3. PassShape(pass') /\ pass'.pc # "record"
      BY <3>1, <3>2 DEF TypeInv, PassShape, PassShapes, Pcs
    <3> QED
      BY <2>1, <3>1, <3>3, AnswerType, <1>0, PassOnlyType DEF TypeInv
  <2> QED
    BY <1>3, <2>2, <2>3 DEF EnumFetch
<1>4. CASE EnumEnd
  <2>1. PassShape(pass') /\ pass'.pc # "record"
    BY <1>4, NoPassType, GoType DEF EnumEnd, NoPass, Pcs
  <2> QED
    BY <1>0, <1>4, <2>1, CompletedType, SessionType
       DEF EnumEnd, TypeInv, server_vars, local_vars, At
<1>5. CASE ObserveLast
  <2>1. state' \in States
    BY <1>5, ObservedType DEF ObserveLast, TypeInv, PassShape, PassShapes
  <2> QED
    BY <1>0, <1>5, <2>1, NoPassType, SessionType
       DEF ObserveLast, TypeInv, server_vars, local_vars, At, NoPass
<1> QED
  BY <1>1, <1>2, <1>3, <1>4, <1>5 DEF EnumStep

\* A unit stored takes the place of the row with its key, if there is one.
LEMMA UpsertedType ==
    ASSUME TypeInv, NEW m \in Mails
    PROVE  RowsShape(Upserted(m))
<1>1. IsFiniteSet({r \in rows : Key(r) # Key(m)})
  BY FS_Subset DEF TypeInv, RowsShape
<1>2. IsFiniteSet({r \in rows : Key(r) # Key(m)} \cup {m})
  BY <1>1, FS_AddElement
<1> QED
  BY <1>2 DEF Upserted, TypeInv, RowsShape

LEMMA StoreType ==
    ASSUME TypeInv, Store
    PROVE  TypeInv'
<1>0. Session
  BY PassSession DEF PassStep
<1>1. PICK m \in pass.got :
        /\ rows' = Upserted(m)
        /\ pass' = [pass EXCEPT !.got = @ \ {m},
                       !.pc = IF pass.got # {m} THEN "store"
                              ELSE IF pass.plan = "Incremental" THEN "count" ELSE "fetch"]
  BY DEF Store
<1>2. RowsShape(rows')
  BY <1>1, UpsertedType DEF TypeInv, PassShape, PassShapes
<1>3. IsFiniteSet(pass.got \ {m})
  BY FS_Subset DEF TypeInv, PassShape
<1>4. PassShape(pass') /\ pass'.pc # "record"
  BY <1>1, <1>3, ZenonT(40) DEF TypeInv, PassShape, PassShapes, Pcs
<1> QED
  BY <1>0, <1>2, <1>4, SessionType DEF Store, TypeInv, server_vars, At

\* What an incremental pass sets out to store.
LEMMA ReadsType ==
    ASSUME TypeInv, NEW S \in SUBSET Mails, IsFiniteSet(S)
    PROVE  NewTo(S) \in Nat /\ PassShape(Reads(S)) /\ Reads(S).pc # "record"
<1>1. NewTo(S) \in Nat
  BY FS_Subset, FS_CardinalityType DEF NewTo
<1> QED
  BY <1>1 DEF Reads, TypeInv, PassShape, PassShapes, Pcs

LEMMA IncrementalType ==
    ASSUME TypeInv, IncrementalStep
    PROVE  TypeInv'
<1>0. Session
  BY PassSession DEF PassStep
<1>1. CASE FetchChanges
  <2>1. PICK S \in SUBSET Messages(Shown) : pass' = Changed(S)
    BY <1>1 DEF FetchChanges
  <2>2. S \in SUBSET Mails /\ IsFiniteSet(S)
    BY MessagesType, FS_Subset
  <2>3. CASE pass' = Reads(S)
    BY <1>1, <2>2, <2>3, ReadsType, <1>0, PassOnlyType DEF FetchChanges, TypeInv
  <2>4. CASE pass' = [pass EXCEPT !.got = S, !.pc = "arrivals"]
    <3>1. PassShape(pass') /\ pass'.pc # "record"
      BY <2>2, <2>4 DEF TypeInv, PassShape, PassShapes, Pcs
    <3> QED
      BY <1>1, <3>1, <1>0, PassOnlyType DEF FetchChanges, TypeInv
  <2> QED
    BY <2>1, <2>3, <2>4 DEF Changed
<1>2. CASE FetchArrivals
  <2>1. PICK T : /\ T \subseteq Messages({u \in Shown : u >= Floor(pass.got)})
                 /\ Answer(Messages({u \in Shown : u >= Floor(pass.got)}), T)
                 /\ pass' = Reads(pass.got \cup T)
    BY <1>2 DEF FetchArrivals
  <2>2. T \in SUBSET Mails /\ IsFiniteSet(T)
    BY <2>1, MessagesType, FS_Subset
  <2>3. pass.got \cup T \in SUBSET Mails /\ IsFiniteSet(pass.got \cup T)
    BY <2>2, FS_Union DEF TypeInv, PassShape, PassShapes
  <2> QED
    BY <1>2, <2>1, <2>3, ReadsType, AnswerType, <1>0, PassOnlyType DEF FetchArrivals, TypeInv
<1>3. CASE Count
  <2>1. /\ Cardinality(pass.known) \in Nat /\ pass.arrived \in Nat /\ pass.sel.exists \in Nat
    BY FS_CardinalityType DEF TypeInv, PassShape, PassShapes, Statuses
  <2>2. PassShape(pass') /\ pass'.pc # "record"
    <3>1. CASE pass' = Go("sweep")
      BY <3>1, GoType DEF Pcs
    <3>2. CASE \E n \in Int : pass' = [pass EXCEPT !.pc = "reconcile", !.gone = n]
      BY <3>2 DEF TypeInv, PassShape, PassShapes, Pcs
    <3> DEFINE expected == Cardinality(pass.known) + pass.arrived
               n == IF expected > pass.sel.exists THEN expected - pass.sel.exists ELSE 0
    <3>3. n \in Int
      BY <2>1
    <3>4. \/ pass' = Go("sweep")
          \/ pass' = [pass EXCEPT !.pc = "reconcile", !.gone = n]
      BY <1>3 DEF Count
    <3> HIDE DEF n
    <3> QED
      BY <3>1, <3>2, <3>3, <3>4
  <2> QED
    BY <1>3, <2>2, <1>0, PassOnlyType DEF Count, TypeInv
<1> QED
  BY <1>1, <1>2, <1>3 DEF IncrementalStep

LEMMA AfterReconcileType ==
    ASSUME TypeInv, NEW n
    PROVE  PassShape(AfterReconcile(n)) /\ AfterReconcile(n).pc # "record"
<1>1. IsFiniteSet({})
  BY FS_EmptySet
<1>2. \/ AfterReconcile(n) = NoPass
      \/ AfterReconcile(n) = [pass EXCEPT !.pc = "sweep", !.known = {}]
      \/ AfterReconcile(n) = [pass EXCEPT !.pc = "short", !.known = {}]
  BY DEF AfterReconcile
<1> QED
  BY <1>1, <1>2, NoPassType, ZenonT(40) DEF NoPass, TypeInv, PassShape, PassShapes, Pcs

\* A reconciliation deletes rows of what vanished, if it believes the answer.
LEMMA DeleteAllButType ==
    ASSUME TypeInv, NEW present, DeleteAllBut(present)
    PROVE  /\ PassShape(pass') /\ pass'.pc # "record"
           /\ RowsShape(rows')
           /\ \/ rows' = rows
              \/ /\ Believed(pass.known \ present)
                 /\ rows' = rows \ {r \in rows : r.gen = pass.sel.gen
                                                  /\ r.uid \in pass.known \ present}
           /\ \E n : pass' = AfterReconcile(n)
<1>1. \E n : pass' = AfterReconcile(n)
  BY DEF DeleteAllBut
<1>2. \/ rows' = rows
      \/ /\ Believed(pass.known \ present)
         /\ rows' = rows \ {r \in rows : r.gen = pass.sel.gen
                                          /\ r.uid \in pass.known \ present}
  BY DEF DeleteAllBut
<1>3. RowsShape(rows')
  BY <1>2, FS_Subset DEF TypeInv, RowsShape
<1> QED
  BY <1>1, <1>2, <1>3, AfterReconcileType

\* A step of a pass that writes rows and not the sync state.
LEMMA RowsOnlyType ==
    ASSUME TypeInv, UNCHANGED <<server_vars, state, leaving, quiet>>,
           Session, bounds' \in Used,
           PassShape(pass'), pass'.pc # "record", RowsShape(rows')
    PROVE  TypeInv'
BY SessionType DEF TypeInv, server_vars, At, ServerShape

LEMMA ReconcileType ==
    ASSUME TypeInv, ReconcileStep
    PROVE  TypeInv'
<1>0. Session
  BY PassSession DEF PassStep
<1>1. CASE Relist
  <2>1. UidsIn(state.gen) \subseteq Nat /\ IsFiniteSet(UidsIn(state.gen))
    BY UidsInType
  <2>2. Cardinality(UidsIn(state.gen)) \in Nat
    BY <2>1, FS_CardinalityType
  <2> DEFINE n == Cardinality(UidsIn(state.gen)) - pass.sel.exists
             k == UidsIn(state.gen)
  <2>3. n \in Int
    BY <2>2 DEF TypeInv, PassShape, PassShapes, Statuses
  <2>4. pass' = [pass EXCEPT !.pc = "reconcile", !.known = k, !.gone = n]
    BY <1>1 DEF Relist
  <2>5. PassShape(pass') /\ pass'.pc # "record"
    <3> HIDE DEF n, k
    <3> QED
      BY <2>1, <2>3, <2>4 DEF k, TypeInv, PassShape, PassShapes, Pcs
  <2> QED
    BY <1>1, <2>5, <1>0, PassOnlyType DEF Relist, TypeInv
<1>2. CASE ReconcileListed
  <2>1. UNCHANGED <<server_vars, state, leaving, quiet, bounds>>
    BY <1>2 DEF ReconcileListed
  <2>2. \/ pass' = Go("refetch") /\ rows' = rows
        \/ \E present : DeleteAllBut(present)
    BY <1>2 DEF ReconcileListed
  <2>3. PassShape(pass') /\ pass'.pc # "record" /\ RowsShape(rows')
    BY <2>2, GoType, DeleteAllButType, ZenonT(40) DEF Pcs, TypeInv
  <2> QED
    BY <2>1, <2>3, <1>0, RowsOnlyType DEF TypeInv
<1>3. CASE ReconcileFetched
  <2>1. UNCHANGED <<server_vars, state, leaving, quiet>>
    BY <1>3 DEF ReconcileFetched
  <2>2. \/ /\ pass' \in {[NoPass EXCEPT !.pc = "rebuild"], NoPass}
           /\ UNCHANGED <<rows, bounds>>
        \/ \E S, T : Answer(S, T) /\ DeleteAllBut(T)
    BY <1>3 DEF ReconcileFetched
  <2>3. CASE \E S, T : Answer(S, T) /\ DeleteAllBut(T)
    BY <2>1, <2>3, AnswerType, DeleteAllButType, <1>0, RowsOnlyType DEF TypeInv
  <2>4. CASE /\ pass' \in {[NoPass EXCEPT !.pc = "rebuild"], NoPass}
             /\ UNCHANGED <<rows, bounds>>
    <3>1. PassShape(pass') /\ pass'.pc # "record"
      BY <2>4, NoPassType DEF PassShape, PassShapes, NoPass, Pcs
    <3> QED
      BY <2>1, <2>4, <3>1, <1>0, RowsOnlyType DEF TypeInv
  <2> QED
    BY <2>2, <2>3, <2>4
<1> QED
  BY <1>1, <1>2, <1>3 DEF ReconcileStep

\* A sweep's answer changes the flags of rows and neither adds nor removes one.
LEMMA SweptRows ==
    ASSUME TypeInv, SweepWrite
    PROVE  RowsShape(rows') /\ {Key(r) : r \in rows'} = {Key(r) : r \in rows}
<1> DEFINE swept(r) == IF \E m \in pass.got : Key(m) = Key(r)
                       THEN CHOOSE m \in pass.got : Key(m) = Key(r) ELSE r
           f == [r \in rows |-> swept(r)]
<1>1. rows' = {swept(r) : r \in rows}
  BY DEF SweepWrite
<1>2. \A r \in rows : swept(r) \in rows \cup pass.got /\ Key(swept(r)) = Key(r)
  OBVIOUS
<1>3. \A r, x \in rows : Key(r) = Key(x) => swept(r) = swept(x)
  BY DEF TypeInv, RowsShape
<1>4. f \in Surjection(rows, rows')
  BY <1>1 DEF Surjection
<1>5. IsFiniteSet(rows')
  BY <1>4, FS_Surjection DEF TypeInv, RowsShape
<1> HIDE DEF swept, f
<1>6. rows' \subseteq Mails
  BY <1>1, <1>2 DEF TypeInv, RowsShape, PassShape, PassShapes
<1>7. \A r, x \in rows' : Key(r) = Key(x) => r = x
  BY <1>1, <1>2, <1>3
<1> QED
  BY <1>1, <1>2, <1>5, <1>6, <1>7 DEF RowsShape

LEMMA SweepType ==
    ASSUME TypeInv, SweepStep
    PROVE  TypeInv'
<1>0. Session
  BY PassSession DEF PassStep
<1>1. CASE SweepSkipped
  <2>1. PassShape(pass')
    <3>1. pass' \in PassShapes
      <4> DEFINE p == [pass EXCEPT !.pc = "record", !.arrived = 0]
      <4>1. p \in PassShapes
        BY DEF TypeInv, PassShape, PassShapes, Pcs
      <4>2. pass' = [p EXCEPT !.gone = 0]
        BY <1>1 DEF SweepSkipped, TypeInv, PassShape, PassShapes
      <4> HIDE DEF p
      <4> QED
        BY <4>1, <4>2 DEF PassShapes
    <3>2. pass'.known = pass.known /\ pass'.got = pass.got
      BY <1>1 DEF SweepSkipped, TypeInv, PassShape, PassShapes
    <3> QED
      BY <3>1, <3>2 DEF TypeInv, PassShape
  <2>2. kind.reliable \/ state.passes + 1 < SweepEvery
    BY <1>1 DEF SweepSkipped, Sweeps, TypeInv, States
  <2> QED
    BY <1>0, <1>1, <2>1, <2>2, SessionType DEF SweepSkipped, TypeInv, server_vars, local_vars
<1>2. CASE SweepRead
  <2>1. PassShape(pass') /\ pass'.pc # "record"
    <3>1. Messages(Shown) \subseteq Mails /\ IsFiniteSet(Messages(Shown))
      BY MessagesType
    <3>2. pass' \in PassShapes
      <4> DEFINE p == [pass EXCEPT !.arrived = 0]
                 q == [p EXCEPT !.gone = 0]
      <4>1. p \in PassShapes
        BY DEF TypeInv, PassShape, PassShapes
      <4>2. q \in PassShapes
        <5> HIDE DEF p
        <5> QED
          BY <4>1 DEF PassShapes
      <4>3. pass' = [q EXCEPT !.pc = "correct", !.got = Messages(Shown)]
        BY <1>2 DEF SweepRead, TypeInv, PassShape, PassShapes
      <4> HIDE DEF p, q
      <4> QED
        BY <3>1, <4>2, <4>3 DEF PassShapes, Pcs
    <3>3. pass'.known = pass.known /\ pass'.got = Messages(Shown) /\ pass'.pc = "correct"
      BY <1>2 DEF SweepRead, TypeInv, PassShape, PassShapes
    <3> QED
      BY <3>1, <3>2, <3>3 DEF TypeInv, PassShape
  <2> QED
    BY <1>2, <2>1, <1>0, PassOnlyType DEF SweepRead, TypeInv
<1>3. CASE SweepWrite
  <2>1. PassShape(pass') /\ pass'.pc # "record"
    BY <1>3, FS_EmptySet DEF SweepWrite, TypeInv, PassShape, PassShapes, Pcs
  <2> QED
    BY <1>3, <2>1, SweptRows, <1>0, RowsOnlyType DEF SweepWrite, TypeInv
<1> QED
  BY <1>1, <1>2, <1>3 DEF SweepStep

LEMMA RecordType ==
    ASSUME TypeInv, Record
    PROVE  TypeInv'
<1>0. Session
  BY PassSession DEF PassStep
<1>1. Observed(pass.sel) \in States
  BY ObservedType DEF TypeInv, PassShape, PassShapes
<1>2. Observed(pass.sel).passes \in {0, state.passes}
  BY DEF Observed, NeverSynced, TypeInv, States
<1>3. state' \in States
  <2> DEFINE o == Observed(pass.sel)
  <2>1. state' = [o EXCEPT !.passes = IF At("swept") \/ kind.reliable THEN 0 ELSE @ + 1]
    BY DEF Record, FlagPassed
  <2>2. CASE At("swept") \/ kind.reliable
    BY <1>1, <2>1, <2>2 DEF States
  <2>3. CASE ~(At("swept") \/ kind.reliable)
    <3>1. state.passes + 1 < SweepEvery
      BY <2>3 DEF Record, TypeInv
    <3>2. o.passes + 1 \in 0 .. SweepEvery - 1
      BY <1>2, <3>1 DEF TypeInv, States
    <3> HIDE DEF o
    <3> QED
      BY <1>1, <2>1, <2>3, <3>2 DEF o, States
  <2> QED
    BY <2>2, <2>3
<1>4. PassShape(pass') /\ pass'.pc # "record"
  BY GoType DEF Record, Pcs
<1> QED
  BY <1>0, <1>3, <1>4, SessionType DEF Record, TypeInv, server_vars, local_vars, At

LEMMA DecideType ==
    ASSUME TypeInv, Distrust \/ Excess \/ Short
    PROVE  TypeInv'
<1>0. Session
  BY PassSession DEF PassStep
<1>1. CASE Distrust
  <2>1. bounds' \in Used
    BY <1>1 DEF Distrust, Lose, TypeInv, Used
  <2>2. PassShape(pass') /\ pass'.pc # "record"
    BY <1>1, NoPassType DEF Distrust, PassShape, PassShapes, NoPass, Pcs
  <2> QED
    BY <1>1, <2>1, <2>2, <1>0, PassOnlyType DEF Distrust, TypeInv
<1>2. CASE Excess
  <2>1. PassShape(pass') /\ pass'.pc # "record"
    BY <1>2, GoType DEF Excess, Pcs
  <2> QED
    BY <1>2, <2>1, <1>0, PassOnlyType DEF Excess, TypeInv
<1>3. CASE Short
  <2>1. PassShape(pass') /\ pass'.pc # "record"
    BY <1>3, NoPassType DEF Short, PassShape, PassShapes, NoPass, Pcs, Plans
  <2> QED
    BY <1>3, <2>1, <1>0, PassOnlyType DEF Short, TypeInv
<1> QED
  BY <1>1, <1>2, <1>3

LEMMA PassStepType ==
    ASSUME TypeInv, PassStep
    PROVE  TypeInv'
BY SelectType, FirstType, EnumType, StoreType, IncrementalType, ReconcileType,
   SweepType, RecordType, DecideType DEF PassStep

\* A renumbered mailbox holds what it held.
LEMMA RenumberType ==
    ASSUME TypeInv, Renumber
    PROVE  ServerShape(srv')
<1> DEFINE n == Cardinality(Uids)
           old(i) == CHOOSE u \in Uids : Cardinality({v \in Uids : v <= u}) = i
           new == [i \in 1 .. n |-> [srv.box[old(i)] EXCEPT !.mod = 1]]
<1>1. n \in Nat
  BY UidsFinite
<1>2. \A i \in 1 .. n : old(i) \in Uids
  BY UidsFinite, RanksOnto
<1>3. srv' = [gen |-> srv.gen + 1, next |-> n + 1, high |-> 1, box |-> new]
  BY DEF Renumber
<1>4. \A i \in 1 .. n : new[i] \in [flag : BOOLEAN, mod : 1 .. 1]
  <2> TAKE i \in 1 .. n
  <2>1. PICK u \in Uids : u = old(i)
    BY <1>2
  <2>2. srv.box[u] \in [flag : BOOLEAN, mod : 1 .. srv.high]
    BY DEF TypeInv, ServerShape, Uids
  <2>3. new[i] = [srv.box[u] EXCEPT !.mod = 1]
    BY <2>1
  <2>4. 1 \in 1 .. 1
    OBVIOUS
  <2> HIDE DEF new
  <2> QED
    BY <2>2, <2>3, <2>4
<1>5. srv.gen + 1 \in 1 .. MaxGens
  BY DEF Renumber, TypeInv, ServerShape
<1>6. new = [i \in DOMAIN new |-> new[i]] /\ DOMAIN new = 1 .. n
  OBVIOUS
<1> HIDE DEF n, new
<1> QED
  BY <1>1, <1>3, <1>4, <1>5, <1>6 DEF ServerShape

\* Messages of a shrunken mailbox, under a MODSEQ that may have been raised.
LEMMA ShrinkType ==
    ASSUME TypeInv, NEW S \in SUBSET Uids, NEW high \in {srv.high, srv.high + 1},
           srv' = [srv EXCEPT !.high = high, !.box = [v \in S |-> srv.box[v]]]
    PROVE  ServerShape(srv')
<1> DEFINE new == [v \in S |-> srv.box[v]]
<1>1. srv' = [gen |-> srv.gen, next |-> srv.next, high |-> high, box |-> new]
  BY DEF TypeInv, ServerShape
<1>2. new = [v \in DOMAIN new |-> new[v]] /\ DOMAIN new = S
  OBVIOUS
<1>3. \A v \in S : v \in 1 .. srv.next - 1 /\ new[v] \in [flag : BOOLEAN, mod : 1 .. high]
  <2> TAKE v \in S
  <2>1. v \in 1 .. srv.next - 1 /\ srv.box[v] \in [flag : BOOLEAN, mod : 1 .. srv.high]
    BY DEF TypeInv, ServerShape, Uids
  <2>2. \A k \in 1 .. srv.high : k \in 1 .. high
    BY DEF TypeInv, ServerShape
  <2> QED
    BY <2>1, <2>2
<1>4. high \in Nat \ {0}
  BY DEF TypeInv, ServerShape
<1>5. /\ srv'.gen = srv.gen /\ srv'.next = srv.next
      /\ srv'.high = high /\ srv'.box = new
  BY <1>1
<1> HIDE DEF new
<1>6. srv.gen \in 1 .. MaxGens /\ srv.next \in Nat \ {0}
  BY DEF TypeInv, ServerShape
<1> QED
  BY <1>1, <1>2, <1>3, <1>4, <1>5, <1>6, ZenonT(40) DEF ServerShape

LEMMA HappensType ==
    ASSUME TypeInv, Happens, ServerShape(srv'), past' = past \/ BoxShape(past')
    PROVE  TypeInv'
<1>1. bounds' \in Used
  BY DEF Happens, TypeInv, Used
<1>2. UNCHANGED <<kind, told, state, rows, leaving, pass, ahead>> /\ quiet' \in BOOLEAN
  BY DEF Happens, local_vars
<1>3. BoxShape(past')
  BY DEF TypeInv
<1> QED
  BY <1>1, <1>2, <1>3 DEF TypeInv, At

LEMMA ServerType ==
    ASSUME TypeInv, ServerStep
    PROVE  TypeInv'
<1>1. Happens
  BY DEF ServerStep, Arrive, Reflag, Expunge, Renumber, Restore
<1>2. CASE Arrive
  <2> DEFINE new == [u \in Uids \cup {srv.next} |->
                       IF u = srv.next THEN [flag |-> FALSE, mod |-> srv.high + 1]
                                       ELSE srv.box[u]]
  <2>1. srv' = [gen |-> srv.gen, next |-> srv.next + 1, high |-> srv.high + 1, box |-> new]
    BY <1>2 DEF Arrive, TypeInv, ServerShape
  <2>2. new = [u \in DOMAIN new |-> new[u]] /\ DOMAIN new = Uids \cup {srv.next}
    OBVIOUS
  <2>3. \A u \in Uids \cup {srv.next} :
           u \in 1 .. srv.next /\ new[u] \in [flag : BOOLEAN, mod : 1 .. srv.high + 1]
    BY DEF TypeInv, ServerShape, Uids
  <2>4. ServerShape(srv')
    <3> HIDE DEF new
    <3>1. srv.next \in Nat /\ srv.next + 1 - 1 = srv.next
      BY DEF TypeInv, ServerShape
    <3> QED
      BY <2>1, <2>2, <2>3, <3>1 DEF TypeInv, ServerShape
  <2> QED
    BY <1>1, <1>2, <2>4, HappensType DEF Arrive
<1>3. CASE \E u \in Uids : Reflag(u)
  <2>1. PICK u \in Uids : Reflag(u)
    BY <1>3
  <2> DEFINE m == [flag |-> ~srv.box[u].flag, mod |-> srv.high + 1]
             new == [srv.box EXCEPT ![u] = m]
  <2>2. srv' = [gen |-> srv.gen, next |-> srv.next, high |-> srv.high + 1, box |-> new]
    BY <2>1 DEF Reflag, TypeInv, ServerShape
  <2>3. new = [v \in DOMAIN new |-> new[v]] /\ DOMAIN new = Uids
    BY DEF Uids
  <2>4. m \in [flag : BOOLEAN, mod : 1 .. srv.high + 1]
    BY DEF TypeInv, ServerShape
  <2>5. \A v \in Uids :
           v \in 1 .. srv.next - 1 /\ new[v] \in [flag : BOOLEAN, mod : 1 .. srv.high + 1]
    <3> TAKE v \in Uids
    <3>1. v \in 1 .. srv.next - 1 /\ srv.box[v] \in [flag : BOOLEAN, mod : 1 .. srv.high]
      BY DEF TypeInv, ServerShape, Uids
    <3>2. new[v] = IF v = u THEN m ELSE srv.box[v]
      BY DEF Uids
    <3>3. \A k \in 1 .. srv.high : k \in 1 .. srv.high + 1
      BY DEF TypeInv, ServerShape
    <3> HIDE DEF new, m
    <3> QED
      BY <2>4, <3>1, <3>2, <3>3
  <2>6. ServerShape(srv')
    <3> HIDE DEF new
    <3> QED
      BY <2>2, <2>3, <2>5 DEF TypeInv, ServerShape
  <2> QED
    BY <1>1, <2>1, <2>6, HappensType DEF Reflag
<1>4. CASE \E u \in Uids : Expunge(u)
  <2>1. PICK u \in Uids, high \in {srv.high, srv.high + 1} :
           srv' = [srv EXCEPT !.high = high, !.box = [v \in Uids \ {u} |-> srv.box[v]]]
    BY <1>4 DEF Expunge
  <2>2. ServerShape(srv')
    BY <2>1, ShrinkType
  <2> QED
    BY <1>1, <1>4, <2>2, HappensType DEF Expunge
<1>5. CASE Renumber
  <2>1. BoxShape(srv.box)
    BY UidsFinite DEF BoxShape, TypeInv, ServerShape, Uids
  <2> QED
    BY <1>1, <1>5, <2>1, RenumberType, HappensType DEF Renumber
<1>6. CASE Restore
  <2> DEFINE new == [u \in Uids |-> [flag |-> FALSE, mod |-> 1]]
  <2>1. srv' = [gen |-> srv.gen, next |-> srv.next, high |-> 1, box |-> new]
    BY <1>6 DEF Restore, TypeInv, ServerShape
  <2>2. new = [u \in DOMAIN new |-> new[u]] /\ DOMAIN new = Uids
    OBVIOUS
  <2>3. \A u \in Uids : u \in 1 .. srv.next - 1 /\ new[u] \in [flag : BOOLEAN, mod : 1 .. 1]
    BY DEF TypeInv, ServerShape, Uids
  <2>4. ServerShape(srv')
    <3> HIDE DEF new
    <3> QED
      BY <2>1, <2>2, <2>3 DEF TypeInv, ServerShape
  <2> QED
    BY <1>1, <1>6, <2>4, HappensType DEF Restore
<1> QED
  BY <1>2, <1>3, <1>4, <1>5, <1>6 DEF ServerStep

LEMMA UserType ==
    ASSUME TypeInv, NEW r \in rows, MoveAway(r)
    PROVE  TypeInv'
<1>1. RowsShape(rows')
  BY FS_Subset DEF MoveAway, TypeInv, RowsShape
<1>2. leaving' \subseteq Leaving
  BY DEF MoveAway, TypeInv, RowsShape, Mails, Leaving
<1>3. bounds' \in Used
  BY DEF MoveAway, TypeInv, Used
<1> QED
  BY <1>1, <1>2, <1>3 DEF MoveAway, TypeInv, server_vars, session_vars, At

LEMMA DrainType ==
    ASSUME TypeInv, DrainStep
    PROVE  TypeInv'
<1>1. PICK l \in leaving : DrainMove(l) \/ DrainSettle(l)
  BY DEF DrainStep
<1>2. CASE DrainMove(l)
  <2>1. leaving' \subseteq Leaving
    BY <1>2 DEF DrainMove, TypeInv, Leaving
  <2>2. ServerShape(srv') /\ quiet' \in BOOLEAN
    <3>1. CASE l.gen = srv.gen /\ l.uid \in Uids
      <4>1. PICK high \in {srv.high, srv.high + 1} :
               srv' = [srv EXCEPT !.high = high, !.box = [u \in Uids \ {l.uid} |-> srv.box[u]]]
        BY <1>2, <3>1 DEF DrainMove
      <4> QED
        BY <1>2, <3>1, <4>1, ShrinkType DEF DrainMove
    <3>2. CASE ~(l.gen = srv.gen /\ l.uid \in Uids)
      BY <1>2, <3>2 DEF DrainMove, TypeInv
    <3> QED
      BY <3>1, <3>2
  <2> QED
    BY <1>2, <2>1, <2>2 DEF DrainMove, TypeInv, session_vars, At
<1>3. CASE DrainSettle(l)
  BY <1>3 DEF DrainSettle, TypeInv, At, server_vars, session_vars
<1> QED
  BY <1>1, <1>2, <1>3

LEMMA CutType ==
    ASSUME TypeInv, Cut
    PROVE  TypeInv'
<1>1. bounds' \in Used /\ told' \in 0 .. MaxGens /\ ahead' \in BOOLEAN
  BY DEF Cut, TypeInv, Used, NoGen, session_vars
<1>2. BoxShape(past')
  BY FS_EmptySet DEF Cut, TypeInv, session_vars, BoxShape, NoBox
<1> QED
  BY <1>1, <1>2, NoPassType DEF Cut, TypeInv, server_vars, local_vars, At, NoPass

LEMMA InitType == Init => TypeInv
<1> SUFFICES ASSUME Init PROVE TypeInv
  OBVIOUS
<1> DEFINE box == [u \in 1 .. Initial |-> [flag |-> FALSE, mod |-> 1]]
<1>1. box = [u \in DOMAIN box |-> box[u]] /\ DOMAIN box = 1 .. Initial
  OBVIOUS
<1>2. \A u \in 1 .. Initial : box[u] \in [flag : BOOLEAN, mod : 1 .. 1]
  OBVIOUS
<1>3. srv = [gen |-> 1, next |-> Initial + 1, high |-> 1, box |-> box]
  BY DEF Init
<1>4. ServerShape(srv)
  <2> HIDE DEF box
  <2> QED
    BY <1>1, <1>2, <1>3 DEF ServerShape
<1>5. NeverSynced \in States
  BY DEF NeverSynced, States, NoGen, NoSeq
<1>6. RowsShape({}) /\ BoxShape(NoBox)
  BY FS_EmptySet DEF RowsShape, BoxShape, NoBox
<1>7. ~At("record")
  BY NoPassFields DEF Init, At
<1>8. bounds \in Used /\ kind \in Kinds /\ told \in 0 .. MaxGens
  BY DEF Init, Used, Kinds, NoGen
<1> QED
  BY <1>4, <1>5, <1>6, <1>7, <1>8, NoPassType DEF Init, TypeInv

LEMMA NextType ==
    ASSUME TypeInv, [Next]_vars
    PROVE  TypeInv'
<1>1. CASE UNCHANGED vars
  BY <1>1 DEF vars, server_vars, session_vars, local_vars, TypeInv, At
<1>2. CASE Next
  BY <1>2, PassStepType, DrainType, ServerType, CutType, UserType DEF Next
<1> QED
  BY <1>1, <1>2

\* The mailbox, its sync state and the pass keep the shape the code gives them;
\* a message has one row, and an incomplete feed is trusted for SweepEvery - 1
\* passes at most (the upsert's key, SweepPolicy::decide).
THEOREM TypeCorrect == Spec => []TypeOK
<1>1. Spec => []TypeInv
  BY InitType, NextType, PTL DEF Spec
<1> QED
  BY <1>1, TypeInvTypeOK, PTL

-----------------------------------------------------------------------------
(* Counting.                                                               *)

\* What is known splits into what is there and what has gone.
LEMMA KnownSplits ==
    ASSUME NEW K, NEW U, IsFiniteSet(K), IsFiniteSet(U)
    PROVE  /\ IsFiniteSet(K \ U) /\ Cardinality(K \ U) \in Nat
           /\ IsFiniteSet(K \cap U) /\ Cardinality(K \cap U) \in Nat
           /\ Cardinality(K) \in Nat
           /\ Cardinality(K) = Cardinality(K \cap U) + Cardinality(K \ U)
<1>1. IsFiniteSet(K \ U) /\ IsFiniteSet(K \cap U)
  BY FS_Subset
<1>2. Cardinality(K \ U) = Cardinality(K) - Cardinality(K \cap U)
  BY FS_Difference
<1>3. /\ Cardinality(K) \in Nat /\ Cardinality(K \ U) \in Nat
      /\ Cardinality(K \cap U) \in Nat
  BY <1>1, FS_CardinalityType
<1> QED
  BY <1>1, <1>2, <1>3

\* Arrivals that are there and were not known cannot make more go missing than
\* have gone.
LEMMA MissingBound ==
    ASSUME NEW K, NEW U, IsFiniteSet(K), IsFiniteSet(U),
           NEW n \in Nat, n <= Cardinality(U \ K)
    PROVE  Cardinality(K) + n - Cardinality(U) <= Cardinality(K \ U)
<1>1. K \cap U = U \cap K
  OBVIOUS
<1>2. /\ Cardinality(K) = Cardinality(K \cap U) + Cardinality(K \ U)
      /\ Cardinality(U) = Cardinality(K \cap U) + Cardinality(U \ K)
      /\ Cardinality(K \cap U) \in Nat /\ Cardinality(K \ U) \in Nat
      /\ Cardinality(U \ K) \in Nat
  BY <1>1, KnownSplits
<1> QED
  BY <1>2

\* An answer that lacks something which is there makes more seem gone than have.
LEMMA PartialSeemsMore ==
    ASSUME NEW K, NEW U, IsFiniteSet(K), IsFiniteSet(U),
           NEW T, T \subseteq K \cap U, T # K \cap U
    PROVE  /\ Cardinality(K \ T) \in Nat /\ Cardinality(K \ U) \in Nat
           /\ Cardinality(K \ U) < Cardinality(K \ T)
<1>1. K \ U \subseteq K \ T /\ K \ U # K \ T
  OBVIOUS
<1>2. IsFiniteSet(K \ T)
  BY FS_Subset
<1>3. /\ Cardinality(K \ U) <= Cardinality(K \ T)
      /\ Cardinality(K \ U) = Cardinality(K \ T) => K \ U = K \ T
  BY <1>1, <1>2, FS_Subset
<1>4. Cardinality(K \ T) \in Nat /\ Cardinality(K \ U) \in Nat
  BY <1>2, KnownSplits, FS_CardinalityType
<1> QED
  BY <1>1, <1>3, <1>4

\* Messages of the mailbox as it is.
Here(u) == [gen |-> srv.gen, uid |-> u, flag |-> srv.box[u].flag]
Mail(S) == {Here(u) : u \in S \cap Uids}

\* That is what a selection of this generation shows.
LEMMA SeenIsHere ==
    ASSUME told = srv.gen
    PROVE  Shown = Uids /\ \A S : Messages(S) = Mail(S)
<1>1. Confirmed
  BY DEF Confirmed
<1>2. Shown = Uids /\ Seen.gen = srv.gen /\ Seen.box = srv.box
  BY <1>1 DEF Shown, Seen, Uids
<1>3. \A u : Message(u) = Here(u)
  BY <1>2 DEF Message, Here
<1> QED
  BY <1>2, <1>3 DEF Messages, Mail

\* New among what the mailbox holds are at most the UIDs that were not known.
LEMMA NewToBound ==
    ASSUME TypeInv, NEW S, S \subseteq Mail(Uids)
    PROVE  NewTo(S) <= Cardinality(Uids \ pass.known)
<1> DEFINE N == {m \in S : m.uid \notin pass.known}
           New == {u \in Uids \ pass.known : Here(u) \in N}
           f == [u \in New |-> Here(u)]
<1>1. IsFiniteSet(Uids \ pass.known)
  BY UidsFinite, FS_Subset
<1>2. IsFiniteSet(New) /\ Cardinality(New) <= Cardinality(Uids \ pass.known)
  <2>1. New \subseteq Uids \ pass.known
    OBVIOUS
  <2> HIDE DEF New
  <2> QED
    BY <1>1, <2>1, FS_Subset
<1>3. f \in Surjection(New, N)
  BY DEF Surjection, Mail, Here
<1>4. IsFiniteSet(N) /\ Cardinality(N) <= Cardinality(New)
  BY <1>2, <1>3, FS_Surjection
<1>5. /\ Cardinality(N) \in Nat /\ Cardinality(New) \in Nat
      /\ Cardinality(Uids \ pass.known) \in Nat
  BY <1>1, <1>2, <1>4, FS_CardinalityType
<1> QED
  BY <1>2, <1>4, <1>5 DEF NewTo

-----------------------------------------------------------------------------
(* Generations, and the queue's word on a row.                             *)

\* Generations only grow, so what was recorded and selected is of this one or
\* an earlier, and what is about to be wiped of an earlier.  A pass that selected
\* this one is of the generation the process was told.
GensBehind ==
    /\ state.gen <= srv.gen
    /\ pass.sel.gen <= srv.gen
    /\ pass.first.gen <= srv.gen
    /\ At("wipe") => state.gen # srv.gen
    /\ pass.sel.gen = srv.gen => told = srv.gen

\* A message with a row is not on its way out.
HeldIsNotLeaving == \A r \in rows, l \in leaving : Key(l) = Key(r) => l.state = "failed"

\* A pass leaves the server and the queue of moves alone.
LEMMA PassFrame ==
    ASSUME PassStep
    PROVE  UNCHANGED <<server_vars, leaving>>
BY DEF PassStep, EnumStep, IncrementalStep, ReconcileStep, SweepStep, Select, SelectRefused,
       Rebuild, Wipe, ObserveFirst, EnumSelect, EnumList, EnumFetch, EnumEnd, ObserveLast,
       Store, FetchChanges, FetchArrivals, Count, Relist, ReconcileListed, ReconcileFetched,
       SweepSkipped, SweepRead, SweepWrite, Distrust, Record, Excess, Short, local_vars

\* How a step of a pass changes what GensBehind speaks of.
LEMMA PassGens ==
    ASSUME TypeInv, GensBehind, PassStep
    PROVE  GensBehind'
<1>0. told' \in {told, srv.gen}
  BY PassSession DEF Session
<1>1. srv' = srv
  BY PassFrame DEF server_vars
<1>2. /\ srv.gen \in 1 .. MaxGens /\ state.gen \in 0 .. MaxGens
      /\ pass.sel \in Statuses /\ pass.first \in Statuses /\ pass \in PassShapes
  BY DEF TypeInv, ServerShape, States, PassShape, PassShapes
<1>3. /\ Status.gen = srv.gen /\ Status \in Statuses
      /\ NoPass.sel.gen = 0 /\ NoPass.first.gen = 0 /\ NoPass.pc = "idle"
      /\ NoStatus.gen = 0
  BY StatusType DEF NoPass, NoStatus, NoGen
<1>4. CASE Select
  <2>1. /\ state' = state /\ told' = srv.gen
        /\ pass'.sel.gen = srv.gen
        /\ pass'.first.gen \in {0, srv.gen}
        /\ pass'.pc = "wipe" => Plan(Status) = "GenerationChanged"
    BY <1>3, <1>4 DEF Select, Selected, NoPass
  <2>2. Plan(Status) = "GenerationChanged" => state.gen # srv.gen
    BY <1>3 DEF Plan
  <2> QED
    BY <1>0, <1>1, <1>2, <2>1, <2>2 DEF GensBehind, At
<1>5. CASE Rebuild
  <2>1. \/ pass' = NoPass
        \/ pass'.sel.gen = srv.gen /\ pass'.first.gen = 0 /\ told' = srv.gen
           /\ (pass'.pc = "wipe" => state.gen \notin {NoGen, srv.gen})
    BY <1>3, <1>5 DEF Rebuild, Selected, NoPass
  <2>2. state' = state
    BY <1>5 DEF Rebuild
  <2> QED
    BY <1>0, <1>1, <1>2, <1>3, <2>1, <2>2 DEF GensBehind, At
<1>6. CASE ObserveFirst \/ Record \/ ObserveLast
  <2>1. state'.gen \in {state.gen, pass.sel.gen, pass.first.gen}
    <3>1. Observed(pass.sel).gen = pass.sel.gen /\ Observed(pass.first).gen = pass.first.gen
      BY <1>2, ObservedType
    <3>2. Observed(pass.sel) \in States
      BY <1>2, ObservedType
    <3>3. FlagPassed(Observed(pass.sel), At("swept")).gen = pass.sel.gen
      BY <3>1, <3>2 DEF FlagPassed, States
    <3> QED
      BY <1>6, <3>1, <3>3 DEF ObserveFirst, Record, ObserveLast
  <2>2. \/ pass' = NoPass
        \/ pass'.sel = pass.sel /\ pass'.first = pass.first /\ pass'.pc # "wipe"
    BY <1>6, GoType DEF ObserveFirst, Record, ObserveLast, Pcs
  <2> QED
    BY <1>0, <1>1, <1>2, <1>3, <2>1, <2>2 DEF GensBehind, At
<1>7. CASE EnumSelect \/ EnumEnd
  <2>1. state'.gen \in {state.gen, srv.gen}
    <3>1. Completed(state).gen = state.gen
      BY CompletedType DEF TypeInv
    <3>2. Observed(Status).gen = srv.gen /\ Completed(Observed(Status)).gen = srv.gen
      BY <1>3, ObservedType, CompletedType
    <3> QED
      BY <1>7, <3>1, <3>2 DEF EnumSelect, EnumEnd
  <2>2. \/ pass' = NoPass
        \/ /\ pass'.sel = pass.sel \/ (pass'.sel = Status /\ told' = srv.gen)
           /\ pass'.first = pass.first
           /\ pass'.pc # "wipe"
    <3>1. CASE EnumSelect
      BY <1>2, <3>1 DEF EnumSelect, Selected, PassShapes
    <3>2. CASE EnumEnd
      BY <3>2, GoType DEF EnumEnd, Pcs
    <3> QED
      BY <1>7, <3>1, <3>2
  <2> QED
    BY <1>0, <1>1, <1>2, <1>3, <2>1, <2>2 DEF GensBehind, At
<1>8. CASE Wipe \/ EnumList \/ EnumFetch \/ Store \/ FetchChanges \/ FetchArrivals
           \/ Count \/ ReconcileStep \/ SweepStep \/ Excess \/ Short \/ SelectRefused \/ Distrust
  <2>1. state' = state
    BY <1>8 DEF Wipe, EnumList, EnumFetch, Store, FetchChanges, FetchArrivals, Count,
                ReconcileStep, Relist, ReconcileListed, ReconcileFetched, SweepStep,
                SweepSkipped, SweepRead, SweepWrite, Excess, Short, SelectRefused, Distrust
  <2>2. /\ pass'.sel \in {pass.sel, NoStatus} /\ pass'.first \in {pass.first, NoStatus}
        /\ pass'.pc # "wipe"
    <3>1. CASE Wipe \/ EnumList \/ Store
      BY <1>2, <3>1 DEF Wipe, EnumList, Store, Go, PassShapes
    <3>6. CASE EnumFetch
      <4>1. \/ pass' = NoPass
            \/ \E U, T : pass' = [pass EXCEPT !.todo = U, !.got = T,
                                              !.pc = IF T = {} THEN "fetch" ELSE "store"]
        BY <3>6 DEF EnumFetch
      <4> QED
        BY <1>2, <4>1, NoPassFields DEF PassShapes
    <3>2. CASE FetchChanges \/ FetchArrivals \/ Count
      BY <1>2, <3>2 DEF FetchChanges, Changed, FetchArrivals, Count, Reads, Go, PassShapes
    <3>3. CASE Relist \/ SweepStep \/ Excess
      BY <1>2, <3>3 DEF Relist, SweepStep, SweepSkipped, SweepRead, SweepWrite, Excess,
                        Go, PassShapes
    <3>4. CASE ReconcileListed \/ ReconcileFetched
      <4>1. \/ \E n : pass' = AfterReconcile(n)
            \/ pass' = Go("refetch")
            \/ pass' \in {[NoPass EXCEPT !.pc = "rebuild"], NoPass}
        BY <3>4 DEF ReconcileListed, ReconcileFetched, DeleteAllBut
      <4> QED
        <5>1. CASE pass' = Go("refetch")
          BY <5>1, GoType DEF Pcs
        <5>2. CASE \E n : pass' = AfterReconcile(n)
          <6>1. \/ pass' = NoPass
                \/ pass' = [pass EXCEPT !.pc = "sweep", !.known = {}]
                \/ pass' = [pass EXCEPT !.pc = "short", !.known = {}]
            BY <5>2 DEF AfterReconcile
          <6> QED
            BY <1>2, <6>1, NoPassFields DEF PassShapes
        <5>3. CASE pass' \in {[NoPass EXCEPT !.pc = "rebuild"], NoPass}
          BY <5>3, FreshType, NoPassFields DEF Pcs, Plans
        <5> QED
          BY <4>1, <5>1, <5>2, <5>3
    <3>5. CASE Short \/ SelectRefused \/ Distrust
      <4>1. \/ pass' = NoPass
            \/ pass' = [NoPass EXCEPT !.pc = "rebuild"]
            \/ pass' = [NoPass EXCEPT !.pc = "reselect", !.plan = "ShortOfExists"]
        BY <3>5 DEF Short, SelectRefused, Distrust
      <4> QED
        BY <4>1, FreshType, NoPassFields DEF Pcs, Plans
    <3> QED
      BY <1>8, <3>1, <3>2, <3>3, <3>4, <3>5, <3>6 DEF ReconcileStep
  <2> QED
    BY <1>0, <1>1, <1>2, <1>3, <2>1, <2>2 DEF GensBehind, At
<1> QED
  BY <1>4, <1>5, <1>6, <1>7, <1>8 DEF PassStep, EnumStep, IncrementalStep

LEMMA NextGens ==
    ASSUME TypeInv, GensBehind, [Next]_vars
    PROVE  GensBehind'
<1> USE DEF TypeInv, ServerShape, States, PassShape, PassShapes, Statuses
<1>1. CASE PassStep
  BY <1>1, PassGens
<1>2. CASE DrainStep \/ \E r \in rows : MoveAway(r)
  <2>1. srv'.gen = srv.gen /\ UNCHANGED <<state, pass, told>>
    <3>1. CASE \E r \in rows : MoveAway(r)
      BY <3>1 DEF MoveAway, server_vars, session_vars
    <3>2. CASE DrainStep
      <4>1. PICK l \in leaving : DrainMove(l) \/ DrainSettle(l)
        BY <3>2 DEF DrainStep
      <4>2. CASE DrainSettle(l)
        BY <4>2 DEF DrainSettle, server_vars, session_vars
      <4>3. CASE DrainMove(l)
        <5>1. UNCHANGED <<state, pass, told>>
          BY <4>3 DEF DrainMove, session_vars
        <5>2. \/ srv' = srv
              \/ \E high, b : srv' = [srv EXCEPT !.high = high, !.box = b]
          <6>1. CASE l.gen = srv.gen /\ l.uid \in Uids
            <7> DEFINE b == [u \in Uids \ {l.uid} |-> srv.box[u]]
            <7>1. \E high : srv' = [srv EXCEPT !.high = high, !.box = b]
              BY <4>3, <6>1 DEF DrainMove
            <7> QED
              BY <7>1
          <6>2. CASE ~(l.gen = srv.gen /\ l.uid \in Uids)
            BY <4>3, <6>2, Zenon DEF DrainMove
          <6> QED
            BY <6>1, <6>2
        <5> QED
          BY <5>1, <5>2
      <4> QED
        BY <4>1, <4>2, <4>3
    <3> QED
      BY <1>2, <3>1, <3>2
  <2> QED
    BY <2>1 DEF GensBehind, At
<1>3. CASE ServerStep
  <2>1. srv'.gen \in {srv.gen, srv.gen + 1} /\ UNCHANGED <<state, pass, told>>
    <3>1. Happens
      BY <1>3 DEF ServerStep, Arrive, Reflag, Expunge, Renumber, Restore
    <3>2. CASE Renumber
      BY <3>1, <3>2 DEF Renumber, Happens
    <3>3. CASE Arrive \/ Restore \/ \E u \in Uids : Reflag(u)
      BY <3>1, <3>3, ZenonT(40) DEF Arrive, Restore, Reflag, Happens
    <3>4. CASE \E u \in Uids : Expunge(u)
      BY <3>1, <3>4 DEF Expunge, Happens
    <3> QED
      BY <1>3, <3>2, <3>3, <3>4 DEF ServerStep
  <2> QED
    BY <2>1 DEF GensBehind, At
<1>4. CASE Cut
  <2>1. UNCHANGED <<srv, state>> /\ pass' = NoPass
    BY <1>4 DEF Cut, server_vars
  <2> QED
    BY <2>1 DEF GensBehind, At, NoPass, NoStatus, NoGen
<1>5. CASE UNCHANGED vars
  BY <1>5 DEF vars, server_vars, session_vars, GensBehind, At
<1> QED
  BY <1>1, <1>2, <1>3, <1>4, <1>5 DEF Next

\* What a pass does to the rows: it leaves out some, stores one that is not on its
\* way out, or changes flags.
LEMMA PassRows ==
    ASSUME TypeInv, PassStep
    PROVE  \/ rows' \subseteq rows
           \/ \E m \in pass.got : Store /\ rows' = Upserted(m)
           \/ SweepWrite
<1>1. CASE Store
  BY <1>1 DEF Store
<1>2. CASE Wipe
  BY <1>2 DEF Wipe
<1>3. CASE ReconcileStep
  <2>1. rows' = rows \/ \E present : DeleteAllBut(present)
    BY <1>3 DEF ReconcileStep, Relist, ReconcileListed, ReconcileFetched, local_vars
  <2> QED
    BY <2>1, DeleteAllButType
<1>4. CASE SweepStep
  BY <1>4 DEF SweepStep, SweepSkipped, SweepRead, local_vars
<1>5. CASE \/ Select \/ SelectRefused \/ Rebuild \/ ObserveFirst
           \/ EnumStep \/ IncrementalStep \/ Distrust \/ Record \/ Excess \/ Short
  BY <1>5 DEF Select, SelectRefused, Rebuild, ObserveFirst, EnumStep, EnumSelect, EnumList,
              EnumFetch, EnumEnd, ObserveLast, IncrementalStep, FetchChanges, FetchArrivals,
              Count, Distrust, Record, Excess, Short, local_vars
<1> QED
  BY <1>1, <1>2, <1>3, <1>4, <1>5 DEF PassStep

LEMMA NextLeaving ==
    ASSUME TypeInv, HeldIsNotLeaving, [Next]_vars
    PROVE  HeldIsNotLeaving'
<1>1. CASE PassStep
  <2>1. leaving' = leaving
    BY <1>1, PassFrame
  <2>2. CASE rows' \subseteq rows
    BY <2>1, <2>2 DEF HeldIsNotLeaving
  <2>3. CASE \E m \in pass.got : rows' = Upserted(m)
    BY <2>1, <2>3 DEF HeldIsNotLeaving, Upserted, Shadowed
  <2>4. CASE SweepWrite
    BY <2>1, <2>4, SweptRows DEF HeldIsNotLeaving
  <2> QED
    BY <1>1, <2>2, <2>3, <2>4, PassRows
<1>2. CASE \E r \in rows : MoveAway(r)
  <2>1. PICK r \in rows : MoveAway(r)
    BY <1>2
  <2>2. /\ rows' = rows \ {r}
        /\ leaving' = leaving \cup {[gen |-> r.gen, uid |-> r.uid, state |-> "pending"]}
    BY <2>1 DEF MoveAway
  <2>3. \A x \in rows' : Key(x) # Key(r)
    BY <2>2 DEF TypeInv, RowsShape
  <2> QED
    BY <2>2, <2>3 DEF HeldIsNotLeaving, Key
<1>3. CASE DrainStep
  <2>1. PICK l \in leaving : DrainMove(l) \/ DrainSettle(l)
    BY <1>3 DEF DrainStep
  <2>2. rows' = rows
    BY <2>1 DEF DrainMove, DrainSettle
  <2>3. CASE DrainMove(l)
    <3>1. /\ l.state = "pending" /\ l \in Leaving
          /\ \E st : leaving' = (leaving \ {l}) \cup {[l EXCEPT !.state = st]}
      BY <2>3 DEF DrainMove, TypeInv
    <3>2. \A r \in rows : Key(l) # Key(r)
      BY <3>1 DEF HeldIsNotLeaving
    <3>3. \A st : Key([l EXCEPT !.state = st]) = Key(l)
      BY <3>1 DEF Key, Leaving
    <3> QED
      BY <2>2, <3>1, <3>2, <3>3 DEF HeldIsNotLeaving
  <2>4. CASE DrainSettle(l)
    BY <2>2, <2>4 DEF DrainSettle, HeldIsNotLeaving
  <2> QED
    BY <2>1, <2>3, <2>4
<1>4. CASE ServerStep \/ Cut \/ UNCHANGED vars
  <2>1. rows' = rows /\ leaving' = leaving
    BY <1>4 DEF ServerStep, Arrive, Reflag, Expunge, Renumber, Restore, Happens, Cut, vars,
                local_vars
  <2> QED
    BY <2>1 DEF HeldIsNotLeaving
<1> QED
  BY <1>1, <1>2, <1>3, <1>4 DEF Next

-----------------------------------------------------------------------------
(* What EXISTS counts.                                                     *)

\* Where a pass reads EXISTS, and where no incremental pass ever is.
Counting == {"enumerate", "fetch", "store", "changes", "arrivals", "count", "reconcile",
             "refetch", "sweep", "correct", "swept", "record", "excess", "relist"}
Enumerating == {"rebuild", "wipe", "observe", "reselect", "enumerate", "fetch", "complete"}

\* While the mailbox stays as it was selected, EXISTS counts it, what the feed
\* reported is in it, and no more rows are missed than have gone.
CountsExact ==
    /\ pass.pc \in Enumerating => pass.plan # "Incremental"
    /\ quiet /\ pass.pc \in Counting
         => pass.sel.exists = Cardinality(Uids) /\ pass.sel.gen = srv.gen
    /\ quiet /\ At("arrivals") => pass.got \subseteq Mail(Uids)
    /\ quiet /\ (At("count") \/ (At("store") /\ pass.plan = "Incremental"))
         => pass.arrived <= Cardinality(Uids \ pass.known)
    /\ quiet /\ pass.pc \in {"reconcile", "refetch"}
         => pass.gone <= Cardinality(pass.known \ Uids)

\* A step that leaves the mailbox alone keeps the counts of a pass that goes on.
LEMMA GoCounts ==
    ASSUME TypeInv, CountsExact, UNCHANGED srv, quiet' => quiet,
           NEW p \in Pcs \ {"arrivals", "count", "store", "reconcile", "refetch"},
           pass'.sel = pass.sel, pass'.plan = pass.plan, pass'.pc = p,
           p \in Counting => pass.pc \in Counting,
           p \in Enumerating => pass.pc \in Enumerating
    PROVE  CountsExact'
BY DEF CountsExact, At, Uids, Enumerating, Counting

\* A pass that is over, or starts anew at p.
LEMMA FreshCounts ==
    ASSUME NEW p \in {"idle", "rebuild", "reselect"}, pass'.pc = p,
           pass'.plan # "Incremental"
    PROVE  CountsExact'
BY DEF CountsExact, At, Counting

LEMMA SelectCounts ==
    ASSUME TypeInv, Select \/ SelectRefused \/ Rebuild
    PROVE  CountsExact'
<1>1. CASE Select
  <2>1. /\ Uids' = Uids /\ srv' = srv /\ pass'.plan = Plan(Status)
        /\ pass'.sel.exists = Cardinality(Uids) /\ pass'.sel.gen = srv.gen
        /\ \/ pass'.pc = "changes" /\ Plan(Status) = "Incremental"
           \/ pass'.pc = "sweep"
           \/ pass'.pc \in {"wipe", "reselect", "observe"} /\ Plan(Status) # "Incremental"
    BY <1>1, StatusType DEF Select, NoPass, Uids, server_vars
  <2> QED
    BY <2>1 DEF CountsExact, At, Counting, Enumerating
<1>2. CASE SelectRefused
  <2>1. pass'.pc = "rebuild" /\ pass'.plan = "None"
    BY <1>2 DEF SelectRefused, NoPass
  <2> QED
    BY <2>1, FreshCounts
<1>3. CASE Rebuild
  <2>1. \/ pass' = NoPass
        \/ /\ pass'.pc \in {"wipe", "observe"}
           /\ pass'.plan # "Incremental"
    BY <1>3 DEF Rebuild, NoPass
  <2>2. CASE pass' = NoPass
    BY <2>2, NoPassFields, FreshCounts
  <2>3. CASE pass'.pc \in {"wipe", "observe"} /\ pass'.plan # "Incremental"
    BY <2>3 DEF CountsExact, At, Counting, Enumerating
  <2> QED
    BY <2>1, <2>2, <2>3
<1> QED
  BY <1>1, <1>2, <1>3

LEMMA EnumCounts ==
    ASSUME TypeInv, CountsExact, EnumStep \/ Wipe \/ ObserveFirst
    PROVE  CountsExact'
<1> USE DEF Counting, Enumerating
<1>1. pass.pc \in Enumerating /\ pass.plan # "Incremental" /\ pass \in PassShapes
  BY DEF EnumStep, EnumSelect, EnumList, EnumFetch, EnumEnd, ObserveLast, Wipe, ObserveFirst,
         At, CountsExact, TypeInv, PassShape
<1>2. srv' = srv /\ quiet' = quiet /\ Uids' = Uids
  BY DEF EnumStep, EnumSelect, EnumList, EnumFetch, EnumEnd, ObserveLast, Wipe, ObserveFirst,
         server_vars, Uids
<1>3. CASE pass' = NoPass
  BY <1>3, NoPassFields, FreshCounts
<1>4. CASE Wipe \/ ObserveFirst \/ EnumEnd \/ ObserveLast
  <2>1. \/ pass' = NoPass
        \/ pass' = Go("observe") \/ pass' = Go("reselect") \/ pass' = Go("complete")
    BY <1>4 DEF Wipe, ObserveFirst, EnumEnd, ObserveLast
  <2>2. pass' # NoPass =>
           pass'.pc \in {"observe", "reselect", "complete"} /\ pass'.plan = pass.plan
    BY <2>1, GoType DEF Pcs
  <2> QED
    BY <1>1, <1>3, <2>2 DEF CountsExact, At
<1>5. CASE EnumSelect
  <2>1. \/ pass' = NoPass
        \/ pass'.pc = "complete" /\ pass'.plan = pass.plan
        \/ pass'.pc = "enumerate" /\ pass'.plan = pass.plan /\ pass'.sel = Status
    BY <1>1, <1>5 DEF EnumSelect, PassShapes
  <2> QED
    BY <1>1, <1>2, <1>3, <2>1, StatusType DEF CountsExact, At
<1>6. CASE EnumList \/ EnumFetch
  <2>1. pass.pc \in {"enumerate", "fetch"}
    BY <1>6 DEF EnumList, EnumFetch, At
  <2>2. \/ pass' = NoPass
        \/ /\ pass'.pc \in {"fetch", "store"} /\ pass'.plan = pass.plan
           /\ pass'.sel = pass.sel
    <3>1. CASE EnumList
      BY <1>1, <3>1 DEF EnumList, PassShapes
    <3>2. CASE EnumFetch
      <4>1. \/ pass' = NoPass
            \/ \E U, T : pass' = [pass EXCEPT !.todo = U, !.got = T,
                                              !.pc = IF T = {} THEN "fetch" ELSE "store"]
        BY <3>2 DEF EnumFetch
      <4> QED
        BY <1>1, <4>1 DEF PassShapes
    <3> QED
      BY <1>6, <3>1, <3>2
  <2> QED
    BY <1>1, <1>2, <1>3, <2>1, <2>2 DEF CountsExact, At
<1> QED
  BY <1>4, <1>5, <1>6 DEF EnumStep

LEMMA IncrementalCounts ==
    ASSUME TypeInv, GensBehind, CountsExact, IncrementalStep \/ Store
    PROVE  CountsExact'
<1> USE DEF Counting, Enumerating
<1>1. pass.pc \in {"changes", "arrivals", "store", "count"} /\ pass \in PassShapes
  BY DEF IncrementalStep, FetchChanges, FetchArrivals, Count, Store, At, TypeInv, PassShape
<1>2. srv' = srv /\ quiet' = quiet /\ Uids' = Uids
  BY DEF IncrementalStep, FetchChanges, FetchArrivals, Count, Store, server_vars, Uids
<1>3. quiet => /\ pass.sel.exists = Cardinality(Uids) /\ pass.sel.gen = srv.gen
               /\ Shown = Uids /\ \A S : Messages(S) = Mail(S)
  BY <1>1, SeenIsHere DEF CountsExact, GensBehind
<1>4. \A S : pass' = Reads(S) =>
         /\ pass'.pc \in {"store", "count"} /\ pass'.arrived = NewTo(S)
         /\ pass'.known = pass.known /\ pass'.sel = pass.sel /\ pass'.plan = pass.plan
  BY <1>1 DEF Reads, PassShapes
<1>5. ASSUME NEW S, pass' = Reads(S), quiet => S \subseteq Mail(Uids)
      PROVE  CountsExact'
  <2>1. quiet => NewTo(S) <= Cardinality(Uids \ pass.known)
    BY <1>5, NewToBound
  <2> QED
    BY <1>2, <1>3, <1>4, <1>5, <2>1 DEF CountsExact, At
<1>6. CASE FetchChanges
  <2>1. PICK S \in SUBSET Messages(Shown) :
           pass' = [pass EXCEPT !.got = S, !.pc = "arrivals"] \/ pass' = Reads(S)
    BY <1>6 DEF FetchChanges, Changed
  <2>2. CASE pass' = [pass EXCEPT !.got = S, !.pc = "arrivals"]
    <3>1. /\ pass'.pc = "arrivals" /\ pass'.got = S /\ pass'.sel = pass.sel
      BY <1>1, <2>2 DEF PassShapes
    <3>2. Mail(Uids)' = Mail(Uids)
      BY <1>2 DEF Mail, Here
    <3> QED
      BY <1>2, <1>3, <2>1, <3>1, <3>2 DEF CountsExact, At
  <2> QED
    BY <1>3, <1>5, <2>1, <2>2
<1>7. CASE FetchArrivals
  <2>1. PICK T : /\ T \subseteq Messages({u \in Shown : u >= Floor(pass.got)})
                 /\ pass' = Reads(pass.got \cup T)
    BY <1>7 DEF FetchArrivals
  <2>2. quiet => T \subseteq Mail(Uids)
    BY <1>3, <2>1 DEF Messages
  <2>3. quiet => pass.got \subseteq Mail(Uids)
    BY <1>7 DEF FetchArrivals, CountsExact
  <2> QED
    BY <1>5, <2>1, <2>2, <2>3
<1>8. CASE Count
  <2> DEFINE n == Cardinality(pass.known) + pass.arrived
             x == pass.sel.exists
             gone == IF n > x THEN n - x ELSE 0
  <2>1. \/ pass' = Go("sweep")
        \/ /\ pass' = [pass EXCEPT !.pc = "reconcile", !.gone = gone]
           /\ pass.known # {}
    BY <1>8 DEF Count
  <2>2. CASE pass' = Go("sweep")
    BY <1>1, <1>2, <1>3, <2>2, GoType DEF Pcs, CountsExact, At
  <2>3. CASE pass' = [pass EXCEPT !.pc = "reconcile", !.gone = gone]
    <3>1. /\ pass'.pc = "reconcile" /\ pass'.gone = gone /\ pass'.known = pass.known
          /\ pass'.sel = pass.sel /\ pass'.plan = pass.plan
      BY <1>1, <2>3 DEF PassShapes
    <3>2. quiet => gone <= Cardinality(pass.known \ Uids)
      <4> HAVE quiet
      <4>1. /\ IsFiniteSet(pass.known) /\ IsFiniteSet(Uids) /\ pass.arrived \in Nat
        BY UidsFinite DEF TypeInv, PassShape, PassShapes
      <4>2. pass.arrived <= Cardinality(Uids \ pass.known)
        <5>1. quiet /\ At("count")
          BY <1>8 DEF Count
        <5> QED
          BY <5>1 DEF CountsExact
      <4>3. n - Cardinality(Uids) <= Cardinality(pass.known \ Uids)
        <5>1. /\ Cardinality(pass.known) \in Nat /\ Cardinality(Uids) \in Nat
              /\ Cardinality(pass.known \ Uids) \in Nat
          BY <4>1, KnownSplits
        <5> QED
          BY <4>1, <4>2, <5>1, MissingBound
      <4>4. Cardinality(pass.known \ Uids) \in Nat
        BY <4>1, KnownSplits
      <4> QED
        BY <1>3, <4>3, <4>4
    <3> HIDE DEF gone
    <3> QED
      BY <1>2, <1>3, <3>1, <3>2 DEF CountsExact, At
  <2> QED
    BY <2>1, <2>2, <2>3
<1>9. CASE Store
  <2>1. /\ pass'.pc = "store" \/ pass'.pc = IF pass.plan = "Incremental" THEN "count" ELSE "fetch"
        /\ pass'.plan = pass.plan /\ pass'.sel = pass.sel /\ pass'.arrived = pass.arrived
        /\ pass'.known = pass.known
    BY <1>1, <1>9 DEF Store, PassShapes
  <2>2. pass.pc = "store"
    BY <1>9 DEF Store, At
  <2> QED
    BY <1>2, <1>3, <2>1, <2>2 DEF CountsExact, At
<1> QED
  BY <1>6, <1>7, <1>8, <1>9 DEF IncrementalStep

LEMMA ReconcileCounts ==
    ASSUME TypeInv, CountsExact, ReconcileStep
    PROVE  CountsExact'
<1>1. pass.pc \in {"relist", "reconcile", "refetch"} /\ pass \in PassShapes
  BY DEF ReconcileStep, Relist, ReconcileListed, ReconcileFetched, At, TypeInv, PassShape
<1>2. srv' = srv /\ quiet' = quiet /\ Uids' = Uids
  BY DEF ReconcileStep, Relist, ReconcileListed, ReconcileFetched, server_vars, Uids
<1>3. quiet => pass.sel.exists = Cardinality(Uids) /\ pass.sel.gen = srv.gen
  BY <1>1 DEF CountsExact, Counting
<1>4. CASE \E n : pass' = AfterReconcile(n)
  <2>1. \/ pass' = NoPass
        \/ /\ pass'.pc \in {"sweep", "short"}
           /\ pass'.sel = pass.sel /\ pass'.plan = pass.plan
    BY <1>1, <1>4 DEF AfterReconcile, PassShapes
  <2>2. CASE pass' = NoPass
    BY <2>2, NoPassFields, FreshCounts
  <2> QED
    BY <1>2, <1>3, <2>1, <2>2 DEF CountsExact, At, Counting, Enumerating
<1>5. CASE Relist
  <2> DEFINE K == UidsIn(state.gen)
             gone == Cardinality(K) - pass.sel.exists
  <2>1. pass' = [pass EXCEPT !.pc = "reconcile", !.known = K, !.gone = gone]
    BY <1>5 DEF Relist
  <2>2. /\ pass'.pc = "reconcile" /\ pass'.known = K /\ pass'.gone = gone
        /\ pass'.sel = pass.sel /\ pass'.plan = pass.plan
    BY <1>1, <2>1 DEF PassShapes
  <2>3. quiet => gone <= Cardinality(K \ Uids)
    <3> HAVE quiet
    <3>1. IsFiniteSet(K) /\ IsFiniteSet(Uids)
      BY UidsInType, UidsFinite
    <3>2. /\ Cardinality(K) = Cardinality(K \cap Uids) + Cardinality(K \ Uids)
          /\ Cardinality(K \cap Uids) \in Nat /\ Cardinality(K \ Uids) \in Nat
      BY <3>1, KnownSplits
    <3>3. Cardinality(K \cap Uids) <= Cardinality(Uids)
      BY <3>1, FS_Subset
    <3>4. Cardinality(Uids) \in Nat
      BY UidsFinite
    <3> QED
      BY <1>3, <3>2, <3>3, <3>4
  <2> HIDE DEF K, gone
  <2> QED
    BY <1>2, <1>3, <2>2, <2>3 DEF CountsExact, At, Counting, Enumerating
<1>6. CASE ReconcileListed
  <2>1. pass' = Go("refetch") \/ \E n : pass' = AfterReconcile(n)
    BY <1>6 DEF ReconcileListed, DeleteAllBut
  <2>2. CASE pass' = Go("refetch")
    <3>1. /\ pass'.pc = "refetch" /\ pass'.known = pass.known /\ pass'.gone = pass.gone
          /\ pass'.sel = pass.sel /\ pass'.plan = pass.plan
      BY <2>2, GoType DEF Pcs
    <3>2. quiet => pass.gone <= Cardinality(pass.known \ Uids)
      BY <1>6 DEF ReconcileListed, At, CountsExact
    <3> QED
      BY <1>2, <1>3, <3>1, <3>2 DEF CountsExact, At, Counting, Enumerating
  <2> QED
    BY <1>4, <2>1, <2>2
<1>7. CASE ReconcileFetched
  <2>1. \/ \E n : pass' = AfterReconcile(n)
        \/ pass' \in {[NoPass EXCEPT !.pc = "rebuild"], NoPass}
    BY <1>7 DEF ReconcileFetched, DeleteAllBut
  <2>2. CASE pass' \in {[NoPass EXCEPT !.pc = "rebuild"], NoPass}
    <3>1. pass'.pc \in {"rebuild", "idle"} /\ pass'.plan = "None"
      BY <2>2 DEF NoPass
    <3> QED
      BY <3>1, FreshCounts
  <2> QED
    BY <1>4, <2>1, <2>2
<1> QED
  BY <1>5, <1>6, <1>7 DEF ReconcileStep

LEMMA SweepCounts ==
    ASSUME TypeInv, CountsExact, SweepStep \/ Record \/ Excess
    PROVE  CountsExact'
<1>1. pass.pc \in {"sweep", "correct", "swept", "record", "excess"} /\ pass \in PassShapes
  BY DEF SweepStep, SweepSkipped, SweepRead, SweepWrite, Record, Excess, At, TypeInv, PassShape
<1>2. srv' = srv /\ quiet' = quiet
  BY DEF SweepStep, SweepSkipped, SweepRead, SweepWrite, Record, Excess, server_vars
<1>3. /\ pass'.pc \in {"record", "correct", "swept", "short", "excess", "relist"}
      /\ pass'.sel = pass.sel /\ pass'.plan = pass.plan
  <2>1. CASE SweepStep
    BY <1>1, <2>1 DEF SweepStep, SweepSkipped, SweepRead, SweepWrite, PassShapes
  <2>2. CASE Record \/ Excess
    BY <2>2, GoType DEF Record, Excess, Pcs
  <2> QED
    BY <2>1, <2>2
<1> QED
  BY <1>1, <1>2, <1>3 DEF CountsExact, At, Counting, Enumerating, Uids

\* The counts are of the pass and the mailbox.
LEMMA SameCounts ==
    ASSUME CountsExact, UNCHANGED <<pass, quiet, srv>>
    PROVE  CountsExact'
<1>1. Uids' = Uids
  BY DEF Uids
<1>2. Mail(Uids)' = Mail(Uids)
  BY <1>1 DEF Mail, Here
<1>3. \A p : At(p)' = At(p)
  BY DEF At
<1> QED
  BY <1>1, <1>2, <1>3 DEF CountsExact

LEMMA NextCounts ==
    ASSUME TypeInv, GensBehind, CountsExact, [Next]_vars
    PROVE  CountsExact'
<1>1. CASE PassStep
  <2>1. CASE Distrust \/ Short
    <3>1. pass'.pc \in {"rebuild", "idle", "reselect"} /\ pass'.plan # "Incremental"
      <4>1. CASE Distrust
        BY <4>1 DEF Distrust, NoPass
      <4>2. CASE Short
        <5>1. \/ pass' = NoPass
              \/ pass' = [NoPass EXCEPT !.pc = "reselect", !.plan = "ShortOfExists"]
          BY <4>2 DEF Short
        <5> QED
          BY <5>1, FreshType, NoPassFields DEF Pcs, Plans
      <4> QED
        BY <2>1, <4>1, <4>2
    <3> QED
      BY <3>1, FreshCounts
  <2> QED
    BY <1>1, <2>1, SelectCounts, EnumCounts, IncrementalCounts, ReconcileCounts, SweepCounts
       DEF PassStep
<1>2. CASE Cut
  BY <1>2, NoPassFields, FreshCounts DEF Cut
<1>3. CASE ServerStep
  <2>1. quiet' = FALSE /\ pass' = pass
    BY <1>3 DEF ServerStep, Arrive, Reflag, Expunge, Renumber, Restore, Happens
  <2> QED
    BY <2>1 DEF CountsExact
<1>4. CASE DrainStep
  <2>1. pass' = pass /\ (quiet' = FALSE \/ (quiet' = quiet /\ srv' = srv))
    BY <1>4 DEF DrainStep, DrainMove, DrainSettle, server_vars
  <2>2. CASE quiet' = FALSE
    BY <2>1, <2>2 DEF CountsExact
  <2> QED
    BY <2>1, <2>2, SameCounts
<1>5. CASE (\E r \in rows : MoveAway(r)) \/ UNCHANGED vars
  <2>1. UNCHANGED <<pass, quiet, srv>>
    BY <1>5 DEF MoveAway, vars, server_vars
  <2> QED
    BY <2>1, SameCounts
<1> QED
  BY <1>1, <1>2, <1>3, <1>4, <1>5 DEF Next

-----------------------------------------------------------------------------
(* No row is deleted of a message the server holds.                        *)

SafeInv == TypeInv /\ GensBehind /\ HeldIsNotLeaving /\ CountsExact

LEMMA InitSafe == Init => SafeInv
<1> SUFFICES ASSUME Init PROVE SafeInv
  OBVIOUS
<1>1. TypeInv
  BY InitType
<1>2. GensBehind
  BY NoPassFields DEF Init, GensBehind, At, NeverSynced, NoStatus, NoGen
<1>3. HeldIsNotLeaving /\ CountsExact
  BY NoPassFields DEF Init, HeldIsNotLeaving, CountsExact, At, Counting, Enumerating
<1> QED
  BY <1>1, <1>2, <1>3 DEF SafeInv

LEMMA NextSafe ==
    ASSUME SafeInv, [Next]_vars
    PROVE  SafeInv'
BY NextType, NextGens, NextLeaving, NextCounts DEF SafeInv

\* The row of a message the server holds goes only for the user's move, or with a
\* line lost while the mailbox changes.
Deletes(r) == Key(r) \notin {Key(x) : x \in rows'} /\ leaving' = leaving
              /\ r.gen = srv.gen /\ r.uid \in Uids
Allowed == ~quiet /\ bounds'.losses > bounds.losses

\* A unit stored takes only the place of its own key.
LEMMA StoreKeeps ==
    ASSUME NEW m, rows' = Upserted(m), NEW r \in rows
    PROVE  Key(r) \in {Key(x) : x \in rows'}
BY DEF Upserted

\* A wipe is of rows that an earlier generation numbered.
LEMMA WipeKeeps ==
    ASSUME SafeInv, Wipe, NEW r \in rows, r.gen = srv.gen
    PROVE  r \in rows'
BY DEF Wipe, SafeInv, GensBehind

\* The presence check is complete, or lacks a line and is then believed only if
\* the mailbox has changed: otherwise more is missing than EXISTS demands.
LEMMA PresenceKeeps ==
    ASSUME SafeInv, NEW present, DeleteAllBut(present), pass.pc \in {"reconcile", "refetch"},
           \/ present = Shown \/ present = pass.known \cap Shown
           \/ /\ present \subseteq pass.known \cap Shown /\ present # pass.known \cap Shown
              /\ bounds'.losses > bounds.losses,
           NEW r \in rows, Deletes(r)
    PROVE  Allowed
<1>1. /\ Believed(pass.known \ present)
      /\ r.uid \in pass.known \ present /\ r.gen = pass.sel.gen
  <2>1. r \notin rows'
    BY DEF Deletes
  <2>2. \/ rows' = rows
        \/ /\ Believed(pass.known \ present)
           /\ rows' = rows \ {x \in rows : x.gen = pass.sel.gen
                                           /\ x.uid \in pass.known \ present}
    BY DeleteAllButType DEF SafeInv
  <2> QED
    BY <2>1, <2>2
<1>8. Shown = Uids
  <2>1. told = srv.gen
    BY <1>1 DEF Deletes, SafeInv, GensBehind
  <2> QED
    BY <2>1, SeenIsHere
<1>2. r.uid \in Uids
  BY DEF Deletes
<1>3. /\ present \subseteq pass.known \cap Uids /\ present # pass.known \cap Uids
      /\ bounds'.losses > bounds.losses
  BY <1>8, <1>1, <1>2
<1>4. SUFFICES ASSUME quiet PROVE FALSE
  BY <1>3 DEF Allowed
<1>5. pass.gone <= Cardinality(pass.known \ Uids)
  BY <1>4 DEF SafeInv, CountsExact
<1>6. /\ IsFiniteSet(pass.known) /\ IsFiniteSet(Uids) /\ pass.gone \in Int
  BY UidsFinite DEF SafeInv, TypeInv, PassShape, PassShapes
<1>7. /\ Cardinality(pass.known \ present) \in Nat /\ Cardinality(pass.known \ Uids) \in Nat
      /\ Cardinality(pass.known \ Uids) < Cardinality(pass.known \ present)
  BY <1>3, <1>6, PartialSeemsMore
<1> QED
  BY <1>1, <1>5, <1>6, <1>7 DEF Believed

LEMMA NextKeeps ==
    ASSUME SafeInv, [Next]_vars, NEW r \in rows, Deletes(r)
    PROVE  Allowed
<1>1. r \notin rows' /\ leaving' = leaving /\ r.gen = srv.gen /\ r.uid \in Uids
  BY DEF Deletes
<1>2. CASE PassStep
  <2>1. CASE Store
    BY <2>1, StoreKeeps DEF Store, Deletes
  <2>2. CASE SweepWrite
    BY <2>2, SweptRows DEF Deletes, SafeInv
  <2>3. CASE Wipe
    BY <1>1, <2>3, WipeKeeps
  <2>4. CASE ReconcileListed
    <3>1. rows' = rows \/ DeleteAllBut(Shown)
      <4>1. PICK L \in {{Shown}, {}} :
               IF L = {} THEN pass' = Go("refetch") /\ UNCHANGED rows
                         ELSE DeleteAllBut(UNION L)
        BY <2>4 DEF ReconcileListed
      <4>2. UNION {Shown} = Shown
        OBVIOUS
      <4> QED
        BY <4>1, <4>2
    <3>2. pass.pc \in {"reconcile", "refetch"}
      BY <2>4 DEF ReconcileListed, At
    <3> QED
      BY <1>1, <3>1, <3>2, PresenceKeeps
  <2>5. CASE ReconcileFetched
    <3>1. \/ rows' = rows
          \/ \E T \in SUBSET (pass.known \cap Shown) :
                Answer(pass.known \cap Shown, T) /\ DeleteAllBut(T)
      BY <2>5 DEF ReconcileFetched
    <3>2. pass.pc \in {"reconcile", "refetch"}
      BY <2>5 DEF ReconcileFetched, At
    <3>3. ASSUME NEW T \in SUBSET (pass.known \cap Shown),
                 Answer(pass.known \cap Shown, T), DeleteAllBut(T)
          PROVE  Allowed
      <4>1. T = pass.known \cap Shown \/ bounds'.losses > bounds.losses
        BY <3>3, AnswerType DEF SafeInv
      <4> QED
        BY <3>2, <3>3, <4>1, PresenceKeeps
    <3> QED
      BY <1>1, <3>1, <3>3
  <2>6. CASE \/ Select \/ SelectRefused \/ Rebuild \/ ObserveFirst \/ EnumStep \/ IncrementalStep
             \/ Relist \/ SweepSkipped \/ SweepRead \/ Distrust \/ Record \/ Excess \/ Short
    <3>1. rows' = rows
      BY <2>6 DEF Select, SelectRefused, Rebuild, ObserveFirst, EnumStep, EnumSelect, EnumList,
                  EnumFetch, EnumEnd, ObserveLast, IncrementalStep, FetchChanges, FetchArrivals,
                  Count, Relist, SweepSkipped, SweepRead, Distrust, Record, Excess, Short,
                  local_vars
    <3> QED
      BY <1>1, <3>1
  <2> QED
    BY <1>2, <2>1, <2>2, <2>3, <2>4, <2>5, <2>6 DEF PassStep, ReconcileStep, SweepStep
<1>3. CASE \E x \in rows : MoveAway(x)
  <2>1. PICK x \in rows : MoveAway(x)
    BY <1>3
  <2> DEFINE l == [gen |-> x.gen, uid |-> x.uid, state |-> "pending"]
  <2>2. l \in leaving
    BY <1>1, <2>1 DEF MoveAway
  <2>3. Key(l) = Key(x) /\ l.state # "failed"
    BY DEF Key
  <2> QED
    BY <2>2, <2>3 DEF SafeInv, HeldIsNotLeaving
<1>4. CASE DrainStep \/ ServerStep \/ Cut \/ UNCHANGED vars
  <2>1. rows' = rows
    BY <1>4 DEF DrainStep, DrainMove, DrainSettle, ServerStep, Arrive, Reflag, Expunge,
                Renumber, Restore, Happens, Cut, vars, local_vars
  <2> QED
    BY <1>1, <2>1
<1> QED
  BY <1>2, <1>3, <1>4 DEF Next

\* However the mailbox changes between the select, the reading of the rows and the
\* presence check, by however many arrivals, expunges, renumberings and moves: the
\* row of a message the server holds is deleted only for the user's own move of it,
\* or when a response line was lost while the mailbox was changing
\* (reconcile_vanished, wipe_mailbox).
THEOREM NothingHeldIsDeleted == Spec => OnlyGoneDeleted
<1>1. Spec => []SafeInv
  BY InitSafe, NextSafe, PTL DEF Spec
<1>2. SafeInv /\ [Next]_vars
        => [\A r \in rows :
              Key(r) \notin {Key(x) : x \in rows'} /\ leaving' = leaving
              /\ r.gen = srv.gen /\ r.uid \in Uids
              => ~quiet /\ bounds'.losses > bounds.losses]_vars
  BY NextKeeps DEF Deletes, Allowed
<1> QED
  BY <1>1, <1>2, PTL DEF Spec, OnlyGoneDeleted
=============================================================================

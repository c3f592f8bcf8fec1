-------------------------------- MODULE Slots --------------------------------
(***************************************************************************)
(* What the connection pool promises of its slots: each lane is a counting *)
(* semaphore.  A slot is free or has one owner; it is taken, returned, or  *)
(* handed from one owner to the next without being free in between.        *)
(***************************************************************************)
EXTENDS Integers

CONSTANTS
    Users,
    Kinds, \* of slots
    Size   \* how many there are of each kind

VARIABLES free, owners

Init ==
    /\ free = Size
    /\ owners = [k \in Kinds |-> {}]

Take(k, u) ==
    /\ free[k] > 0
    /\ u \notin owners[k]
    /\ free' = [free EXCEPT ![k] = @ - 1]
    /\ owners' = [owners EXCEPT ![k] = @ \cup {u}]

Return(k, u) ==
    /\ u \in owners[k]
    /\ free' = [free EXCEPT ![k] = @ + 1]
    /\ owners' = [owners EXCEPT ![k] = @ \ {u}]

HandOver(k, u, v) ==
    /\ u \in owners[k]
    /\ v \notin owners[k]
    /\ owners' = [owners EXCEPT ![k] = (@ \ {u}) \cup {v}]
    /\ UNCHANGED free

Next == \E k \in Kinds, u \in Users :
    \/ Take(k, u)
    \/ Return(k, u)
    \/ \E v \in Users : HandOver(k, u, v)

Spec == Init /\ [][Next]_<<free, owners>>
=============================================================================

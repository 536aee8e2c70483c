----------------------------- MODULE Admission ------------------------------
(***************************************************************************)
(* What the balancer promises its backends: each is a room for a fixed     *)
(* number of requests.  A request enters a room that has a free place and  *)
(* leaves it, perhaps to try another one; how it picks the room is nobody  *)
(* else's business.  A room gets its size once, while it is empty.         *)
(***************************************************************************)
EXTENDS Integers, FiniteSets

CONSTANTS
    Guest,    \* whoever may enter
    Room,     \* the rooms
    Outside   \* being in none of them; not a room

VARIABLES
    place,     \* the room each guest is in, or Outside
    capacity   \* the places of each room

Inside(m) == {g \in Guest : place[g] = m}

Init ==
    /\ place = [g \in Guest |-> Outside]
    /\ capacity \in [Room -> Nat]

Enter(g, m) ==
    /\ place[g] = Outside
    /\ Cardinality(Inside(m)) < capacity[m]
    /\ place' = [place EXCEPT ![g] = m]
    /\ UNCHANGED capacity

Leave(g) ==
    /\ place[g] # Outside
    /\ place' = [place EXCEPT ![g] = Outside]
    /\ UNCHANGED capacity

Furnish(m) ==
    /\ Inside(m) = {}
    /\ capacity' \in [Room -> Nat]
    /\ \A other \in Room \ {m} : capacity'[other] = capacity[other]
    /\ UNCHANGED place

Next ==
    \/ \E g \in Guest : Leave(g) \/ \E m \in Room : Enter(g, m)
    \/ \E m \in Room : Furnish(m)

Spec == Init /\ [][Next]_<<place, capacity>>
=============================================================================

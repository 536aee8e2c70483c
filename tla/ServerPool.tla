----------------------------- MODULE ServerPool -----------------------------
(***************************************************************************)
(* backend/serverPool.go: the pool's slice, its round-robin pointer and    *)
(* its mutex.  Adding, removing and choosing hold the mutex; ranging over  *)
(* p.servers does not, so a reader goes on with the slice header it        *)
(* captured while writers work on the same backing array.                  *)
(***************************************************************************)
EXTENDS Backends

CONSTANTS
    Nobody,    \* the mutex is free
    Chooser,   \* the callers of GetNextPeer
    Reader,    \* the goroutines that range over the slice without the mutex
    BootCap    \* the capacity of the slice after the configured appends

ASSUME ServerPoolAssumption ==
    /\ Nobody \notin Chooser \cup Backend
    /\ BootCap \in Nat
    /\ BootCap >= Len(Boot)

VARIABLES
    servers,   \* ServerPool.servers
    sliceCap,  \* cap(ServerPool.servers)
    current,   \* ServerPool.current, counted from 0
    mux,       \* the caller inside GetNextPeer, or Nobody
    scanned,   \* i of GetNextPeer's loop
    range      \* for each reader the elements its range statement would still
               \* see, how many it has taken, and whether they are (a prefix
               \* of) the pool's present backing array

poolVars == <<servers, sliceCap, current, mux, scanned>>
serverPoolVars == <<servers, sliceCap, current, mux, scanned, range>>

Pool == {servers[i] : i \in DOMAIN servers}

Idle == [view |-> <<>>, pos |-> 0, shared |-> FALSE]

ServerPoolTypeOK ==
    /\ servers \in Seq(Backend)
    /\ sliceCap \in Nat
    /\ current \in Nat \cup {-1}
    /\ mux \in Chooser \cup {Nobody}
    /\ scanned \in Nat
    /\ range \in [Reader -> [view : Seq(Backend), pos : Nat, shared : BOOLEAN]]

ServerPoolInit ==
    /\ servers = Boot
    /\ sliceCap = BootCap
    /\ current = -1
    /\ mux = Nobody
    /\ scanned = 0
    /\ range = [i \in Reader |-> Idle]

-----------------------------------------------------------------------------
(* GetNextPeer, one loop iteration at a time: Backend.alive is not guarded *)
(* by the pool's mutex, so SetAlive may fall between two iterations.       *)

\* Faulty variant: the pointer stays where it is.
NeverAdvance(c) == IF c < 0 THEN 0 ELSE c

IncrementCurrent(c) == IF c + 1 >= Len(servers) THEN 0 ELSE c + 1

\* serverList[p.Current()] of the iteration about to run
NextCandidate == servers[IncrementCurrent(current) + 1]

Lock(p) ==
    /\ mux = Nobody
    /\ mux' = p
    /\ scanned' = 0
    /\ UNCHANGED <<servers, sliceCap, current, range>>

\* Faulty variant: the last server of the round is not looked at.
OneTooFew == scanned + 1 < Len(servers)

MoreToScan == scanned < Len(servers)

\* The candidate is not alive: on to the next iteration.
SkipPeer(p) ==
    /\ mux = p
    /\ MoreToScan
    /\ ~alive[NextCandidate]
    /\ current' = IncrementCurrent(current)
    /\ scanned' = scanned + 1
    /\ UNCHANGED <<servers, sliceCap, mux, range>>

\* The candidate is alive: it is returned and the mutex released.
ReturnPeer(p) ==
    /\ mux = p
    /\ MoreToScan
    /\ alive[NextCandidate]
    /\ current' = IncrementCurrent(current)
    /\ mux' = Nobody
    /\ scanned' = 0
    /\ UNCHANGED <<servers, sliceCap, range>>

\* "all backends are turned down"
ReturnNoPeer(p) ==
    /\ mux = p
    /\ ~MoreToScan
    /\ mux' = Nobody
    /\ scanned' = 0
    /\ UNCHANGED <<servers, sliceCap, current, range>>

-----------------------------------------------------------------------------
(* The writers.  Both work on the backing array the readers may hold.      *)

\* append: in place while the capacity lasts, so that a reader whose header
\* is longer than the slice now is sees the new element where a removal
\* left a stale one; otherwise into a new array of twice the size.
AddServer(b) ==
    LET n == Len(servers) IN
    /\ mux = Nobody
    /\ servers' = Append(servers, b)
    /\ IF n < sliceCap
       THEN /\ range' = [i \in Reader |->
                 IF range[i].shared /\ Len(range[i].view) > n
                 THEN [range[i] EXCEPT !.view[n + 1] = b] ELSE range[i]]
            /\ UNCHANGED sliceCap
       ELSE /\ sliceCap' = IF sliceCap = 0 THEN 1 ELSE 2 * sliceCap
            /\ range' = [i \in Reader |-> [range[i] EXCEPT !.shared = FALSE]]
    /\ UNCHANGED <<current, mux, scanned>>

\* s without its k-th element
Without(s, k) == SubSeq(s, 1, k - 1) \o SubSeq(s, k + 1, Len(s))

\* The same removal as a reader of the backing array sees it: the elements
\* behind the k-th move down one place, the last place keeps what it held.
ShiftDown(v, k) ==
    [i \in DOMAIN v |-> IF k <= i /\ i < Len(servers) THEN servers[i + 1] ELSE v[i]]

\* k is the position of the first server with address u
IsFirst(k, u) ==
    /\ url[servers[k]] = u
    /\ \A j \in 1 .. k - 1 : url[servers[j]] # u

RemoveServerByUrl(u) ==
    /\ mux = Nobody
    /\ \/ \E k \in DOMAIN servers :
            /\ IsFirst(k, u)
            /\ servers' = Without(servers, k)
            /\ range' = [i \in Reader |->
                 IF range[i].shared
                 THEN [range[i] EXCEPT !.view = ShiftDown(@, k)] ELSE range[i]]
       \/ /\ \A b \in Pool : url[b] # u
          /\ UNCHANGED <<servers, range>>
    /\ UNCHANGED <<sliceCap, current, mux, scanned>>

-----------------------------------------------------------------------------
(* for _, v := range p.servers without the mutex.                          *)

RangeStart(i) ==
    /\ range' = [range EXCEPT ![i] = [view |-> servers, pos |-> 0, shared |-> TRUE]]
    /\ UNCHANGED poolVars

MoreToRange(i) == range[i].pos < Len(range[i].view)

RangeElement(i) == range[i].view[range[i].pos + 1]

RangeNext(i) ==
    /\ MoreToRange(i)
    /\ range' = [range EXCEPT ![i].pos = @ + 1]
    /\ UNCHANGED poolVars

\* The loop ends or is left.
RangeEnd(i) ==
    /\ range' = [range EXCEPT ![i] = Idle]
    /\ UNCHANGED poolVars
=============================================================================

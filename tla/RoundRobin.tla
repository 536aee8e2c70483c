----------------------------- MODULE RoundRobin -----------------------------
(***************************************************************************)
(* The pool on its own, driven in every legal way: callers of GetNextPeer, *)
(* SetAlive between any two iterations of their loop, servers added and    *)
(* removed between two calls.  Two history variables say what a client of  *)
(* the pool relies on: nobody is overlooked, nobody is starved.            *)
(***************************************************************************)
EXTENDS ServerPool

VARIABLES
    steady,   \* the servers that have been alive since the running scan began
    skipped   \* for each server, how many choices have gone to others since
              \* it was last chosen, came up, or the pool last shrank

vars == <<backendVars, serverPoolVars, steady, skipped>>

TypeOK ==
    /\ BackendsTypeOK
    /\ ServerPoolTypeOK
    /\ steady \subseteq Backend
    /\ skipped \in [Backend -> Nat]

Init ==
    /\ BackendsInit
    /\ ServerPoolInit
    /\ steady = {}
    /\ skipped = [b \in Backend |-> 0]

AliveInPool == {b \in Pool : alive[b]}

Begin(p) ==
    /\ Lock(p)
    /\ steady' = AliveInPool
    /\ UNCHANGED <<backendVars, skipped>>

Skip(p) ==
    /\ SkipPeer(p)
    /\ UNCHANGED <<backendVars, steady, skipped>>

Choose(p) ==
    /\ ReturnPeer(p)
    /\ skipped' = [b \in Backend |->
           IF b \in AliveInPool \ {NextCandidate} THEN skipped[b] + 1 ELSE 0]
    /\ UNCHANGED <<backendVars, steady>>

Refuse(p) ==
    /\ ReturnNoPeer(p)
    /\ UNCHANGED <<backendVars, steady, skipped>>

\* A health check or a failed request writes the flag.
Flag(b, v) ==
    /\ b \in Allocated
    /\ SetAlive(b, v)
    /\ steady' = IF v THEN steady ELSE steady \ {b}
    /\ skipped' = IF v THEN skipped ELSE [skipped EXCEPT ![b] = 0]
    /\ UNCHANGED serverPoolVars

Add(b, u) ==
    /\ NewBackend(b, u, 1)
    /\ AddServer(b)
    /\ UNCHANGED <<steady, skipped>>

Remove(u) ==
    /\ RemoveServerByUrl(u)
    /\ skipped' = [b \in Backend |-> 0]
    /\ UNCHANGED <<backendVars, steady>>

Next ==
    \/ \E p \in Chooser : Begin(p) \/ Skip(p) \/ Choose(p) \/ Refuse(p)
    \/ \E b \in Backend, v \in BOOLEAN : Flag(b, v)
    \/ \E b \in Backend, u \in Url : Add(b, u)
    \/ \E u \in Url : Remove(u)

Spec == Init /\ [][Next]_vars

-----------------------------------------------------------------------------
\* How many iterations of the loop it takes to get to the server at place i.
Distance(i) ==
    LET first == IncrementCurrent(current) + 1 IN
    IF i >= first THEN i - first + 1 ELSE i - first + 1 + Len(servers)

(* A server of the pool that stays alive is chosen at least once in every  *)
(* Len(servers) choices, whatever is added meanwhile: the pointer only     *)
(* moves forward, and each choice brings it nearer to every server it has  *)
(* passed over (GetNextPeer and IncrementCurrent).                         *)
RoundRobinFair ==
    \A i \in DOMAIN servers :
        alive[servers[i]] => skipped[servers[i]] + Distance(i) <= Len(servers)

(* GetNextPeer never reports "all backends are turned down" while some     *)
(* server has been alive during the whole scan, wherever the pointer was   *)
(* left by removals and from which place the scan started.  (One that came *)
(* up after its turn in the scan may be alive: SetAlive does not take the  *)
(* pool's mutex.)                                                          *)
NoFalseRefusal ==
    (mux # Nobody /\ ~MoreToScan) => steady = {}

(* RoundRobinFair, strengthened until it is inductive: nobody is owed      *)
(* anything who is down or not in the pool, so who comes up or is added    *)
(* starts from nothing; and an added server is one the pool never had.     *)
FairInv ==
    /\ RoundRobinFair
    /\ \A b \in Backend \ AliveInPool : skipped[b] = 0
    /\ Pool \subseteq Allocated

(* NoFalseRefusal, strengthened until it is inductive: who has been alive  *)
(* since the running scan began is at a place still to be scanned.         *)
ScanInv ==
    /\ \A b \in steady : alive[b]
    /\ mux # Nobody =>
         /\ steady \subseteq Pool
         /\ \A i \in DOMAIN servers :
               servers[i] \in steady => scanned + Distance(i) <= Len(servers)

IInv == TypeOK /\ FairInv /\ ScanInv
=============================================================================

-------------------------- MODULE RoundRobinProofs --------------------------
(***************************************************************************)
(* No server that stays alive is starved, and none is overlooked, for any  *)
(* pool, any callers, and any additions, removals and flags.  Both follow  *)
(* from one observation: an iteration of GetNextPeer's loop brings the     *)
(* pointer one place nearer to every server but the one it is at.          *)
(***************************************************************************)
EXTENDS RoundRobin, ServerPoolProofs

-----------------------------------------------------------------------------
(* How far the pointer is from each place                                  *)

(* Every place is at most one round away, the next candidate's is one away *)
(* and no other is.                                                        *)
LEMMA DistanceInRound ==
    ASSUME ServerPoolTypeOK, NEW i \in DOMAIN servers
    PROVE  /\ Distance(i) \in 1 .. Len(servers)
           /\ Distance(i) = 1 <=> i = IncrementCurrent(current) + 1
  <1>1. i \in 1 .. Len(servers) /\ Len(servers) \in Nat
    BY DEF ServerPoolTypeOK
  <1>2. IncrementCurrent(current) \in 0 .. Len(servers) - 1
    BY <1>1, IncrementInPool
  <1> QED BY <1>1, <1>2 DEF Distance

(* An iteration brings the pointer nearer to every place but the one it    *)
(* takes.                                                                  *)
LEMMA DistanceAdvances ==
    ASSUME ServerPoolTypeOK, UNCHANGED servers, current' = IncrementCurrent(current),
           NEW i \in DOMAIN servers, i # IncrementCurrent(current) + 1
    PROVE  Distance(i)' = Distance(i) - 1
  <1>1. i \in 1 .. Len(servers) /\ Len(servers) \in Nat
    BY DEF ServerPoolTypeOK
  <1>2. IncrementCurrent(current) \in 0 .. Len(servers) - 1
    BY <1>1, IncrementInPool
  <1>3. IncrementCurrent(current)' = IF current' + 1 >= Len(servers) THEN 0 ELSE current' + 1
    BY DEF IncrementCurrent
  <1> QED BY <1>1, <1>2, <1>3 DEF Distance

(* Any place is within a round after the iteration as well.                *)
LEMMA DistanceStays ==
    ASSUME ServerPoolTypeOK, UNCHANGED servers, current' = IncrementCurrent(current),
           NEW i \in DOMAIN servers
    PROVE  Distance(i)' \in 1 .. Len(servers)
  <1>1. i \in 1 .. Len(servers) /\ Len(servers) \in Nat
    BY DEF ServerPoolTypeOK
  <1>2. IncrementCurrent(current) \in 0 .. Len(servers) - 1
    BY <1>1, IncrementInPool
  <1>3. IncrementCurrent(current)' = IF current' + 1 >= Len(servers) THEN 0 ELSE current' + 1
    BY DEF IncrementCurrent
  <1> QED BY <1>1, <1>2, <1>3 DEF Distance

(* An addition keeps the pointer from no server for longer than the place  *)
(* it adds to the round.                                                   *)
LEMMA DistanceOfAdded ==
    ASSUME ServerPoolTypeOK, NEW b \in Backend, AddServer(b)
    PROVE  /\ servers' = Append(servers, b) /\ Len(servers') = Len(servers) + 1
           /\ \A i \in DOMAIN servers : Distance(i)' <= Distance(i) + 1
           /\ \A i \in 1 .. Len(servers) + 1 : Distance(i)' \in 1 .. Len(servers) + 1
           /\ \A i \in DOMAIN servers : servers'[i] = servers[i]
           /\ servers'[Len(servers) + 1] = b
           /\ DOMAIN servers' = 1 .. Len(servers) + 1
  <1>1. servers \in Seq(Backend) /\ Len(servers) \in Nat /\ current \in Nat \cup {-1}
    BY DEF ServerPoolTypeOK
  <1>2. servers' = Append(servers, b) /\ current' = current
    BY DEF AddServer
  <1>3. /\ Len(servers') = Len(servers) + 1
        /\ \A i \in DOMAIN servers : servers'[i] = servers[i]
        /\ servers'[Len(servers) + 1] = b
        /\ DOMAIN servers' = 1 .. Len(servers) + 1
    BY <1>1, <1>2
  <1>4. IncrementCurrent(current)' = IF current + 1 >= Len(servers) + 1 THEN 0 ELSE current + 1
    BY <1>2, <1>3 DEF IncrementCurrent
  <1>5. \A i \in 1 .. Len(servers) : Distance(i)' <= Distance(i) + 1
    BY <1>1, <1>3, <1>4 DEF Distance, IncrementCurrent
  <1>6. \A i \in 1 .. Len(servers) + 1 : Distance(i)' \in 1 .. Len(servers) + 1
    BY <1>1, <1>3, <1>4 DEF Distance
  <1>7. DOMAIN servers = 1 .. Len(servers)
    BY <1>1
  <1> QED BY <1>2, <1>3, <1>5, <1>6, <1>7

-----------------------------------------------------------------------------
(* Types                                                                   *)

(* The pool and its clients start well typed.                              *)
LEMMA InitTypeOK == Init => TypeOK
  <1> SUFFICES ASSUME Init PROVE TypeOK
    OBVIOUS
  <1> USE BackendsAssumption, ServerPoolAssumption
  <1>1. alive = [b \in Backend |-> b \in BootBackends /\ up[b]]
    BY DEF Init, BackendsInit
  <1>2. alive \in [Backend -> BOOLEAN]
    BY <1>1, Zenon
  <1>3. BackendsTypeOK
    BY <1>2 DEF Init, BackendsInit, BackendsTypeOK
  <1>4. ServerPoolTypeOK
    BY DEF Init, ServerPoolInit, ServerPoolTypeOK, Idle
  <1> QED BY <1>3, <1>4 DEF Init, TypeOK

(* Whatever is done with the pool keeps it well typed.                     *)
LEMMA NextTypeOK ==
    ASSUME TypeOK, [Next]_vars
    PROVE  TypeOK'
  <1>0. /\ BackendsTypeOK /\ ServerPoolTypeOK
        /\ steady \subseteq Backend /\ skipped \in [Backend -> Nat]
    BY DEF TypeOK
  <1>1. ASSUME NEW p \in Chooser, Begin(p) \/ Skip(p) \/ Choose(p) \/ Refuse(p)
        PROVE  TypeOK'
    <2>1. ServerPoolTypeOK'
      BY <1>0, <1>1, GetNextPeerType DEF Begin, Skip, Choose, Refuse
    <2>2. BackendsTypeOK'
      BY <1>0, <1>1 DEF Begin, Skip, Choose, Refuse, BackendsTypeOK, backendVars
    <2>3. steady' \subseteq Backend
      BY <1>0, <1>1 DEF Begin, Skip, Choose, Refuse, AliveInPool, Pool, ServerPoolTypeOK
    <2>4. skipped' \in [Backend -> Nat]
      BY <1>0, <1>1 DEF Begin, Skip, Choose, Refuse
    <2> QED BY <2>1, <2>2, <2>3, <2>4 DEF TypeOK
  <1>2. ASSUME NEW b \in Backend, NEW v \in BOOLEAN, Flag(b, v)
        PROVE  TypeOK'
    <2>1. BackendsTypeOK'
      BY <1>0, <1>2, BackendStepType DEF Flag
    <2>2. ServerPoolTypeOK'
      BY <1>0, <1>2 DEF Flag, ServerPoolTypeOK, serverPoolVars
    <2>3. steady' \subseteq Backend /\ skipped' \in [Backend -> Nat]
      <3>1. CASE v
        BY <1>0, <1>2, <3>1 DEF Flag
      <3>2. CASE ~v
        BY <1>0, <1>2, <3>2 DEF Flag
      <3> QED BY <3>1, <3>2
    <2> QED BY <2>1, <2>2, <2>3 DEF TypeOK
  <1>3. ASSUME NEW b \in Backend, NEW u \in Url, Add(b, u)
        PROVE  TypeOK'
    <2>1. BackendsTypeOK'
      BY <1>0, <1>3, BackendStepType DEF Add
    <2>2. ServerPoolTypeOK'
      BY <1>0, <1>3, AddServerType DEF Add
    <2> QED BY <1>0, <1>3, <2>1, <2>2 DEF TypeOK, Add
  <1>4. ASSUME NEW u \in Url, Remove(u)
        PROVE  TypeOK'
    <2>1. BackendsTypeOK'
      BY <1>0, <1>4 DEF Remove, BackendsTypeOK, backendVars
    <2>2. ServerPoolTypeOK'
      BY <1>0, <1>4, RemoveServerType DEF Remove
    <2> QED BY <1>0, <1>4, <2>1, <2>2 DEF TypeOK, Remove
  <1>5. CASE UNCHANGED vars
    BY <1>0, <1>5 DEF TypeOK, vars, backendVars, serverPoolVars, BackendsTypeOK, ServerPoolTypeOK
  <1> QED BY <1>1, <1>2, <1>3, <1>4, <1>5 DEF Next

-----------------------------------------------------------------------------
(* Nobody is starved                                                       *)

(* Passing over the candidate, who is down, brings everybody else nearer.  *)
LEMMA SkipFair ==
    ASSUME TypeOK, FairInv, NEW p \in Chooser, Skip(p)
    PROVE  FairInv'
  <1>1. /\ ServerPoolTypeOK /\ UNCHANGED <<servers, alive, url, skipped>>
        /\ current' = IncrementCurrent(current)
    BY DEF TypeOK, Skip, SkipPeer, backendVars
  <1>2. UNCHANGED <<Pool, AliveInPool, Allocated>>
    BY <1>1 DEF Pool, AliveInPool, Allocated
  <1>3. ASSUME NEW i \in DOMAIN servers, alive[servers[i]]
        PROVE  skipped[servers[i]] + Distance(i)' <= Len(servers)
    <2>1. i # IncrementCurrent(current) + 1
      BY <1>3 DEF Skip, SkipPeer, NextCandidate
    <2>2. Distance(i)' = Distance(i) - 1 /\ Distance(i) \in 1 .. Len(servers)
      BY <1>1, <2>1, DistanceAdvances, DistanceInRound
    <2>3. servers[i] \in Backend /\ skipped[servers[i]] \in Nat /\ Len(servers) \in Nat
      BY <1>1 DEF TypeOK, ServerPoolTypeOK
    <2> QED BY <1>3, <2>2, <2>3 DEF FairInv, RoundRobinFair
  <1>4. RoundRobinFair'
    BY <1>1, <1>3 DEF RoundRobinFair
  <1> QED BY <1>1, <1>2, <1>4 DEF FairInv

(* A choice starts the chosen one's round anew; everybody else who is      *)
(* alive has been passed over once more and is one place nearer.           *)
LEMMA ChooseFair ==
    ASSUME TypeOK, FairInv, NEW p \in Chooser, Choose(p)
    PROVE  FairInv'
  <1>1. /\ ServerPoolTypeOK /\ UNCHANGED <<servers, alive, url>>
        /\ current' = IncrementCurrent(current)
        /\ servers \in Seq(Backend) /\ Len(servers) \in Nat /\ skipped \in [Backend -> Nat]
    BY DEF TypeOK, Choose, ReturnPeer, backendVars, ServerPoolTypeOK
  <1>2. UNCHANGED <<Pool, AliveInPool, Allocated>>
    BY <1>1 DEF Pool, AliveInPool, Allocated
  <1>3. \A b \in Backend : skipped'[b] =
            IF b \in AliveInPool \ {NextCandidate} THEN skipped[b] + 1 ELSE 0
    BY DEF Choose
  <1>4. ASSUME NEW i \in DOMAIN servers, alive[servers[i]]
        PROVE  skipped'[servers[i]] + Distance(i)' <= Len(servers)
    <2>1. servers[i] \in Backend /\ servers[i] \in AliveInPool /\ skipped[servers[i]] \in Nat
      BY <1>1, <1>4 DEF AliveInPool, Pool
    <2>2. CASE servers[i] = NextCandidate
      <3>1. skipped'[servers[i]] = 0
        BY <1>3, <2>1, <2>2
      <3> QED BY <1>1, <3>1, DistanceStays
    <2>3. CASE servers[i] # NextCandidate
      <3>1. i # IncrementCurrent(current) + 1
        BY <2>3 DEF NextCandidate
      <3>2. Distance(i)' = Distance(i) - 1 /\ Distance(i) \in 1 .. Len(servers)
        BY <1>1, <3>1, DistanceAdvances, DistanceInRound
      <3>3. skipped'[servers[i]] = skipped[servers[i]] + 1
        BY <1>3, <2>1, <2>3
      <3> QED BY <1>1, <1>4, <2>1, <3>2, <3>3 DEF FairInv, RoundRobinFair
    <2> QED BY <2>2, <2>3
  <1>5. RoundRobinFair'
    BY <1>1, <1>4 DEF RoundRobinFair
  <1>6. \A b \in Backend \ AliveInPool : skipped'[b] = 0
    BY <1>3
  <1> QED BY <1>1, <1>2, <1>5, <1>6 DEF FairInv

(* Who comes up is owed nothing yet, and who goes down nothing any more.   *)
LEMMA FlagFair ==
    ASSUME TypeOK, FairInv, NEW b \in Backend, NEW v \in BOOLEAN, Flag(b, v)
    PROVE  FairInv'
  <1>1. /\ ServerPoolTypeOK /\ UNCHANGED <<servers, current, url>>
        /\ servers \in Seq(Backend) /\ Len(servers) \in Nat /\ skipped \in [Backend -> Nat]
        /\ alive \in [Backend -> BOOLEAN] /\ alive' = [alive EXCEPT ![b] = v]
    BY DEF TypeOK, Flag, SetAlive, serverPoolVars, ServerPoolTypeOK, BackendsTypeOK
  <1>2. UNCHANGED <<Pool, Allocated>>
    BY <1>1 DEF Pool, Allocated
  <1>3. skipped' = IF v THEN skipped ELSE [skipped EXCEPT ![b] = 0]
    BY DEF Flag
  <1>4. ASSUME NEW c \in Backend, c \notin AliveInPool'
        PROVE  skipped'[c] = 0
    <2>1. CASE c = b /\ ~v
      BY <1>1, <1>3, <2>1
    <2>2. CASE ~(c = b /\ ~v)
      <3>1. c \notin AliveInPool
        BY <1>1, <1>2, <1>4, <2>2 DEF AliveInPool
      <3>2. skipped[c] = 0
        BY <3>1 DEF FairInv
      <3> QED BY <1>1, <1>3, <2>2, <3>2
    <2> QED BY <2>1, <2>2
  <1>5. \A i \in DOMAIN servers : Distance(i)' = Distance(i)
    BY <1>1 DEF Distance, IncrementCurrent
  <1>6. ASSUME NEW i \in DOMAIN servers, alive'[servers[i]]
        PROVE  skipped'[servers[i]] + Distance(i) <= Len(servers)
    <2>1. servers[i] \in Backend /\ Distance(i) \in 1 .. Len(servers)
      BY <1>1, DistanceInRound
    <2>2. CASE alive[servers[i]]
      <3>1. skipped'[servers[i]] = skipped[servers[i]]
        BY <1>1, <1>3, <1>6, <2>1
      <3> QED BY <2>2, <3>1 DEF FairInv, RoundRobinFair
    <2>3. CASE ~alive[servers[i]]
      <3>1. skipped[servers[i]] = 0
        BY <2>1, <2>3 DEF FairInv, AliveInPool
      <3>2. skipped'[servers[i]] = 0
        BY <1>1, <1>3, <2>1, <3>1
      <3> QED BY <1>1, <2>1, <3>2
    <2> QED BY <2>2, <2>3
  <1>7. RoundRobinFair'
    BY <1>1, <1>5, <1>6 DEF RoundRobinFair
  <1> QED BY <1>2, <1>4, <1>7 DEF FairInv

(* An added server is owed nothing, and makes everybody's round longer by  *)
(* no more than its own place.                                             *)
LEMMA AddFair ==
    ASSUME TypeOK, FairInv, NEW b \in Backend, NEW u \in Url, Add(b, u)
    PROVE  FairInv'
  <1>1. /\ ServerPoolTypeOK /\ UNCHANGED <<alive, skipped>>
        /\ servers \in Seq(Backend) /\ Len(servers) \in Nat /\ skipped \in [Backend -> Nat]
        /\ DOMAIN servers = 1 .. Len(servers)
    BY DEF TypeOK, Add, NewBackend, ServerPoolTypeOK
  <1>2. b \notin Allocated /\ Allocated' = Allocated \cup {b}
    BY BackendsAssumption DEF TypeOK, Add, NewBackend, BackendsTypeOK, Allocated
  <1>0. AddServer(b)
    BY DEF Add
  <1>3. /\ Len(servers') = Len(servers) + 1
        /\ servers'[Len(servers) + 1] = b
        /\ DOMAIN servers' = 1 .. Len(servers) + 1
    BY <1>0, <1>1, DistanceOfAdded
  <1>9. ASSUME NEW i \in 1 .. Len(servers) + 1
        PROVE  Distance(i)' \in 1 .. Len(servers) + 1
    BY <1>0, <1>1, DistanceOfAdded
  <1>10. ASSUME NEW i \in 1 .. Len(servers)
         PROVE  Distance(i)' <= Distance(i) + 1 /\ servers'[i] = servers[i]
    <2>1. i \in DOMAIN servers
      BY <1>1
    <2> QED BY <1>0, <1>1, <2>1, DistanceOfAdded
  <1>4. Pool' = Pool \cup {b}
    BY <1>1, <1>3, <1>10 DEF Pool
  <1>5. skipped[b] = 0
    BY <1>2 DEF FairInv, AliveInPool
  <1>6. ASSUME NEW i \in 1 .. Len(servers) + 1, alive[servers'[i]]
        PROVE  skipped[servers'[i]] + Distance(i)' <= Len(servers) + 1
    <2>1. CASE i = Len(servers) + 1
      BY <1>1, <1>3, <1>5, <1>9, <2>1
    <2>2. CASE i # Len(servers) + 1
      <3>1. i \in 1 .. Len(servers) /\ i \in DOMAIN servers
        BY <1>1, <2>2
      <3>2. servers[i] \in Backend /\ skipped[servers[i]] \in Nat
        BY <1>1, <3>1
      <3>3. Distance(i) \in 1 .. Len(servers)
        BY <1>1, <3>1, DistanceInRound
      <3>4. Distance(i)' \in 1 .. Len(servers) + 1
        BY <1>9
      <3>5. Distance(i)' <= Distance(i) + 1 /\ servers'[i] = servers[i]
        BY <1>10, <3>1
      <3>6. skipped[servers[i]] + Distance(i) <= Len(servers)
        BY <1>6, <3>1, <3>5 DEF FairInv, RoundRobinFair
      <3> QED BY <1>1, <3>2, <3>3, <3>4, <3>5, <3>6
    <2> QED BY <2>1, <2>2
  <1>7. RoundRobinFair'
    BY <1>1, <1>3, <1>6 DEF RoundRobinFair
  <1>8. \A c \in Backend \ AliveInPool' : skipped'[c] = 0
    BY <1>1, <1>4 DEF FairInv, AliveInPool
  <1> QED BY <1>2, <1>4, <1>7, <1>8 DEF FairInv

(* A removal lets everybody start anew, wherever it leaves the pointer.    *)
LEMMA RemoveFair ==
    ASSUME TypeOK, FairInv, NEW u \in Url, Remove(u)
    PROVE  FairInv'
  <1>1. ServerPoolTypeOK /\ ServerPoolTypeOK' /\ UNCHANGED <<url, alive>>
    BY RemoveServerType DEF TypeOK, Remove, backendVars
  <1>2. \A b \in Backend : skipped'[b] = 0
    BY DEF Remove
  <1>3. ASSUME NEW i \in DOMAIN servers'
        PROVE  servers'[i] \in Backend /\ Distance(i)' \in 1 .. Len(servers)'
    <2>1. i \in 1 .. Len(servers)' /\ Len(servers)' \in Nat /\ current' \in Nat \cup {-1}
      BY <1>1 DEF ServerPoolTypeOK
    <2>2. servers'[i] \in Backend
      BY <1>1 DEF ServerPoolTypeOK
    <2> QED BY <2>1, <2>2 DEF Distance, IncrementCurrent
  <1>4. RoundRobinFair'
    BY <1>2, <1>3 DEF RoundRobinFair
  <1>5. Pool' \subseteq Pool
    <2>1. CASE UNCHANGED servers
      BY <2>1 DEF Pool
    <2>2. ASSUME NEW k \in DOMAIN servers, servers' = Without(servers, k)
          PROVE  Pool' \subseteq Pool
      <3>1. servers \in Seq(Backend) /\ k \in 1 .. Len(servers)
        BY <1>1 DEF ServerPoolTypeOK
      <3>2. \A i \in DOMAIN servers' : \E j \in DOMAIN servers : servers'[i] = servers[j]
        BY <2>2, <3>1, WithoutElements
      <3> QED BY <3>2 DEF Pool
    <2> QED BY <2>1, <2>2 DEF Remove, RemoveServerByUrl
  <1>6. Allocated' = Allocated
    BY <1>1 DEF Allocated
  <1> QED BY <1>2, <1>4, <1>5, <1>6 DEF FairInv

(* Whatever is done with the pool, nobody in it is owed more than a round. *)
LEMMA FairKept ==
    ASSUME TypeOK, FairInv, [Next]_vars
    PROVE  FairInv'
  <1>1. ASSUME NEW p \in Chooser, Begin(p) \/ Refuse(p)
        PROVE  FairInv'
    BY <1>1 DEF Begin, Refuse, Lock, ReturnNoPeer, backendVars, FairInv, RoundRobinFair,
                Distance, IncrementCurrent, AliveInPool, Pool, Allocated
  <1>2. CASE UNCHANGED vars
    BY <1>2 DEF vars, backendVars, serverPoolVars, FairInv, RoundRobinFair,
                Distance, IncrementCurrent, AliveInPool, Pool, Allocated
  <1> QED BY <1>1, <1>2, SkipFair, ChooseFair, FlagFair, AddFair, RemoveFair DEF Next

-----------------------------------------------------------------------------
(* Nobody is overlooked                                                    *)

(* A scan begins with a whole round before it.                             *)
LEMMA BeginScan ==
    ASSUME TypeOK, ScanInv, NEW p \in Chooser, Begin(p)
    PROVE  ScanInv'
  <1>1. /\ ServerPoolTypeOK /\ UNCHANGED <<servers, current, alive>>
        /\ scanned' = 0 /\ steady' = AliveInPool
    BY DEF TypeOK, Begin, Lock, backendVars
  <1>2. \A b \in steady' : alive'[b] /\ b \in Pool'
    BY <1>1 DEF AliveInPool, Pool
  <1>3. ASSUME NEW i \in DOMAIN servers
        PROVE  0 + Distance(i)' <= Len(servers)
    <2>1. Distance(i)' = Distance(i)
      BY <1>1 DEF Distance, IncrementCurrent
    <2>2. Distance(i) \in 1 .. Len(servers)
      BY <1>1, DistanceInRound
    <2> QED BY <2>1, <2>2
  <1> QED BY <1>1, <1>2, <1>3 DEF ScanInv

(* Who is passed over is down, so a server that has been alive all along   *)
(* is still ahead, and one place nearer.                                   *)
LEMMA SkipScan ==
    ASSUME TypeOK, ScanInv, NEW p \in Chooser, Skip(p)
    PROVE  ScanInv'
  <1>1. /\ ServerPoolTypeOK /\ UNCHANGED <<servers, alive, steady, mux>>
        /\ current' = IncrementCurrent(current) /\ scanned' = scanned + 1
        /\ ~alive[NextCandidate]
        /\ scanned \in Nat /\ Len(servers) \in Nat
    BY DEF TypeOK, Skip, SkipPeer, backendVars, ServerPoolTypeOK
  <1>2. UNCHANGED Pool
    BY <1>1 DEF Pool
  <1>3. ASSUME NEW i \in DOMAIN servers, servers[i] \in steady, mux # Nobody
        PROVE  scanned' + Distance(i)' <= Len(servers)
    <2>1. alive[servers[i]] /\ scanned + Distance(i) <= Len(servers)
      BY <1>3 DEF ScanInv
    <2>2. i # IncrementCurrent(current) + 1
      BY <1>1, <2>1 DEF NextCandidate
    <2>3. Distance(i)' = Distance(i) - 1 /\ Distance(i) \in 1 .. Len(servers)
      BY <1>1, <2>2, DistanceAdvances, DistanceInRound
    <2> QED BY <1>1, <2>1, <2>3
  <1> QED BY <1>1, <1>2, <1>3 DEF ScanInv

(* A server that goes down during the scan is no longer promised anything. *)
LEMMA FlagScan ==
    ASSUME TypeOK, ScanInv, NEW b \in Backend, NEW v \in BOOLEAN, Flag(b, v)
    PROVE  ScanInv'
  <1>1. /\ UNCHANGED <<servers, current, mux, scanned>>
        /\ alive \in [Backend -> BOOLEAN] /\ alive' = [alive EXCEPT ![b] = v]
        /\ steady' = IF v THEN steady ELSE steady \ {b}
        /\ steady \subseteq Backend
    BY DEF TypeOK, Flag, SetAlive, serverPoolVars, BackendsTypeOK
  <1>2. UNCHANGED Pool /\ \A i \in DOMAIN servers : Distance(i)' = Distance(i)
    BY <1>1 DEF Pool, Distance, IncrementCurrent
  <1>3. \A c \in steady' : c \in steady /\ alive'[c]
    BY <1>1 DEF ScanInv
  <1> QED BY <1>1, <1>2, <1>3 DEF ScanInv

(* What is done with the pool keeps the promise of the running scan:       *)
(* additions and removals wait for the mutex, so no scan is running then.  *)
LEMMA ScanKept ==
    ASSUME TypeOK, ScanInv, [Next]_vars
    PROVE  ScanInv'
  <1>1. ASSUME NEW p \in Chooser, Choose(p) \/ Refuse(p)
        PROVE  ScanInv'
    BY <1>1 DEF Choose, Refuse, ReturnPeer, ReturnNoPeer, backendVars, ScanInv
  <1>2. ASSUME NEW b \in Backend, NEW u \in Url, Add(b, u)
        PROVE  ScanInv'
    BY <1>2 DEF Add, NewBackend, AddServer, ScanInv
  <1>3. ASSUME NEW u \in Url, Remove(u)
        PROVE  ScanInv'
    BY <1>3 DEF Remove, RemoveServerByUrl, backendVars, ScanInv
  <1>4. CASE UNCHANGED vars
    BY <1>4 DEF vars, backendVars, serverPoolVars, ScanInv, Distance, IncrementCurrent, Pool
  <1> QED BY <1>1, <1>2, <1>3, <1>4, BeginScan, SkipScan, FlagScan DEF Next

-----------------------------------------------------------------------------
(* The theorems                                                            *)

(* At first nobody has been passed over and no scan is running.            *)
LEMMA InitIInv == Init => IInv
  <1> SUFFICES ASSUME Init PROVE IInv
    OBVIOUS
  <1>1. TypeOK
    BY InitTypeOK
  <1>2. ServerPoolTypeOK /\ servers = Boot /\ servers \in Seq(Backend) /\ Len(servers) \in Nat
    BY <1>1 DEF TypeOK, ServerPoolTypeOK, Init, ServerPoolInit
  <1>3. \A b \in Backend : skipped[b] = 0
    BY DEF Init
  <1>4. RoundRobinFair
    <2>1. ASSUME NEW i \in DOMAIN servers
          PROVE  servers[i] \in Backend /\ Distance(i) \in 1 .. Len(servers)
      BY <1>2, DistanceInRound
    <2> QED BY <1>2, <1>3, <2>1 DEF RoundRobinFair
  <1>5. Pool \subseteq Allocated
    BY <1>2, BackendsAssumption DEF Init, BackendsInit, Pool, Allocated, BootBackends
  <1>6. ScanInv
    BY DEF Init, ServerPoolInit, ScanInv
  <1> QED BY <1>1, <1>3, <1>4, <1>5, <1>6 DEF IInv, FairInv

(* Every step of the pool and its clients keeps the invariant.             *)
LEMMA NextIInv == IInv /\ [Next]_vars => IInv'
  BY NextTypeOK, FairKept, ScanKept DEF IInv

(* The inductive invariant holds in every run of the pool.                 *)
THEOREM Invariance == Spec => []IInv
  BY InitIInv, NextIInv, PTL DEF Spec

(* No server of the pool that stays alive waits longer than one choice for *)
(* every place of the pool (GetNextPeer, IncrementCurrent).                *)
THEOREM NobodyStarved == Spec => []RoundRobinFair
  <1>1. IInv => RoundRobinFair
    BY DEF IInv, FairInv
  <1> QED BY Invariance, <1>1, PTL

(* "All backends are turned down" is never reported while some server has  *)
(* been alive during the whole scan (GetNextPeer).                         *)
THEOREM NobodyOverlooked == Spec => []NoFalseRefusal
  <1>1. IInv => NoFalseRefusal
    <2> SUFFICES ASSUME IInv, mux # Nobody, ~MoreToScan, NEW b \in steady
                 PROVE  FALSE
      BY DEF NoFalseRefusal
    <2>1. ServerPoolTypeOK /\ scanned \in Nat /\ Len(servers) \in Nat /\ scanned >= Len(servers)
      BY DEF IInv, TypeOK, ServerPoolTypeOK, MoreToScan
    <2>2. PICK i \in DOMAIN servers : servers[i] = b
      BY DEF IInv, ScanInv, Pool
    <2>3. Distance(i) \in 1 .. Len(servers)
      BY <2>1, DistanceInRound
    <2>4. scanned + Distance(i) <= Len(servers)
      BY <2>2 DEF IInv, ScanInv
    <2> QED BY <2>1, <2>3, <2>4
  <1> QED BY Invariance, <1>1, PTL
=============================================================================

-------------------------- MODULE ServerPoolProofs --------------------------
(***************************************************************************)
(* What each operation of the pool keeps, proved once for every caller.    *)
(***************************************************************************)
EXTENDS ServerPool, TLAPS

(* Replacing one element of a sequence gives a sequence of the same set.   *)
LEMMA SeqExceptType ==
    ASSUME NEW S, NEW s \in Seq(S), NEW k \in 1 .. Len(s), NEW x \in S
    PROVE  [s EXCEPT ![k] = x] \in Seq(S)
  OBVIOUS

(* A sequence of places filled one by one from a set is a sequence of it.  *)
LEMMA SeqMapType ==
    ASSUME NEW S, NEW n \in Nat, NEW f, f \in [1 .. n -> S]
    PROVE  f \in Seq(S)
  OBVIOUS

(* Removing an element makes a sequence shorter by one.                    *)
LEMMA WithoutLen ==
    ASSUME NEW S, NEW s \in Seq(S), NEW k \in 1 .. Len(s)
    PROVE  Len(Without(s, k)) = Len(s) - 1
  <1>1. /\ SubSeq(s, 1, k - 1) \in Seq(S) /\ Len(SubSeq(s, 1, k - 1)) = k - 1
        /\ SubSeq(s, k + 1, Len(s)) \in Seq(S) /\ Len(SubSeq(s, k + 1, Len(s))) = Len(s) - k
    OBVIOUS
  <1>2. ASSUME NEW t \in Seq(S), NEW u \in Seq(S)
        PROVE  Len(t \o u) = Len(t) + Len(u)
    OBVIOUS
  <1>3. Len(Without(s, k)) = (k - 1) + (Len(s) - k)
    BY <1>1, <1>2 DEF Without
  <1> QED BY <1>3

(* What is left are elements that were there.                              *)
LEMMA WithoutElements ==
    ASSUME NEW S, NEW s \in Seq(S), NEW k \in 1 .. Len(s)
    PROVE  \A i \in DOMAIN Without(s, k) : \E j \in DOMAIN s : Without(s, k)[i] = s[j]
  <1> DEFINE t == SubSeq(s, 1, k - 1)
             u == SubSeq(s, k + 1, Len(s))
  <1>1. /\ t \in Seq(S) /\ Len(t) = k - 1 /\ \A i \in 1 .. k - 1 : t[i] = s[i]
        /\ u \in Seq(S) /\ Len(u) = Len(s) - k /\ \A i \in 1 .. Len(s) - k : u[i] = s[k + i]
    OBVIOUS
  <1> HIDE DEF t, u
  <1>2. \A i \in DOMAIN (t \o u) :
           (t \o u)[i] = IF i <= Len(t) THEN t[i] ELSE u[i - Len(t)]
    BY <1>1
  <1>3. DOMAIN (t \o u) = 1 .. Len(s) - 1
    BY <1>1
  <1>4. ASSUME NEW i \in 1 .. Len(s) - 1
        PROVE  \E j \in 1 .. Len(s) : (t \o u)[i] = s[j]
    <2>1. CASE i <= k - 1
      BY <1>1, <1>2, <1>3, <2>1
    <2>2. CASE i > k - 1
      <3>1. i + 1 \in 1 .. Len(s) /\ i - (k - 1) \in 1 .. Len(s) - k /\ k + (i - (k - 1)) = i + 1
        BY <2>2
      <3>2. u[i - (k - 1)] = s[i + 1]
        BY <1>1, <3>1
      <3>3. (t \o u)[i] = u[i - (k - 1)]
        BY <1>1, <1>2, <1>3, <2>2
      <3>4. (t \o u)[i] = s[i + 1]
        BY <3>2, <3>3
      <3> WITNESS i + 1 \in 1 .. Len(s)
      <3> QED BY <3>4
    <2>3. i <= k - 1 \/ i > k - 1
      OBVIOUS
    <2> QED BY <2>1, <2>2, <2>3, Zenon
  <1>5. Without(s, k) = t \o u /\ DOMAIN s = 1 .. Len(s)
    BY DEF Without, t, u
  <1> QED BY <1>3, <1>4, <1>5

(* IncrementCurrent stays inside a pool that is not empty, wherever the    *)
(* pointer was: at -1, in the pool, or behind the end of a pool that has   *)
(* shrunk.                                                                 *)
LEMMA IncrementInPool ==
    ASSUME ServerPoolTypeOK, Len(servers) > 0
    PROVE  /\ IncrementCurrent(current) \in 0 .. Len(servers) - 1
           /\ NextCandidate \in Backend
  <1>1. IncrementCurrent(current) \in 0 .. Len(servers) - 1
    BY DEF ServerPoolTypeOK, IncrementCurrent
  <1>2. NextCandidate \in Backend
    BY <1>1 DEF NextCandidate, ServerPoolTypeOK
  <1> QED BY <1>1, <1>2

(* The steps of GetNextPeer keep the pool well typed.                      *)
LEMMA GetNextPeerType ==
    ASSUME ServerPoolTypeOK, NEW p \in Chooser,
           Lock(p) \/ SkipPeer(p) \/ ReturnPeer(p) \/ ReturnNoPeer(p)
    PROVE  ServerPoolTypeOK'
  <1>1. CASE Lock(p)
    BY <1>1 DEF ServerPoolTypeOK, Lock
  <1>2. CASE SkipPeer(p)
    <2>1. IncrementCurrent(current) \in Nat
      BY DEF ServerPoolTypeOK, IncrementCurrent
    <2> QED BY <1>2, <2>1 DEF ServerPoolTypeOK, SkipPeer
  <1>3. CASE ReturnPeer(p)
    <2>1. IncrementCurrent(current) \in Nat
      BY DEF ServerPoolTypeOK, IncrementCurrent
    <2> QED BY <1>3, <2>1 DEF ServerPoolTypeOK, ReturnPeer
  <1>4. CASE ReturnNoPeer(p)
    BY <1>4 DEF ServerPoolTypeOK, ReturnNoPeer
  <1> QED BY <1>1, <1>2, <1>3, <1>4

(* append keeps the pool, and every reader's view of it, well typed.       *)
LEMMA AddServerType ==
    ASSUME ServerPoolTypeOK, NEW b \in Backend, AddServer(b)
    PROVE  ServerPoolTypeOK'
  <1> DEFINE n == Len(servers)
  <1>1. servers' \in Seq(Backend) /\ UNCHANGED <<current, mux, scanned>>
    BY DEF ServerPoolTypeOK, AddServer
  <1>2. CASE n < sliceCap
    <2> DEFINE Seen(i) == IF range[i].shared /\ Len(range[i].view) > n
                          THEN [range[i] EXCEPT !.view[n + 1] = b] ELSE range[i]
    <2>1. range' = [i \in Reader |-> Seen(i)] /\ sliceCap' = sliceCap
      BY <1>2 DEF AddServer
    <2>2. ASSUME NEW i \in Reader
          PROVE  Seen(i) \in [view : Seq(Backend), pos : Nat, shared : BOOLEAN]
      <3>1. range[i] \in [view : Seq(Backend), pos : Nat, shared : BOOLEAN]
        BY DEF ServerPoolTypeOK
      <3>2. ASSUME Len(range[i].view) > n
            PROVE  [range[i].view EXCEPT ![n + 1] = b] \in Seq(Backend)
        BY <3>1, <3>2, SeqExceptType DEF ServerPoolTypeOK
      <3> HIDE DEF n
      <3> QED BY <3>1, <3>2
    <2> QED BY <1>1, <2>1, <2>2 DEF ServerPoolTypeOK
  <1>3. CASE ~(n < sliceCap)
    <2>1. /\ sliceCap' = IF sliceCap = 0 THEN 1 ELSE 2 * sliceCap
          /\ range' = [i \in Reader |-> [range[i] EXCEPT !.shared = FALSE]]
      BY <1>3 DEF AddServer
    <2>2. sliceCap' \in Nat
      BY <2>1 DEF ServerPoolTypeOK
    <2>3. range' \in [Reader -> [view : Seq(Backend), pos : Nat, shared : BOOLEAN]]
      BY <2>1 DEF ServerPoolTypeOK
    <2> QED BY <1>1, <2>2, <2>3 DEF ServerPoolTypeOK
  <1> QED BY <1>2, <1>3

(* Removing in place keeps the pool, and every reader's view, well typed.  *)
LEMMA RemoveServerType ==
    ASSUME ServerPoolTypeOK, NEW u, RemoveServerByUrl(u)
    PROVE  ServerPoolTypeOK'
  <1>1. CASE UNCHANGED <<servers, range>>
    BY <1>1 DEF ServerPoolTypeOK, RemoveServerByUrl
  <1>2. CASE ~UNCHANGED <<servers, range>>
    <2> DEFINE Moved(k) == [i \in Reader |->
                  IF range[i].shared
                  THEN [range[i] EXCEPT !.view = ShiftDown(@, k)] ELSE range[i]]
    <2>0. PICK k \in DOMAIN servers : servers' = Without(servers, k) /\ range' = Moved(k)
      BY <1>2 DEF RemoveServerByUrl
    <2> HIDE DEF Moved
    <2>1. servers \in Seq(Backend) /\ k \in 1 .. Len(servers)
      BY DEF ServerPoolTypeOK
    <2>2. servers' \in Seq(Backend)
      <3>1. SubSeq(servers, 1, k - 1) \in Seq(Backend)
        BY <2>1
      <3>2. SubSeq(servers, k + 1, Len(servers)) \in Seq(Backend)
        BY <2>1
      <3> QED BY <2>0, <3>1, <3>2 DEF Without
    <2>3. ASSUME NEW v \in Seq(Backend)
          PROVE  ShiftDown(v, k) \in Seq(Backend)
      <3>1. DOMAIN v = 1 .. Len(v) /\ Len(v) \in Nat
        OBVIOUS
      <3>2. ASSUME NEW i \in 1 .. Len(v)
            PROVE  (IF k <= i /\ i < Len(servers) THEN servers[i + 1] ELSE v[i]) \in Backend
        BY <2>1
      <3>3. ShiftDown(v, k) \in [1 .. Len(v) -> Backend]
        BY <3>1, <3>2 DEF ShiftDown
      <3> QED BY <3>1, <3>3, SeqMapType
    <2>4. range' \in [Reader -> [view : Seq(Backend), pos : Nat, shared : BOOLEAN]]
      <3> DEFINE View == [view : Seq(Backend), pos : Nat, shared : BOOLEAN]
                 Moves(i) == IF range[i].shared
                             THEN [range[i] EXCEPT !.view = ShiftDown(@, k)] ELSE range[i]
      <3>1. ASSUME NEW i \in Reader
            PROVE  Moves(i) \in View
        <4>1. range[i] \in View
          BY DEF ServerPoolTypeOK
        <4>2. ShiftDown(range[i].view, k) \in Seq(Backend)
          BY <4>1, <2>3
        <4>3. [range[i] EXCEPT !.view = ShiftDown(@, k)] \in View
          BY <4>1, <4>2
        <4> QED BY <4>1, <4>3
      <3>2. range' = [i \in Reader |-> Moves(i)]
        BY <2>0 DEF Moved
      <3> HIDE DEF Moves
      <3> QED BY <3>1, <3>2
    <2> QED BY <2>2, <2>4 DEF ServerPoolTypeOK, RemoveServerByUrl
  <1> QED BY <1>1, <1>2

(* The readers' own steps keep their views well typed.                     *)
LEMMA RangeType ==
    ASSUME ServerPoolTypeOK, NEW i \in Reader,
           RangeStart(i) \/ RangeNext(i) \/ RangeEnd(i)
    PROVE  ServerPoolTypeOK'
  <1> DEFINE View == [view : Seq(Backend), pos : Nat, shared : BOOLEAN]
  <1>1. range \in [Reader -> View] /\ UNCHANGED poolVars
    BY DEF ServerPoolTypeOK, RangeStart, RangeNext, RangeEnd
  <1>2. CASE RangeStart(i)
    <2>1. [view |-> servers, pos |-> 0, shared |-> TRUE] \in View
      BY DEF ServerPoolTypeOK
    <2>2. range' \in [Reader -> View]
      BY <1>1, <1>2, <2>1 DEF RangeStart
    <2> QED BY <1>1, <2>2 DEF ServerPoolTypeOK, poolVars
  <1>3. CASE RangeNext(i)
    <2>1. range[i] \in View
      BY <1>1
    <2>2. [range[i] EXCEPT !.pos = @ + 1] \in View
      BY <2>1
    <2>3. range' = [range EXCEPT ![i] = [range[i] EXCEPT !.pos = @ + 1]]
      BY <1>3 DEF RangeNext
    <2>4. range' \in [Reader -> View]
      BY <1>1, <2>2, <2>3
    <2> QED BY <1>1, <2>4 DEF ServerPoolTypeOK, poolVars
  <1>4. CASE RangeEnd(i)
    <2>1. Idle \in View
      BY DEF Idle
    <2>2. range' \in [Reader -> View]
      BY <1>1, <1>4, <2>1 DEF RangeEnd
    <2> QED BY <1>1, <2>2 DEF ServerPoolTypeOK, poolVars
  <1> QED BY <1>2, <1>3, <1>4

(* A reader takes servers only.                                            *)
LEMMA RangeElementType ==
    ASSUME ServerPoolTypeOK, NEW i \in Reader, MoreToRange(i)
    PROVE  RangeElement(i) \in Backend
  <1>1. range[i].view \in Seq(Backend) /\ range[i].pos \in Nat
    BY DEF ServerPoolTypeOK
  <1> QED BY <1>1 DEF MoreToRange, RangeElement

(* The operations on a backend keep the backends well typed.               *)
LEMMA BackendStepType ==
    ASSUME BackendsTypeOK, NEW b \in Backend,
           \/ AssignRequest(b)
           \/ Free(b) /\ UNCHANGED <<url, limit, alive, up>>
           \/ \E v \in BOOLEAN : SetAlive(b, v)
           \/ MachineChanges(b)
           \/ \E u \in Url, n \in Nat : NewBackend(b, u, n)
    PROVE  BackendsTypeOK'
  <1>1. CASE AssignRequest(b)
    BY <1>1 DEF BackendsTypeOK, AssignRequest
  <1>2. CASE Free(b) /\ UNCHANGED <<url, limit, alive, up>>
    <2>1. slots' \in [Backend -> Nat]
      BY <1>2 DEF BackendsTypeOK, Free
    <2> QED BY <1>2, <2>1 DEF BackendsTypeOK
  <1>3. CASE \E v \in BOOLEAN : SetAlive(b, v)
    BY <1>3 DEF BackendsTypeOK, SetAlive
  <1>4. CASE MachineChanges(b)
    <2>1. up' \in [Backend -> BOOLEAN]
      <3>1. up \in [Backend -> BOOLEAN] /\ up' = [up EXCEPT ![b] = ~@]
        BY <1>4 DEF BackendsTypeOK, MachineChanges
      <3> QED BY <3>1, Zenon
    <2> QED BY <1>4, <2>1 DEF BackendsTypeOK, MachineChanges, objectVars
  <1>5. CASE \E u \in Url, n \in Nat : NewBackend(b, u, n)
    BY <1>5 DEF BackendsTypeOK, NewBackend
  <1> QED BY <1>1, <1>2, <1>3, <1>4, <1>5
=============================================================================

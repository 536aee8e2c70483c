------------------------- MODULE LoadBalancerProofs -------------------------
(***************************************************************************)
(* Type correctness of the balancer, the accounting of the backends'       *)
(* slots, and that the balancer implements Admission.  The argument: the   *)
(* length of a channel equals the number of requests in pc = "sent" at     *)
(* that backend; only Assign brings one in and only the three ends of Do   *)
(* take one out, each together with the matching change of the channel.    *)
(***************************************************************************)
EXTENDS LoadBalancer, ServerPoolProofs, TotalsProofs, FiniteSetTheorems

(* The balancer starts well typed.                                         *)
LEMMA InitTypeOK == Init => TypeOK
  <1> SUFFICES ASSUME Init PROVE TypeOK
    OBVIOUS
  <1> USE BackendsAssumption, ServerPoolAssumption, DispatchAssumption,
          HealthCheckerAssumption, AdminHandlersAssumption
  <1>1. BackendsTypeOK
    <2>1. /\ url = [b \in Backend |-> IF b \in BootBackends THEN BootUrl[b] ELSE NoUrl]
          /\ limit = [b \in Backend |-> IF b \in BootBackends THEN BootLimit[b] ELSE 0]
          /\ slots = [b \in Backend |-> 0]
          /\ up \in [Backend -> BOOLEAN]
          /\ alive = [b \in Backend |-> b \in BootBackends /\ up[b]]
      BY DEF Init, BackendsInit
    <2>2. alive \in [Backend -> BOOLEAN]
      BY <2>1, Zenon
    <2>3. url \in [Backend -> Url \cup {NoUrl}]
      BY <2>1
    <2>4. limit \in [Backend -> Nat]
      BY <2>1
    <2> QED BY <2>1, <2>2, <2>3, <2>4 DEF BackendsTypeOK
  <1>2. ServerPoolTypeOK
    BY DEF Init, ServerPoolInit, ServerPoolTypeOK, Idle
  <1>3. DispatchTypeOK
    BY DEF Init, DispatchInit, DispatchTypeOK, RequestState
  <1>4. HealthCheckerTypeOK
    <2>1. crashed \in BOOLEAN
      BY Zenon DEF Init, HealthCheckerInit
    <2> QED BY <2>1 DEF Init, HealthCheckerInit, HealthCheckerTypeOK
  <1>5. AdminHandlersTypeOK
    <2>1. NoCall \in CallState
      <3>1. <<>> \in Seq(Backend)
        OBVIOUS
      <3> QED BY <3>1 DEF NoCall, CallState
    <2> QED BY <2>1 DEF Init, AdminHandlersInit, AdminHandlersTypeOK
  <1> QED BY <1>1, <1>2, <1>3, <1>4, <1>5 DEF TypeOK

Label == {"idle", "choose", "scan", "assign", "sent", "relay", "failed", "done"}

(* Moving a request to another label keeps it well typed.                  *)
LEMMA GotoType ==
    ASSUME DispatchTypeOK, NEW r \in Request, NEW label \in Label,
           Goto(r, label) \/ Drop(r, label)
    PROVE  DispatchTypeOK'
  <1>1. req \in [Request -> RequestState] /\ req[r] \in RequestState
    BY DEF DispatchTypeOK
  <1>2. CASE Goto(r, label)
    <2>1. [req[r] EXCEPT !.pc = label] \in RequestState
      BY <1>1 DEF RequestState, Label
    <2>2. req' = [req EXCEPT ![r] = [req[r] EXCEPT !.pc = label]]
      BY <1>2 DEF Goto
    <2> QED BY <1>1, <2>1, <2>2 DEF DispatchTypeOK
  <1>3. CASE Drop(r, label)
    <2>1. [req[r] EXCEPT !.pc = label, !.peer = Nobody] \in RequestState
      BY <1>1 DEF RequestState, Label
    <2>2. req' = [req EXCEPT ![r] = [req[r] EXCEPT !.pc = label, !.peer = Nobody]]
      BY <1>3 DEF Drop
    <2> QED BY <1>1, <2>1, <2>2 DEF DispatchTypeOK
  <1> QED BY <1>2, <1>3

(* A step of a request keeps every component well typed.                   *)
LEMMA DispatchStepType ==
    ASSUME TypeOK, PeerKnown, NEW r \in Request, RequestStep(r)
    PROVE  TypeOK'
  <1> USE DispatchAssumption DEF Request
  <1>0. /\ BackendsTypeOK /\ ServerPoolTypeOK /\ DispatchTypeOK
        /\ DispatchStep(r) /\ UNCHANGED <<hcVars, admVars>>
    BY DEF TypeOK, RequestStep
  <1>1. HealthCheckerTypeOK' /\ AdminHandlersTypeOK'
    BY <1>0 DEF TypeOK, HealthCheckerTypeOK, AdminHandlersTypeOK, hcVars, admVars
  <1>2. req[r] \in RequestState /\ req \in [Request -> RequestState]
    BY <1>0 DEF DispatchTypeOK
  <1>3. BackendsTypeOK' /\ ServerPoolTypeOK' /\ DispatchTypeOK'
    <2>1. CASE Arrive(r) \/ Relayed(r) \/ Leave(r)
      <3>1. DispatchTypeOK'
        <4>1. CASE Arrive(r) \/ Relayed(r)
          BY <1>0, <4>1, GotoType DEF Arrive, Relayed, Label
        <4>2. CASE Leave(r)
          <5>1. [req[r] EXCEPT !.gone = TRUE] \in RequestState
            BY <1>2 DEF RequestState
          <5>2. req' = [req EXCEPT ![r] = [req[r] EXCEPT !.gone = TRUE]]
            BY <4>2 DEF Leave
          <5> QED BY <1>2, <5>1, <5>2 DEF DispatchTypeOK
        <4> QED BY <2>1, <4>1, <4>2
      <3> QED BY <1>0, <2>1, <3>1 DEF Arrive, Relayed, Leave, BackendsTypeOK,
                 ServerPoolTypeOK, backendVars, serverPoolVars
    <2>2. CASE EnterGetNextPeer(r) \/ PassOver(r) \/ Refused(r)
      <3>1. DispatchTypeOK'
        BY <1>0, <2>2, GotoType DEF EnterGetNextPeer, PassOver, Refused, Label,
           DispatchTypeOK
      <3>2. ServerPoolTypeOK'
        BY <1>0, <2>2, GetNextPeerType DEF EnterGetNextPeer, PassOver, Refused
      <3> QED BY <1>0, <2>2, <3>1, <3>2 DEF EnterGetNextPeer, PassOver, Refused,
                 BackendsTypeOK, backendVars
    <2>3. CASE Chosen(r)
      <3>1. NextCandidate \in Backend
        BY <1>0, <2>3, IncrementInPool DEF Chosen, ReturnPeer, MoreToScan, ServerPoolTypeOK
      <3>2. DispatchTypeOK'
        <4>1. [req[r] EXCEPT !.pc = "assign", !.peer = NextCandidate] \in RequestState
          BY <1>2, <3>1 DEF RequestState
        <4>2. req' = [req EXCEPT ![r] =
                        [req[r] EXCEPT !.pc = "assign", !.peer = NextCandidate]]
          BY <2>3 DEF Chosen
        <4> QED BY <1>2, <4>1, <4>2 DEF DispatchTypeOK
      <3>3. ServerPoolTypeOK'
        BY <1>0, <2>3, GetNextPeerType DEF Chosen
      <3> QED BY <1>0, <2>3, <3>2, <3>3 DEF Chosen, BackendsTypeOK, backendVars
    <2>4. CASE Assign(r) \/ GiveUpSlot(r) \/ MarkDown(r)
      <3>1. DispatchTypeOK'
        BY <1>0, <2>4, GotoType DEF Assign, GiveUpSlot, MarkDown, Label
      <3>2. req[r].peer \in Backend
        BY <2>4 DEF PeerKnown, Assign, GiveUpSlot, MarkDown
      <3>3. BackendsTypeOK'
        <4>1. CASE GiveUpSlot(r)
          BY <1>0, <4>1 DEF GiveUpSlot, AssignTimeout, BackendsTypeOK, backendVars
        <4>2. CASE Assign(r) \/ MarkDown(r)
          BY <1>0, <3>2, <4>2, BackendStepType DEF Assign, MarkDown
        <4> QED BY <2>4, <4>1, <4>2
      <3> QED BY <1>0, <2>4, <3>1, <3>3 DEF Assign, GiveUpSlot, MarkDown,
                 ServerPoolTypeOK, serverPoolVars
    <2>5. CASE Answered(r) \/ Errored(r) \/ Cancelled(r)
      <3>1. DispatchTypeOK'
        <4>1. CASE Answered(r) \/ Cancelled(r)
          BY <1>0, <4>1, GotoType DEF Answered, Cancelled, Label
        <4>2. CASE Errored(r)
          <5> DEFINE body == IF req[r].body = "none" THEN "none" ELSE "spent"
          <5>1. [req[r] EXCEPT !.pc = "failed", !.body = body] \in RequestState
            BY <1>2 DEF RequestState
          <5>2. req' = [req EXCEPT ![r] = [req[r] EXCEPT !.pc = "failed", !.body = body]]
            BY <4>2 DEF Errored
          <5> QED BY <1>2, <5>1, <5>2 DEF DispatchTypeOK
        <4> QED BY <2>5, <4>1, <4>2
      <3>2. req[r].peer \in Backend
        BY <2>5 DEF PeerKnown, Answered, Errored, Cancelled
      <3>3. BackendsTypeOK'
        BY <1>0, <2>5, <3>2, BackendStepType DEF Answered, Errored, Cancelled, GiveBackSlot
      <3> QED BY <1>0, <2>5, <3>1, <3>3 DEF Answered, Errored, Cancelled, GiveBackSlot,
                 ServerPoolTypeOK, serverPoolVars
    <2> QED BY <1>0, <2>1, <2>2, <2>3, <2>4, <2>5 DEF DispatchStep
  <1> QED BY <1>1, <1>3 DEF TypeOK

(* A step of the checker or of one of its goroutines keeps every component *)
(* well typed.                                                             *)
LEMMA HealthStepType ==
    ASSUME TypeOK, HealthStep
    PROVE  TypeOK'
  <1> USE HealthCheckerAssumption
  <1>0. /\ BackendsTypeOK /\ ServerPoolTypeOK /\ HealthCheckerTypeOK
        /\ UNCHANGED <<req, admVars>>
    BY DEF TypeOK, HealthStep
  <1>1. DispatchTypeOK' /\ AdminHandlersTypeOK'
    BY <1>0 DEF TypeOK, DispatchTypeOK, AdminHandlersTypeOK, admVars
  <1>2. BackendsTypeOK' /\ ServerPoolTypeOK' /\ HealthCheckerTypeOK'
    <2>1. CASE Tick \/ ChecksCompleted
      <3>1. HealthCheckerTypeOK'
        <4>1. Len(servers) \in Nat
          BY <1>0 DEF ServerPoolTypeOK
        <4> QED BY <1>0, <2>1, <4>1 DEF Tick, ChecksCompleted, HealthCheckerTypeOK
      <3> QED BY <1>0, <2>1, <3>1 DEF Tick, ChecksCompleted, BackendsTypeOK,
                 ServerPoolTypeOK, backendVars, serverPoolVars
    <2>2. CASE StartChecks \/ AllSpawned
      <3>1. HealthCheckerTypeOK'
        BY <1>0, <2>2 DEF StartChecks, AllSpawned, HealthCheckerTypeOK
      <3>2. ServerPoolTypeOK'
        BY <1>0, <2>2, RangeType DEF StartChecks, AllSpawned
      <3> QED BY <1>0, <2>2, <3>1, <3>2 DEF StartChecks, AllSpawned,
                 BackendsTypeOK, backendVars
    <2>3. CASE Spawn
      <3>1. RangeElement(HC) \in Backend
        BY <1>0, <2>3, RangeElementType DEF Spawn, RangeNext
      <3>2. HealthCheckerTypeOK'
        BY <1>0, <2>3, <3>1 DEF Spawn, HealthCheckerTypeOK
      <3>3. ServerPoolTypeOK'
        BY <1>0, <2>3, RangeType DEF Spawn
      <3> QED BY <1>0, <2>3, <3>2, <3>3 DEF Spawn, BackendsTypeOK, backendVars
    <2>4. ASSUME NEW b \in Backend, Dial(b)
          PROVE  BackendsTypeOK' /\ ServerPoolTypeOK' /\ HealthCheckerTypeOK'
      <3>1. HealthCheckerTypeOK'
        BY <1>0, <2>4 DEF Dial, HealthCheckerTypeOK
      <3> QED BY <1>0, <2>4, <3>1 DEF Dial, BackendsTypeOK, ServerPoolTypeOK,
                 backendVars, serverPoolVars
    <2>5. ASSUME NEW b \in Backend, ReportUp(b) \/ ReportDown(b)
          PROVE  BackendsTypeOK' /\ ServerPoolTypeOK' /\ HealthCheckerTypeOK'
      <3>1. wg' \in Int
        <4>1. wg' = wg - 1
          BY <2>5, Zenon DEF ReportUp, ReportDown, Done
        <4> QED BY <1>0, <4>1 DEF HealthCheckerTypeOK
      <3>2. crashed' \in BOOLEAN
        <4>1. crashed' = (wg = 0)
          BY <2>5, Zenon DEF ReportUp, ReportDown, Done
        <4> QED BY <4>1, Zenon
      <3>4. passed' \in [Backend -> Nat] /\ failed' \in [Backend -> Nat]
        <4>1. CASE ReportUp(b)
          BY <1>0, <4>1 DEF ReportUp, HealthCheckerTypeOK
        <4>2. CASE ReportDown(b)
          BY <1>0, <4>2 DEF ReportDown, HealthCheckerTypeOK
        <4> QED BY <2>5, <4>1, <4>2
      <3>5. HealthCheckerTypeOK'
        BY <1>0, <2>5, <3>1, <3>2, <3>4 DEF ReportUp, ReportDown, HealthCheckerTypeOK
      <3>3. BackendsTypeOK'
        BY <1>0, <2>5, BackendStepType DEF ReportUp, ReportDown
      <3> QED BY <1>0, <2>5, <3>5, <3>3 DEF ReportUp, ReportDown,
                 ServerPoolTypeOK, serverPoolVars
    <2> QED BY <2>1, <2>2, <2>3, <2>4, <2>5 DEF HealthStep, Round, Check
  <1> QED BY <1>1, <1>2 DEF TypeOK

(* Replacing some fields of a call by well-typed ones keeps it well typed. *)
LEMMA CallUpdateType ==
    ASSUME AdminHandlersTypeOK, NEW a \in Admin, NEW c \in CallState,
           adm' = [adm EXCEPT ![a] = c]
    PROVE  AdminHandlersTypeOK'
  BY DEF AdminHandlersTypeOK

(* A call that ends is well typed.                                         *)
LEMMA FinishType ==
    ASSUME AdminHandlersTypeOK, NEW a \in Admin, Finish(a)
    PROVE  AdminHandlersTypeOK'
  <1>1. <<>> \in Seq(Backend)
    OBVIOUS
  <1>2. [NoCall EXCEPT !.pc = "done"] \in CallState
    BY <1>1 DEF NoCall, CallState
  <1>3. adm' = [adm EXCEPT ![a] = [NoCall EXCEPT !.pc = "done"]]
    BY DEF Finish
  <1> QED BY <1>2, <1>3, CallUpdateType

(* A step of an administrator's call keeps every component well typed.     *)
LEMMA CallStepType ==
    ASSUME TypeOK, CallsKnown, NEW a \in Admin, CallStep(a)
    PROVE  TypeOK'
  <1> USE AdminHandlersAssumption
  <1>0. /\ BackendsTypeOK /\ ServerPoolTypeOK /\ AdminHandlersTypeOK
        /\ AdminStep(a) /\ UNCHANGED <<req, hcVars>> /\ a \in Reader
    BY DEF TypeOK, CallStep
  <1>1. DispatchTypeOK' /\ HealthCheckerTypeOK'
    BY <1>0 DEF TypeOK, DispatchTypeOK, HealthCheckerTypeOK, hcVars
  <1>2. adm[a] \in CallState
    BY <1>0 DEF AdminHandlersTypeOK
  <1>3. BackendsTypeOK' /\ ServerPoolTypeOK' /\ AdminHandlersTypeOK'
    <2>1. ASSUME NEW u \in AdminUrl, NEW n \in MaxReqs, AddCall(a, u, n)
          PROVE  BackendsTypeOK' /\ ServerPoolTypeOK' /\ AdminHandlersTypeOK'
      <3>1. [adm[a] EXCEPT !.pc = "find", !.url = u, !.max = n] \in CallState
        BY <1>2 DEF CallState
      <3>2. AdminHandlersTypeOK'
        <4>1. adm' = [adm EXCEPT ![a] = [adm[a] EXCEPT !.pc = "find", !.url = u, !.max = n]]
          BY <1>0, <2>1 DEF AddCall, AdminHandlersTypeOK
        <4> QED BY <1>0, <3>1, <4>1, CallUpdateType
      <3> QED BY <1>0, <2>1, <3>2, RangeType DEF AddCall, BackendsTypeOK, backendVars
    <2>2. ASSUME NEW u \in AdminUrl, RemoveCall(a, u)
          PROVE  BackendsTypeOK' /\ ServerPoolTypeOK' /\ AdminHandlersTypeOK'
      BY <1>0, <2>2, FinishType, RemoveServerType DEF RemoveCall, BackendsTypeOK, backendVars
    <2>3. CASE ListCall(a) \/ ListEnd(a)
      <3>1. [adm[a] EXCEPT !.pc = "listing"] \in CallState
        BY <1>2 DEF CallState
      <3>2. [adm[a] EXCEPT !.pc = "listed"] \in CallState
        BY <1>2 DEF CallState
      <3>3. AdminHandlersTypeOK'
        BY <1>0, <2>3, <3>1, <3>2, CallUpdateType DEF ListCall, ListEnd
      <3> QED BY <1>0, <2>3, <3>3, RangeType DEF ListCall, ListEnd, BackendsTypeOK, backendVars
    <2>4. CASE ListNext(a)
      <3>1. RangeElement(a) \in Backend
        BY <1>0, <2>4, RangeElementType DEF ListNext, RangeNext
      <3>2. [adm[a] EXCEPT !.list = Append(@, RangeElement(a))] \in CallState
        <4>1. Append(adm[a].list, RangeElement(a)) \in Seq(Backend)
          BY <1>2, <3>1 DEF CallState
        <4> QED BY <1>2, <4>1 DEF CallState
      <3>3. AdminHandlersTypeOK'
        BY <1>0, <2>4, <3>2, CallUpdateType DEF ListNext
      <3> QED BY <1>0, <2>4, <3>3, RangeType DEF ListNext, BackendsTypeOK, backendVars
    <2>5. CASE FindNext(a)
      BY <1>0, <2>5, RangeType DEF FindNext, BackendsTypeOK, backendVars, AdminHandlersTypeOK
    <2>6. CASE FoundOne(a)
      BY <1>0, <2>6, RangeType, FinishType DEF FoundOne, BackendsTypeOK, backendVars
    <2>7. CASE FoundNone(a)
      <3>1. AdminHandlersTypeOK'
        <4>1. adm[a].max % Int32Mod \in Nat
          <5>1. adm[a].max \in Nat /\ Int32Mod \in Nat \ {0}
            BY <1>2 DEF CallState
          <5> QED BY <5>1
        <4>2. [adm[a] EXCEPT !.pc = "create", !.max = @ % Int32Mod] \in CallState
          BY <1>2, <4>1 DEF CallState
        <4>3. CASE Finish(a)
          BY <1>0, <4>3, FinishType
        <4>4. CASE ~Finish(a)
          <5>1. adm' = [adm EXCEPT ![a] =
                          [adm[a] EXCEPT !.pc = "create", !.max = @ % Int32Mod]]
            BY <1>0, <2>7, <4>4 DEF FoundNone, AdminHandlersTypeOK
          <5> QED BY <1>0, <4>2, <5>1, CallUpdateType
        <4> QED BY <4>3, <4>4
      <3> QED BY <1>0, <2>7, <3>1, RangeType DEF FoundNone, BackendsTypeOK, backendVars
    <2>8. CASE BadUrl(a) \/ Listed(a)
      BY <1>0, <2>8, FinishType DEF BadUrl, Listed, BackendsTypeOK, ServerPoolTypeOK,
         backendVars, serverPoolVars
    <2>9. ASSUME NEW b \in Backend, Create(a, b)
          PROVE  BackendsTypeOK' /\ ServerPoolTypeOK' /\ AdminHandlersTypeOK'
      <3>1. Parsed[adm[a].url] \in Url /\ adm[a].max \in Nat
        BY <1>2, <2>9 DEF Create, CallsKnown, CallState
      <3>2. [adm[a] EXCEPT !.pc = "dial", !.new = b] \in CallState
        BY <1>2 DEF CallState
      <3>3. AdminHandlersTypeOK'
        <4>1. adm' = [adm EXCEPT ![a] = [adm[a] EXCEPT !.pc = "dial", !.new = b]]
          BY <2>9 DEF Create
        <4> QED BY <1>0, <3>2, <4>1, CallUpdateType
      <3> QED BY <1>0, <2>9, <3>1, <3>3, AddServerType, BackendStepType DEF Create
    <2>10. CASE DialNew(a)
      <3>1. up[adm[a].new] \in BOOLEAN
        BY <1>0, <2>10 DEF DialNew, CallsKnown, BackendsTypeOK
      <3>2. [adm[a] EXCEPT !.pc = "report", !.up = up[adm[a].new]] \in CallState
        BY <1>2, <3>1 DEF CallState
      <3>3. AdminHandlersTypeOK'
        BY <1>0, <2>10, <3>2, CallUpdateType DEF DialNew, CheckIfAlive
      <3> QED BY <1>0, <2>10, <3>3 DEF DialNew, BackendsTypeOK, ServerPoolTypeOK,
                 backendVars, serverPoolVars
    <2>11. CASE ReportNew(a)
      <3>1. adm[a].new \in Backend /\ adm[a].up \in BOOLEAN
        BY <1>2, <2>11 DEF ReportNew, CallsKnown, CallState
      <3> QED BY <1>0, <2>11, <3>1, FinishType, BackendStepType DEF ReportNew,
                 ServerPoolTypeOK, serverPoolVars
    <2> QED BY <1>0, <2>1, <2>2, <2>3, <2>4, <2>5, <2>6, <2>7, <2>8, <2>9, <2>10, <2>11
            DEF AdminStep, RunCall
  <1> QED BY <1>1, <1>3 DEF TypeOK

(* A machine that stops or starts keeps every component well typed.        *)
LEMMA MachineStepType ==
    ASSUME TypeOK, NEW b \in Backend, MachineStep(b)
    PROVE  TypeOK'
  <1>1. BackendsTypeOK'
    BY BackendStepType DEF TypeOK, MachineStep
  <1> QED BY <1>1 DEF TypeOK, MachineStep, ServerPoolTypeOK, DispatchTypeOK,
             HealthCheckerTypeOK, AdminHandlersTypeOK, serverPoolVars, hcVars, admVars

-----------------------------------------------------------------------------
(* Who holds what, and how many are at each backend                        *)

Holding == {"assign", "sent", "relay", "failed"}

(* Going on with the same server, or without one where none is needed.     *)
LEMMA PeerKnownGoto ==
    ASSUME DispatchTypeOK, PeerKnown, NEW r \in Request, NEW label \in Label,
           \/ Goto(r, label) /\ (label \in Holding => req[r].pc \in Holding)
           \/ Drop(r, label) /\ label \notin Holding
    PROVE  PeerKnown'
  <1>1. req \in [Request -> RequestState] /\ req[r] \in RequestState
    BY DEF DispatchTypeOK
  <1>2. \A q \in Request \ {r} : req'[q] = req[q]
    BY <1>1 DEF Goto, Drop
  <1>3. req'[r].pc \in Holding => req'[r].peer \in Backend
    BY <1>1 DEF Goto, Drop, RequestState, PeerKnown, Holding
  <1> QED BY <1>2, <1>3 DEF PeerKnown, Holding

(* A step of a request leaves every request past the scan with a server.   *)
LEMMA PeerKnownStep ==
    ASSUME TypeOK, PeerKnown, NEW r \in Request, DispatchStep(r)
    PROVE  PeerKnown'
  <1>1. /\ req \in [Request -> RequestState] /\ req[r] \in RequestState
        /\ ServerPoolTypeOK /\ DispatchTypeOK
    BY DEF TypeOK, DispatchTypeOK
  <1>2. CASE Chosen(r)
    <2>1. NextCandidate \in Backend
      BY <1>1, <1>2, IncrementInPool DEF Chosen, ReturnPeer, MoreToScan, ServerPoolTypeOK
    <2>2. req'[r].peer = NextCandidate /\ \A q \in Request \ {r} : req'[q] = req[q]
      BY <1>1, <1>2 DEF Chosen, RequestState
    <2> QED BY <2>1, <2>2 DEF PeerKnown
  <1>3. CASE PassOver(r)
    BY <1>3 DEF PassOver, PeerKnown
  <1>4. CASE Arrive(r) \/ EnterGetNextPeer(r) \/ Refused(r)
    BY <1>1, <1>4, PeerKnownGoto DEF Arrive, EnterGetNextPeer, Refused, Label, Holding
  <1>5. CASE Assign(r) \/ GiveUpSlot(r) \/ MarkDown(r)
    BY <1>1, <1>5, PeerKnownGoto DEF Assign, GiveUpSlot, MarkDown, Label, Holding
  <1>6. CASE Answered(r) \/ Cancelled(r) \/ Relayed(r)
    BY <1>1, <1>6, PeerKnownGoto DEF Answered, Cancelled, Relayed, Label, Holding
  <1>7. CASE Errored(r) \/ Leave(r)
    <2>1. \A q \in Request \ {r} : req'[q] = req[q]
      BY <1>1, <1>7 DEF Errored, Leave
    <2>2. CASE Errored(r)
      <3>1. req'[r].peer = req[r].peer /\ req[r].pc = "sent"
        BY <1>1, <2>2 DEF Errored, RequestState
      <3> QED BY <2>1, <3>1 DEF PeerKnown
    <2>3. CASE Leave(r)
      <3>1. req'[r].peer = req[r].peer /\ req'[r].pc = req[r].pc
        BY <1>1, <2>3 DEF Leave, RequestState
      <3> QED BY <2>1, <3>1 DEF PeerKnown
    <2> QED BY <1>7, <2>2, <2>3
  <1> QED BY <1>2, <1>3, <1>4, <1>5, <1>6, <1>7 DEF DispatchStep

(* A step of a call leaves every call with what it needs.                  *)
LEMMA CallsKnownStep ==
    ASSUME TypeOK, CallsKnown, NEW a \in Admin, AdminStep(a)
    PROVE  CallsKnown'
  <1> USE AdminHandlersAssumption
  <1>1. adm \in [Admin -> CallState] /\ adm[a] \in CallState
    BY DEF TypeOK, AdminHandlersTypeOK
  <1>0. \A q \in Admin \ {a} : adm'[q] = adm[q]
    BY <1>1 DEF AdminStep, RunCall, AddCall, RemoveCall, ListCall, FindNext, FoundOne,
       FoundNone, BadUrl, Create, DialNew, ReportNew, ListNext, ListEnd, Listed, Finish
  <1>2. ASSUME NEW u \in AdminUrl, NEW n \in MaxReqs, AddCall(a, u, n)
        PROVE  CallsKnown'
    <2>1. adm'[a].pc = "find" /\ adm'[a].url = u
      BY <1>1, <1>2 DEF AddCall, CallState
    <2> QED BY <1>0, <2>1 DEF CallsKnown
  <1>3. ASSUME NEW b \in Backend, Create(a, b)
        PROVE  CallsKnown'
    <2>1. adm'[a].pc = "dial" /\ adm'[a].new = b
      BY <1>1, <1>3 DEF Create, CallState
    <2> QED BY <1>0, <2>1 DEF CallsKnown
  <1>4. CASE Finish(a)
    <2>1. adm'[a].pc = "done"
      BY <1>1, <1>4 DEF Finish, NoCall
    <2> QED BY <1>0, <2>1 DEF CallsKnown
  <1>5. CASE ListCall(a) \/ ListNext(a) \/ ListEnd(a)
    <2>1. adm'[a].pc \in {"listing", "listed"}
      BY <1>1, <1>5 DEF ListCall, ListNext, ListEnd, CallState
    <2> QED BY <1>0, <2>1 DEF CallsKnown
  <1>6. CASE FindNext(a)
    BY <1>6 DEF FindNext, CallsKnown
  <1>7. CASE FoundNone(a)
    <2>1. CASE ~Finish(a)
      <3>1. adm'[a].pc = "create" /\ adm'[a].url = adm[a].url /\ adm[a].pc = "find"
        BY <1>1, <1>7, <2>1 DEF FoundNone, CallState
      <3> QED BY <1>0, <3>1 DEF CallsKnown
    <2> QED BY <1>4, <2>1
  <1>8. CASE DialNew(a)
    <2>1. adm'[a].pc = "report" /\ adm'[a].new = adm[a].new /\ adm[a].pc = "dial"
      BY <1>1, <1>8 DEF DialNew, CallState
    <2> QED BY <1>0, <2>1 DEF CallsKnown
  <1>9. CASE \/ FoundOne(a) \/ BadUrl(a) \/ ReportNew(a) \/ Listed(a)
             \/ \E u \in AdminUrl : RemoveCall(a, u)
    BY <1>4, <1>9 DEF FoundOne, BadUrl, ReportNew, Listed, RemoveCall
  <1> QED BY <1>2, <1>3, <1>5, <1>6, <1>7, <1>8, <1>9 DEF AdminStep, RunCall

(* A request that neither takes nor gives back a slot is nowhere counted.  *)
LEMMA AtUnchanged ==
    ASSUME NEW r \in Request, NEW c, req \in [Request -> RequestState],
           req' = [req EXCEPT ![r] = c],
           req[r].pc # "sent", c.pc # "sent",
           NEW b \in Backend
    PROVE  At(b)' = At(b)
  BY DEF At

(* Assign adds its request to one backend, and to no other.                *)
LEMMA AtAssign ==
    ASSUME DispatchTypeOK, NEW r \in Request, Assign(r), NEW b \in Backend
    PROVE  /\ r \notin At(b)
           /\ At(b)' = IF b = req[r].peer THEN At(b) \cup {r} ELSE At(b)
  <1>1. req \in [Request -> RequestState] /\ req' = [req EXCEPT ![r].pc = "sent"]
    BY DEF DispatchTypeOK, Assign, Goto
  <1>2. req[r].pc = "assign"
    BY DEF Assign
  <1>3. req'[r].pc = "sent" /\ req'[r].peer = req[r].peer
    BY <1>1 DEF RequestState
  <1>4. \A q \in Request \ {r} : req'[q] = req[q]
    BY <1>1
  <1> QED BY <1>2, <1>3, <1>4 DEF At

(* The end of Do takes its request away from its backend, and from no other. *)
LEMMA AtEnd ==
    ASSUME DispatchTypeOK, NEW r \in Request,
           Answered(r) \/ Errored(r) \/ Cancelled(r), NEW b \in Backend
    PROVE  /\ r \in At(req[r].peer)
           /\ At(b)' = IF b = req[r].peer THEN At(b) \ {r} ELSE At(b)
  <1>1. req \in [Request -> RequestState]
    BY DEF DispatchTypeOK
  <1>2. req[r].pc = "sent" /\ req'[r].pc # "sent"
    BY <1>1 DEF Answered, Errored, Cancelled, Goto, Drop, RequestState
  <1>3. \A q \in Request \ {r} : req'[q] = req[q]
    BY <1>1 DEF Answered, Errored, Cancelled, Goto, Drop
  <1> QED BY <1>2, <1>3 DEF At

(* The accounting survives every step of a request.                        *)
LEMMA SlotStep ==
    ASSUME TypeOK, PeerKnown, SlotInv, NEW r \in Request, DispatchStep(r)
    PROVE  SlotInv'
  <1>0. /\ DispatchTypeOK /\ BackendsTypeOK
        /\ req \in [Request -> RequestState] /\ req[r] \in RequestState
    BY DEF TypeOK, DispatchTypeOK
  <1>1. CASE Assign(r)
    <2>1. req[r].peer \in Backend
      BY <1>1 DEF Assign, PeerKnown
    <2>2. /\ slots[req[r].peer] < limit[req[r].peer]
          /\ slots' = [slots EXCEPT ![req[r].peer] = @ + 1]
          /\ limit' = limit /\ url' = url
      BY <1>1 DEF Assign, AssignRequest
    <2>3. ASSUME NEW b \in Backend
          PROVE  /\ IsFiniteSet(At(b)')
                 /\ slots'[b] = Cardinality(At(b)')
                 /\ slots'[b] <= limit'[b]
                 /\ url'[b] = NoUrl => limit'[b] = 0
      <3>1. /\ r \notin At(b)
            /\ At(b)' = IF b = req[r].peer THEN At(b) \cup {r} ELSE At(b)
        BY <1>0, <1>1, AtAssign
      <3>2. /\ IsFiniteSet(At(b)) /\ slots[b] = Cardinality(At(b))
            /\ slots[b] <= limit[b] /\ (url[b] = NoUrl => limit[b] = 0)
        BY DEF SlotInv
      <3>3. slots[b] \in Nat /\ limit[b] \in Nat
        BY <1>0 DEF BackendsTypeOK
      <3>4. CASE b = req[r].peer
        <4>1. slots'[b] = slots[b] + 1
          BY <1>0, <2>1, <2>2, <3>4 DEF BackendsTypeOK
        <4>2. IsFiniteSet(At(b)') /\ Cardinality(At(b)') = Cardinality(At(b)) + 1
          BY <3>1, <3>2, <3>4, FS_AddElement
        <4> QED BY <2>2, <3>2, <3>3, <3>4, <4>1, <4>2
      <3>5. CASE b # req[r].peer
        <4>1. slots'[b] = slots[b] /\ At(b)' = At(b)
          BY <1>0, <2>2, <3>1, <3>5 DEF BackendsTypeOK
        <4> QED BY <2>2, <3>2, <4>1
      <3> QED BY <3>4, <3>5
    <2> QED BY <2>3 DEF SlotInv
  <1>2. CASE Answered(r) \/ Errored(r) \/ Cancelled(r)
    <2>1. req[r].peer \in Backend
      BY <1>2 DEF Answered, Errored, Cancelled, PeerKnown
    <2>2. Free(req[r].peer) /\ limit' = limit /\ url' = url
      BY <1>2 DEF Answered, Errored, Cancelled, GiveBackSlot
    <2>3. ASSUME NEW b \in Backend
          PROVE  /\ IsFiniteSet(At(b)')
                 /\ slots'[b] = Cardinality(At(b)')
                 /\ slots'[b] <= limit'[b]
                 /\ url'[b] = NoUrl => limit'[b] = 0
      <3>1. /\ r \in At(req[r].peer)
            /\ At(b)' = IF b = req[r].peer THEN At(b) \ {r} ELSE At(b)
        BY <1>0, <1>2, AtEnd
      <3>2. /\ IsFiniteSet(At(b)) /\ slots[b] = Cardinality(At(b))
            /\ slots[b] <= limit[b] /\ (url[b] = NoUrl => limit[b] = 0)
        BY DEF SlotInv
      <3>3. slots[b] \in Nat /\ limit[b] \in Nat
        BY <1>0 DEF BackendsTypeOK
      <3>4. CASE b = req[r].peer
        <4>1. IsFiniteSet(At(b)') /\ Cardinality(At(b)') = Cardinality(At(b)) - 1
          BY <3>1, <3>2, <3>4, FS_RemoveElement
        <4>2. Cardinality(At(b)') \in Nat
          BY <4>1, FS_CardinalityType
        <4>3. slots[b] > 0
          BY <3>2, <3>3, <4>1, <4>2
        <4>4. slots'[b] = slots[b] - 1
          BY <1>0, <2>1, <2>2, <3>4, <4>3 DEF BackendsTypeOK, Free
        <4> QED BY <2>2, <3>2, <3>3, <4>1, <4>4
      <3>5. CASE b # req[r].peer
        <4>1. slots'[b] = slots[b] /\ At(b)' = At(b)
          BY <1>0, <2>2, <3>1, <3>5 DEF BackendsTypeOK, Free
        <4> QED BY <2>2, <3>2, <4>1
      <3> QED BY <3>4, <3>5
    <2> QED BY <2>3 DEF SlotInv
  <1>3. CASE /\ ~Assign(r) /\ ~Answered(r) /\ ~Errored(r) /\ ~Cancelled(r)
    <2>1. slots' = slots /\ limit' = limit /\ url' = url
      BY <1>3 DEF DispatchStep, Arrive, EnterGetNextPeer, PassOver, Chosen, Refused,
         GiveUpSlot, AssignTimeout, MarkDown, SetAlive, Relayed, Leave, backendVars
    <2>2. ASSUME NEW b \in Backend
          PROVE  At(b)' = At(b)
      <3>1. \A q \in Request \ {r} : req'[q] = req[q]
        BY <1>0, <1>3 DEF DispatchStep, Arrive, EnterGetNextPeer, PassOver, Chosen,
           Refused, GiveUpSlot, MarkDown, Relayed, Leave, Goto, Drop
      <3>2. CASE Leave(r)
        <4>1. req'[r].pc = req[r].pc /\ req'[r].peer = req[r].peer
          BY <1>0, <3>2 DEF Leave, RequestState
        <4> QED BY <3>1, <4>1 DEF At
      <3>3. CASE PassOver(r)
        BY <3>3 DEF PassOver, At
      <3>4. CASE Chosen(r)
        <4>1. req[r].pc # "sent" /\ req'[r].pc # "sent"
          BY <1>0, <3>4 DEF Chosen, RequestState
        <4> QED BY <3>1, <4>1 DEF At
      <3>5. CASE \/ Arrive(r) \/ EnterGetNextPeer(r) \/ Refused(r)
                 \/ GiveUpSlot(r) \/ MarkDown(r) \/ Relayed(r)
        <4>1. req[r].pc # "sent" /\ req'[r].pc # "sent"
          BY <1>0, <3>5 DEF Arrive, EnterGetNextPeer, Refused, GiveUpSlot, MarkDown,
             Relayed, Goto, Drop, RequestState
        <4> QED BY <3>1, <4>1 DEF At
      <3> QED BY <1>3, <3>2, <3>3, <3>4, <3>5 DEF DispatchStep
    <2> QED BY <2>1, <2>2 DEF SlotInv
  <1> QED BY <1>1, <1>2, <1>3

(* It survives whatever does not touch the channels, and the allocation of *)
(* a new object, whose channel is still nobody's.                          *)
LEMMA SlotKept ==
    ASSUME BackendsTypeOK, SlotInv, UNCHANGED <<req, slots>>,
           \/ UNCHANGED <<limit, url>>
           \/ \E b \in Backend, u \in Url, n \in Nat : NewBackend(b, u, n)
    PROVE  SlotInv'
  <1>1. \A b \in Backend : At(b)' = At(b)
    BY DEF At
  <1>2. CASE UNCHANGED <<limit, url>>
    BY <1>1, <1>2 DEF SlotInv
  <1>3. ASSUME NEW b \in Backend, NEW u \in Url, NEW n \in Nat, NewBackend(b, u, n)
        PROVE  SlotInv'
    <2>1. slots[b] = 0
      BY <1>3 DEF NewBackend, SlotInv, BackendsTypeOK
    <2>2. limit'[b] = n /\ url'[b] # NoUrl
      BY <1>3, BackendsAssumption DEF NewBackend, BackendsTypeOK
    <2>3. \A c \in Backend \ {b} : limit'[c] = limit[c] /\ url'[c] = url[c]
      BY <1>3 DEF NewBackend, BackendsTypeOK
    <2> QED BY <1>1, <2>1, <2>2, <2>3 DEF SlotInv
  <1> QED BY <1>2, <1>3

-----------------------------------------------------------------------------
(* The count of the checks                                                 *)

(* The number of checks of a backend is a natural number.                  *)
LEMMA RunningType ==
    ASSUME HealthCheckerTypeOK
    PROVE  Running \in [Backend -> Nat]
  BY DEF HealthCheckerTypeOK, Running

(* The count is right when the balancer starts: no check has begun.        *)
LEMMA InitRoundInv ==
    ASSUME Init
    PROVE  RoundInv
  <1>1. servers = Boot /\ hcPc = "tick" /\ wg = 0 /\ ~crashed
    BY DEF Init, ServerPoolInit, HealthCheckerInit
  <1>2. BootBackends \subseteq Allocated
    BY BackendsAssumption DEF Init, BackendsInit, Allocated, BootBackends
  <1>3. Running = [b \in Backend |-> 0]
    BY DEF Init, HealthCheckerInit, Running
  <1>4. IsFiniteSet(Units(Running)) /\ Total(Running) = 0
    BY <1>3, TotalZero
  <1>5. Outstanding = 0
    BY <1>1, <1>4 DEF Outstanding, ToStart
  <1>6. Len(servers) <= Len(Boot)
    BY <1>1, BackendsAssumption
  <1> QED BY <1>1, <1>2, <1>4, <1>5, <1>6 DEF RoundInv

(* Who touches neither the pool nor the checker leaves the count right.    *)
LEMMA RoundKept ==
    ASSUME RoundInv, UNCHANGED <<servers, url, hcVars>>, range'[HC] = range[HC]
    PROVE  RoundInv'
  <1>1. UNCHANGED <<hcPc, wg, dialing, passed, failed, crashed, Allocated>>
    BY DEF hcVars, Allocated
  <1>2. UNCHANGED <<Running, ToStart>>
    BY <1>1 DEF Running, ToStart
  <1>3. UNCHANGED <<Units(Running), Outstanding>>
    BY <1>2 DEF Outstanding
  <1> QED BY <1>1, <1>3 DEF RoundInv, PoolUntouched

(* A new object tells for good that the pool is not the configured one.    *)
LEMMA RoundCreated ==
    ASSUME BackendsTypeOK, RoundInv, NEW b \in Backend, NEW u \in Url, NEW n,
           NewBackend(b, u, n)
    PROVE  RoundInv'
  <1>1. b \notin Allocated /\ Allocated' = Allocated \cup {b}
    BY BackendsAssumption DEF NewBackend, BackendsTypeOK, Allocated
  <1>2. BootBackends \subseteq Allocated' /\ Allocated' # BootBackends
    BY <1>1 DEF RoundInv
  <1> QED BY <1>2 DEF RoundInv, PoolUntouched

(* So does a removal from a pool without new objects: it is shorter.       *)
LEMMA RoundRemoved ==
    ASSUME TypeOK, RoundInv, NEW u, RemoveServerByUrl(u),
           UNCHANGED <<url, hcVars>>, HC \in Reader
    PROVE  RoundInv'
  <1>0. servers \in Seq(Backend) /\ Boot \in Seq(Backend)
    BY BackendsAssumption DEF TypeOK, ServerPoolTypeOK
  <1>1. CASE UNCHANGED <<servers, range>>
    BY <1>1, RoundKept
  <1>2. CASE ~UNCHANGED <<servers, range>>
    <2>1. PICK k \in DOMAIN servers : servers' = Without(servers, k)
      BY <1>2 DEF RemoveServerByUrl
    <2>2. Len(servers') = Len(servers) - 1
      BY <1>0, <2>1, WithoutLen
    <2>3. UNCHANGED Allocated
      BY DEF Allocated
    <2>4. Allocated' = BootBackends => Len(servers') < Len(Boot)
      BY <1>0, <2>2, <2>3 DEF RoundInv
    <2>5. ~PoolUntouched'
      BY <1>0, <2>4 DEF PoolUntouched
    <2>6. Allocated' = BootBackends => Len(servers') <= Len(Boot)
      BY <1>0, <2>2, <2>3 DEF RoundInv
    <2> QED BY <2>3, <2>5, <2>6 DEF RoundInv
  <1> QED BY <1>1, <1>2

(* The checker's own steps: what a round adds to the WaitGroup it starts,  *)
(* what it has started is dialling or about to report, and what reports    *)
(* is taken off.                                                           *)
LEMMA RoundStep ==
    ASSUME TypeOK, RoundInv, HealthStep
    PROVE  RoundInv'
  <1>0. /\ ServerPoolTypeOK /\ HealthCheckerTypeOK /\ HealthCheckerTypeOK'
        /\ range[HC] \in [view : Seq(Backend), pos : Nat, shared : BOOLEAN]
        /\ range \in [Reader -> [view : Seq(Backend), pos : Nat, shared : BOOLEAN]]
        /\ HC \in Reader /\ Len(servers) \in Nat
    BY HealthStepType, HealthCheckerAssumption DEF TypeOK, ServerPoolTypeOK
  <1>1. UNCHANGED <<servers, url>>
    BY DEF HealthStep, Round, Check, Tick, StartChecks, Spawn, AllSpawned, ChecksCompleted,
       Dial, ReportUp, ReportDown, SetAlive, RangeStart, RangeNext, RangeEnd,
       backendVars, serverPoolVars, poolVars
  <1>2. UNCHANGED <<Allocated, PoolUntouched>>
    BY <1>1 DEF Allocated, PoolUntouched
  <1> SUFFICES ASSUME PoolUntouched
               PROVE  /\ ~crashed'
                      /\ IsFiniteSet(Units(Running))'
                      /\ wg' = Outstanding'
                      /\ (hcPc = "spawn" => range[HC].pos <= Len(range[HC].view))'
    BY <1>1, <1>2 DEF RoundInv
  <1>3. /\ ~crashed /\ IsFiniteSet(Units(Running)) /\ wg = ToStart + Total(Running)
        /\ hcPc = "spawn" => range[HC].pos <= Len(range[HC].view)
    BY DEF RoundInv, Outstanding
  <1>4. /\ Running \in [Backend -> Nat] /\ Running' \in [Backend -> Nat]
        /\ Total(Running) \in Nat
    <2>1. Running \in [Backend -> Nat]
      BY <1>0, RunningType
    <2>2. Running' \in [Backend -> Nat]
      BY <1>0 DEF HealthCheckerTypeOK, Running
    <2>3. Total(Running) \in Nat
      BY <1>3, <2>1, TotalType
    <2> QED BY <2>1, <2>2, <2>3
  <1>5. CASE Tick \/ StartChecks \/ AllSpawned \/ ChecksCompleted
    <2>1. UNCHANGED <<dialing, passed, failed, crashed>>
      BY <1>5 DEF Tick, StartChecks, AllSpawned, ChecksCompleted
    <2>2. Running' = Running
      BY <2>1 DEF Running
    <2>3. wg' = ToStart' + Total(Running)
      <3>1. CASE Tick
        BY <1>0, <1>1, <1>3, <1>4, <3>1 DEF Tick, ToStart
      <3>2. CASE StartChecks
        <4>1. range'[HC] = [view |-> servers, pos |-> 0, shared |-> TRUE]
          BY <1>0, <3>2 DEF StartChecks, RangeStart
        <4>2. ToStart = Len(servers) /\ ToStart' = Len(servers) - 0 /\ wg' = wg
          BY <3>2, <4>1 DEF StartChecks, ToStart
        <4> QED BY <1>0, <1>3, <4>2
      <3>3. CASE AllSpawned
        <4>1. ToStart = Len(range[HC].view) - range[HC].pos /\ ToStart' = 0 /\ wg' = wg
          BY <3>3 DEF AllSpawned, ToStart
        <4>2. ToStart = 0
          BY <1>0, <1>3, <3>3, <4>1 DEF AllSpawned, MoreToRange
        <4> QED BY <1>3, <1>4, <4>1, <4>2
      <3>4. CASE ChecksCompleted
        BY <1>3, <3>4 DEF ChecksCompleted, ToStart
      <3> QED BY <1>5, <3>1, <3>2, <3>3, <3>4
    <2>4. (hcPc = "spawn" => range[HC].pos <= Len(range[HC].view))'
      <3>1. CASE StartChecks
        BY <1>0, <3>1 DEF StartChecks, RangeStart
      <3>2. CASE Tick \/ AllSpawned \/ ChecksCompleted
        BY <3>2 DEF Tick, AllSpawned, ChecksCompleted
      <3> QED BY <1>5, <3>1, <3>2
    <2> QED BY <1>3, <2>1, <2>2, <2>3, <2>4 DEF Outstanding
  <1>6. CASE Spawn
    <2> DEFINE b == RangeElement(HC)
    <2>1. b \in Backend /\ range[HC].pos < Len(range[HC].view)
      BY <1>0, <1>6, RangeElementType DEF Spawn, RangeNext, MoreToRange
    <2>2. dialing' = [dialing EXCEPT ![b] = @ + 1] /\ UNCHANGED <<hcPc, wg, passed, failed, crashed>>
      BY <1>6 DEF Spawn
    <2> HIDE DEF b
    <2>3. Running'[b] = Running[b] + 1 /\ \A c \in Backend \ {b} : Running'[c] = Running[c]
      BY <1>0, <2>1, <2>2 DEF Running, HealthCheckerTypeOK
    <2>4. IsFiniteSet(Units(Running')) /\ Total(Running') = Total(Running) - Running[b] + Running'[b]
      BY <1>3, <1>4, <2>1, <2>3, TotalChange
    <2>5. range'[HC] = [range[HC] EXCEPT !.pos = @ + 1]
      BY <1>0, <1>6 DEF Spawn, RangeNext
    <2>6. ToStart' = ToStart - 1
      BY <1>0, <1>6, <2>2, <2>5 DEF Spawn, ToStart
    <2>7. ToStart \in Int /\ Running[b] \in Nat
      BY <1>0, <1>4, <1>6, <2>1 DEF Spawn, ToStart
    <2>8. wg' = ToStart' + Total(Running')
      BY <1>3, <1>4, <2>2, <2>3, <2>4, <2>6, <2>7
    <2> QED BY <1>0, <1>3, <2>1, <2>2, <2>4, <2>5, <2>8 DEF Outstanding
  <1>7. ASSUME NEW b \in Backend, Dial(b)
        PROVE  /\ ~crashed'
               /\ IsFiniteSet(Units(Running))'
               /\ wg' = Outstanding'
               /\ (hcPc = "spawn" => range[HC].pos <= Len(range[HC].view))'
    <2>1. UNCHANGED <<hcPc, wg, crashed, range>>
      BY <1>7 DEF Dial, serverPoolVars
    <2>2. \A c \in Backend : Running'[c] = Running[c]
      <3>1. /\ dialing[b] > 0 /\ dialing' = [dialing EXCEPT ![b] = @ - 1]
            /\ \/ passed' = [passed EXCEPT ![b] = @ + 1] /\ failed' = failed
               \/ failed' = [failed EXCEPT ![b] = @ + 1] /\ passed' = passed
        BY <1>7 DEF Dial
      <3>2. CASE passed' = [passed EXCEPT ![b] = @ + 1] /\ failed' = failed
        BY <1>0, <3>1, <3>2 DEF Running, HealthCheckerTypeOK
      <3>3. CASE failed' = [failed EXCEPT ![b] = @ + 1] /\ passed' = passed
        BY <1>0, <3>1, <3>3 DEF Running, HealthCheckerTypeOK
      <3> QED BY <3>1, <3>2, <3>3
    <2>3. Running' = Running
      BY <1>4, <2>2
    <2>4. ToStart' = ToStart
      BY <1>1, <2>1 DEF ToStart
    <2> QED BY <1>3, <2>1, <2>3, <2>4 DEF Outstanding
  <1>8. ASSUME NEW b \in Backend, ReportUp(b) \/ ReportDown(b)
        PROVE  /\ ~crashed'
               /\ IsFiniteSet(Units(Running))'
               /\ wg' = Outstanding'
               /\ (hcPc = "spawn" => range[HC].pos <= Len(range[HC].view))'
    <2>1. UNCHANGED <<hcPc, range>> /\ wg' = wg - 1 /\ crashed' = (wg = 0)
      BY <1>8, Zenon DEF ReportUp, ReportDown, Done, serverPoolVars
    <2>2. Running[b] > 0 /\ Running'[b] = Running[b] - 1
          /\ \A c \in Backend \ {b} : Running'[c] = Running[c]
      <3>1. CASE ReportUp(b)
        BY <1>0, <3>1 DEF ReportUp, Running, HealthCheckerTypeOK
      <3>2. CASE ReportDown(b)
        BY <1>0, <3>2 DEF ReportDown, Running, HealthCheckerTypeOK
      <3> QED BY <1>8, <3>1, <3>2
    <2>3. IsFiniteSet(Units(Running')) /\ Total(Running') = Total(Running) - Running[b] + Running'[b]
      BY <1>3, <1>4, <2>2, TotalChange
    <2>4. ToStart' = ToStart /\ ToStart \in Nat
      BY <1>0, <1>1, <1>3, <2>1 DEF ToStart
    <2>5. Running[b] \in Nat /\ Running[b] <= Total(Running)
      BY <1>3, <1>4, TotalType
    <2>6. wg # 0 /\ wg' = ToStart' + Total(Running')
      BY <1>3, <1>4, <2>1, <2>2, <2>3, <2>4, <2>5
    <2>7. ~crashed'
      BY <2>1, <2>6, Zenon
    <2> QED BY <1>3, <2>1, <2>3, <2>6, <2>7 DEF Outstanding
  <1> QED BY <1>5, <1>6, <1>7, <1>8 DEF HealthStep, Round, Check

(* A call creates an object, removes a server, or leaves the pool alone;   *)
(* the checker's range loop is not its own.                                *)
LEMMA RoundCall ==
    ASSUME TypeOK, CallsKnown, RoundInv, NEW a \in Admin, CallStep(a)
    PROVE  RoundInv'
  <1>0. /\ UNCHANGED hcVars /\ HC \in Reader /\ a \in Reader /\ a # HC
        /\ range \in [Reader -> [view : Seq(Backend), pos : Nat, shared : BOOLEAN]]
        /\ adm[a] \in CallState
    BY HealthCheckerAssumption, AdminHandlersAssumption, LoadBalancerAssumption
       DEF CallStep, TypeOK, ServerPoolTypeOK, AdminHandlersTypeOK
  <1>1. ASSUME NEW b \in Backend, Create(a, b)
        PROVE  RoundInv'
    <2>1. Parsed[adm[a].url] \in Url
      BY <1>0, <1>1, AdminHandlersAssumption DEF Create, CallsKnown
    <2> QED BY <1>1, <2>1, RoundCreated DEF Create, TypeOK
  <1>2. ASSUME NEW u \in AdminUrl, RemoveCall(a, u)
        PROVE  RoundInv'
    <2>1. RemoveServerByUrl(u) /\ UNCHANGED url
      BY <1>2 DEF RemoveCall, backendVars
    <2> QED BY <1>0, <2>1, RoundRemoved
  <1>3. CASE ~(\E b \in Backend : Create(a, b)) /\ ~(\E u \in AdminUrl : RemoveCall(a, u))
    <2>1. UNCHANGED <<servers, url>>
      BY <1>3 DEF CallStep, AdminStep, RunCall, AddCall, ListCall, FindNext, FoundOne,
         FoundNone, BadUrl, DialNew, ReportNew, ListNext, ListEnd, Listed, SetAlive,
         RangeStart, RangeNext, RangeEnd, backendVars, serverPoolVars, poolVars
    <2>2. range'[HC] = range[HC]
      BY <1>0, <1>3 DEF CallStep, AdminStep, RunCall, AddCall, ListCall, FindNext, FoundOne,
         FoundNone, BadUrl, DialNew, ReportNew, ListNext, ListEnd, Listed, SetAlive,
         RangeStart, RangeNext, RangeEnd, serverPoolVars
    <2> QED BY <1>0, <2>1, <2>2, RoundKept
  <1> QED BY <1>1, <1>2, <1>3

(* Requests and machines leave the pool and the checker alone.             *)
LEMMA RoundOthers ==
    ASSUME RoundInv,
           \/ \E r \in Request : RequestStep(r)
           \/ \E b \in Backend : MachineStep(b)
           \/ UNCHANGED vars
    PROVE  RoundInv'
  <1>1. CASE \E r \in Request : RequestStep(r)
    <2>1. UNCHANGED <<servers, url, hcVars, range>>
      BY <1>1 DEF RequestStep, DispatchStep, Arrive, EnterGetNextPeer, PassOver, Chosen,
         Refused, Assign, GiveUpSlot, Answered, Errored, Cancelled, MarkDown, Relayed,
         Leave, Lock, SkipPeer, ReturnPeer, ReturnNoPeer, AssignRequest, AssignTimeout,
         GiveBackSlot, SetAlive, backendVars, serverPoolVars
    <2> QED BY <2>1, RoundKept
  <1>2. CASE (\E b \in Backend : MachineStep(b)) \/ UNCHANGED vars
    <2>1. UNCHANGED <<servers, url, hcVars, range>>
      BY <1>2 DEF MachineStep, MachineChanges, vars, objectVars, backendVars, serverPoolVars
    <2> QED BY <2>1, RoundKept
  <1> QED BY <1>1, <1>2

-----------------------------------------------------------------------------
(* The strengthened invariant holds at the start.                          *)
LEMMA InitIInv == Init => IInv
  <1> SUFFICES ASSUME Init PROVE IInv
    OBVIOUS
  <1>1. TypeOK
    BY InitTypeOK
  <1>2. PeerKnown /\ \A b \in Backend : At(b) = {}
    BY DEF Init, DispatchInit, PeerKnown, At
  <1>3. CallsKnown
    BY DEF Init, AdminHandlersInit, NoCall, CallsKnown
  <1>4. SlotInv
    <2>1. ASSUME NEW b \in Backend
          PROVE  /\ slots[b] = 0 /\ limit[b] \in Nat
                 /\ url[b] = NoUrl => limit[b] = 0
      BY BackendsAssumption, <1>1 DEF Init, BackendsInit, TypeOK, BackendsTypeOK
    <2> QED BY <1>2, <2>1, FS_EmptySet DEF SlotInv
  <1> QED BY <1>1, <1>2, <1>3, <1>4, InitRoundInv DEF IInv

(* Every step of the balancer keeps the strengthened invariant.            *)
LEMMA NextIInv == IInv /\ [Next]_vars => IInv'
  <1> SUFFICES ASSUME IInv, [Next]_vars PROVE IInv'
    OBVIOUS
  <1>0. TypeOK /\ PeerKnown /\ CallsKnown /\ SlotInv /\ RoundInv /\ BackendsTypeOK
    BY DEF IInv, TypeOK
  <1>1. ASSUME NEW r \in Request, RequestStep(r)
        PROVE  IInv'
    <2>1. CallsKnown'
      BY <1>0, <1>1 DEF RequestStep, CallsKnown, admVars
    <2> QED BY <1>0, <1>1, <2>1, DispatchStepType, PeerKnownStep, SlotStep,
            RoundOthers DEF IInv, RequestStep
  <1>2. CASE HealthStep
    <2>1. PeerKnown' /\ CallsKnown'
      BY <1>0, <1>2 DEF HealthStep, PeerKnown, CallsKnown, admVars
    <2>2. UNCHANGED <<req, slots, limit, url>>
      BY <1>2 DEF HealthStep, Round, Check, Tick, StartChecks, Spawn, AllSpawned,
         ChecksCompleted, Dial, ReportUp, ReportDown, SetAlive, backendVars
    <2> QED BY <1>0, <1>2, <2>1, <2>2, HealthStepType, SlotKept, RoundStep DEF IInv
  <1>3. ASSUME NEW a \in Admin, CallStep(a)
        PROVE  IInv'
    <2>1. PeerKnown'
      BY <1>0, <1>3 DEF CallStep, PeerKnown
    <2>2. CallsKnown'
      BY <1>0, <1>3, CallsKnownStep DEF CallStep
    <2>3. SlotInv'
      <3>1. CASE \E b \in Backend : Create(a, b)
        <4>1. adm[a] \in CallState
          BY <1>0 DEF TypeOK, AdminHandlersTypeOK
        <4>2. PICK b \in Backend : Create(a, b)
          BY <3>1
        <4>3. Parsed[adm[a].url] \in Url /\ adm[a].max \in Nat
          BY <1>0, <4>1, <4>2, AdminHandlersAssumption DEF Create, CallsKnown, CallState
        <4>4. NewBackend(b, Parsed[adm[a].url], adm[a].max) /\ UNCHANGED <<req, slots>>
          BY <1>3, <4>2 DEF Create, CallStep, NewBackend
        <4> QED BY <1>0, <4>3, <4>4, SlotKept
      <3>2. CASE ~\E b \in Backend : Create(a, b)
        <4>1. UNCHANGED <<req, slots, limit, url>>
          BY <1>3, <3>2 DEF CallStep, AdminStep, RunCall, AddCall, RemoveCall, ListCall,
             FindNext, FoundOne, FoundNone, BadUrl, DialNew, ReportNew, SetAlive,
             ListNext, ListEnd, Listed, backendVars
        <4> QED BY <1>0, <4>1, SlotKept
      <3> QED BY <3>1, <3>2
    <2> QED BY <1>0, <1>3, <2>1, <2>2, <2>3, CallStepType, RoundCall DEF IInv
  <1>4. ASSUME NEW b \in Backend, MachineStep(b)
        PROVE  IInv'
    <2>1. PeerKnown' /\ CallsKnown' /\ UNCHANGED <<req, slots, limit, url>>
      BY <1>0, <1>4 DEF MachineStep, MachineChanges, PeerKnown, CallsKnown, admVars, objectVars
    <2> QED BY <1>0, <1>4, <2>1, MachineStepType, SlotKept, RoundOthers DEF IInv
  <1>5. CASE UNCHANGED vars
    <2>1. TypeOK'
      BY <1>0, <1>5 DEF vars, backendVars, serverPoolVars, hcVars, admVars, TypeOK,
         BackendsTypeOK, ServerPoolTypeOK, DispatchTypeOK, HealthCheckerTypeOK,
         AdminHandlersTypeOK
    <2>2. PeerKnown' /\ CallsKnown' /\ UNCHANGED <<req, slots, limit, url>>
      BY <1>0, <1>5 DEF vars, backendVars, admVars, PeerKnown, CallsKnown
    <2> QED BY <1>0, <1>5, <2>1, <2>2, SlotKept, RoundOthers DEF IInv
  <1> QED BY <1>1, <1>2, <1>3, <1>4, <1>5 DEF Next

(* The strengthened invariant holds of every behaviour.                    *)
THEOREM Invariance == Spec => []IInv
  <1> QED BY InitIInv, NextIInv, PTL DEF Spec

(* Every variable of the balancer keeps its type, for any number of        *)
(* requests, backends and administrators.                                  *)
THEOREM TypeCorrect == Spec => []TypeOK
  <1>1. IInv => TypeOK
    BY DEF IInv
  <1> QED BY <1>1, Invariance, PTL

(* No slot of a backend is ever lost or given back twice, and no backend   *)
(* is ever assigned more requests than its limit: backendHandler's         *)
(* AssignRequest and Free, for any number of requests, whatever the        *)
(* checker and the administrators do.                                      *)
THEOREM SlotsAccounted == Spec => []SlotAccounting
  <1>1. IInv => SlotAccounting
    BY DEF IInv, SlotInv, SlotAccounting
  <1> QED BY <1>1, Invariance, PTL

(* The WaitGroup counts exactly the checks of the round, and the process   *)
(* is not ended by a negative one, for any pool, as long as nobody changes *)
(* it: HealthChecker's Add, Done and Wait, whatever requests, machines and *)
(* administrators who only list do.                                        *)
THEOREM EveryCheckCounted == Spec => []ChecksCounted
  <1>1. IInv => ChecksCounted
    BY DEF IInv, RoundInv, ChecksCounted
  <1> QED BY <1>1, Invariance, PTL

-----------------------------------------------------------------------------
(* Implementation of Admission                                             *)

(* Who is inside a room is who is counted at the backend.                  *)
LEMMA InsideIsAt ==
    ASSUME NEW b \in Backend
    PROVE  A!Inside(b) = At(b)
  <1>1. Nobody # b
    BY ServerPoolAssumption
  <1> QED BY <1>1 DEF A!Inside, At, Place

(* The two instances of the module FiniteSets count alike.                 *)
LEMMA SameCardinality ==
    ASSUME NEW S
    PROVE  A!Cardinality(S) = Cardinality(S)
  BY DEF A!Cardinality, Cardinality, A!IsFiniteSet, IsFiniteSet

(* A step of a request is a step of its guest, or none at all.             *)
LEMMA RequestImplements ==
    ASSUME IInv, NEW r \in Request, DispatchStep(r)
    PROVE  A!Next \/ UNCHANGED <<Place, limit>>
  <1>0. /\ req \in [Request -> RequestState] /\ req[r] \in RequestState
        /\ PeerKnown /\ SlotInv /\ BackendsTypeOK
    BY DEF IInv, TypeOK, DispatchTypeOK
  <1>1. \A q \in Request \ {r} : req'[q] = req[q]
    BY <1>0 DEF DispatchStep, Arrive, EnterGetNextPeer, PassOver, Chosen, Refused, Assign,
       GiveUpSlot, Answered, Errored, Cancelled, MarkDown, Relayed, Leave, Goto, Drop
  <1>2. limit' = limit
    BY DEF DispatchStep, Arrive, EnterGetNextPeer, PassOver, Chosen, Refused, Assign,
       AssignRequest, GiveUpSlot, AssignTimeout, Answered, Errored, Cancelled, GiveBackSlot,
       MarkDown, SetAlive, Relayed, Leave, backendVars
  <1>3. CASE Assign(r)
    <2>1. /\ req[r].pc = "assign" /\ req[r].peer \in Backend
          /\ slots[req[r].peer] < limit[req[r].peer]
      BY <1>0, <1>3 DEF Assign, AssignRequest, PeerKnown
    <2>2. req'[r].pc = "sent" /\ req'[r].peer = req[r].peer
      BY <1>0, <1>3 DEF Assign, Goto, RequestState
    <2>3. Place[r] = Nobody /\ Place' = [Place EXCEPT ![r] = req[r].peer]
      BY <1>1, <2>1, <2>2 DEF Place
    <2>4. A!Cardinality(A!Inside(req[r].peer)) < limit[req[r].peer]
      BY <1>0, <2>1, InsideIsAt, SameCardinality DEF SlotInv
    <2>5. A!Enter(r, req[r].peer)
      BY <1>2, <2>3, <2>4 DEF A!Enter
    <2> QED BY <2>1, <2>5 DEF A!Next
  <1>4. CASE Answered(r) \/ Errored(r) \/ Cancelled(r)
    <2>1. req[r].pc = "sent" /\ req[r].peer \in Backend
      BY <1>0, <1>4 DEF Answered, Errored, Cancelled, PeerKnown
    <2>2. req'[r].pc # "sent"
      BY <1>0, <1>4 DEF Answered, Errored, Cancelled, Goto, Drop, RequestState
    <2>3. Place[r] # Nobody /\ Place' = [Place EXCEPT ![r] = Nobody]
      BY <1>1, <2>1, <2>2, ServerPoolAssumption DEF Place
    <2>4. A!Leave(r)
      BY <1>2, <2>3 DEF A!Leave
    <2> QED BY <2>4 DEF A!Next
  <1>5. CASE ~Assign(r) /\ ~(Answered(r) \/ Errored(r) \/ Cancelled(r))
    <2>1. CASE Leave(r)
      <3>1. req'[r].pc = req[r].pc /\ req'[r].peer = req[r].peer
        BY <1>0, <2>1 DEF Leave, RequestState
      <3> QED BY <1>1, <1>2, <3>1 DEF Place
    <2>2. CASE PassOver(r)
      BY <1>2, <2>2 DEF PassOver, Place
    <2>3. CASE ~Leave(r) /\ ~PassOver(r)
      <3> DEFINE Outside == req[r].pc # "sent" /\ req'[r].pc # "sent"
      <3>1. ASSUME Arrive(r) PROVE Outside
        BY <1>0, <3>1 DEF Arrive, Goto, RequestState
      <3>2. ASSUME EnterGetNextPeer(r) PROVE Outside
        BY <1>0, <3>2 DEF EnterGetNextPeer, Goto, RequestState
      <3>3. ASSUME Chosen(r) PROVE Outside
        BY <1>0, <3>3 DEF Chosen, RequestState
      <3>4. ASSUME Refused(r) \/ GiveUpSlot(r) PROVE Outside
        BY <1>0, <3>4 DEF Refused, GiveUpSlot, Drop, RequestState
      <3>5. ASSUME MarkDown(r) \/ Relayed(r) PROVE Outside
        BY <1>0, <3>5 DEF MarkDown, Relayed, Drop, RequestState
      <3>6. Outside
        BY <1>5, <2>3, <3>1, <3>2, <3>3, <3>4, <3>5 DEF DispatchStep
      <3> QED BY <1>1, <1>2, <3>6 DEF Place
    <2> QED BY <2>1, <2>2, <2>3
  <1> QED BY <1>3, <1>4, <1>5

(* A step of an administrator's call furnishes an empty room, or none.     *)
LEMMA CallImplements ==
    ASSUME IInv, NEW a \in Admin, CallStep(a)
    PROVE  A!Next \/ UNCHANGED <<Place, limit>>
  <1>0. TypeOK /\ CallsKnown /\ SlotInv /\ BackendsTypeOK /\ Place' = Place
    BY DEF IInv, TypeOK, CallStep, Place
  <1>1. ASSUME NEW b \in Backend, Create(a, b)
        PROVE  A!Next
    <2>1. adm[a].max \in Nat
      BY <1>0 DEF TypeOK, AdminHandlersTypeOK, CallState
    <2>2. limit' = [limit EXCEPT ![b] = adm[a].max] /\ url[b] = NoUrl
      BY <1>1 DEF Create, NewBackend
    <2>3. A!Inside(b) = {}
      <3>1. IsFiniteSet(At(b)) /\ slots[b] = Cardinality(At(b)) /\ slots[b] <= 0
        BY <1>0, <2>2 DEF SlotInv
      <3>2. Cardinality(At(b)) = 0
        BY <1>0, <3>1 DEF BackendsTypeOK
      <3> QED BY <3>1, <3>2, FS_EmptySet, InsideIsAt
    <2>4. A!Furnish(b)
      BY <1>0, <2>1, <2>2, <2>3 DEF A!Furnish, BackendsTypeOK
    <2> QED BY <2>4 DEF A!Next
  <1>2. CASE ~\E b \in Backend : Create(a, b)
    <2>1. limit' = limit
      BY <1>2 DEF CallStep, AdminStep, RunCall, AddCall, RemoveCall, ListCall,
         FindNext, FoundOne, FoundNone, BadUrl, DialNew, ReportNew, SetAlive,
         ListNext, ListEnd, Listed, backendVars
    <2> QED BY <1>0, <2>1
  <1> QED BY <1>1, <1>2

(* The balancer implements the abstract admission of requests to rooms of  *)
(* fixed size: a request enters a backend only while the backend has a     *)
(* free place, for any number of requests and backends (AssignRequest).    *)
THEOREM ImplementsAdmission == Spec => AdmitsWithinLimits
  <1>1. Init => A!Init
    <2> SUFFICES ASSUME Init PROVE A!Init
      OBVIOUS
    <2>1. Place = [g \in Request |-> Nobody]
      BY DEF Init, DispatchInit, Place
    <2>2. limit \in [Backend -> Nat]
      BY InitTypeOK DEF TypeOK, BackendsTypeOK
    <2> QED BY <2>1, <2>2 DEF A!Init
  <1>2. IInv /\ [Next]_vars => [A!Next]_<<Place, limit>>
    <2> SUFFICES ASSUME IInv, [Next]_vars
                 PROVE  A!Next \/ UNCHANGED <<Place, limit>>
      OBVIOUS
    <2>1. ASSUME NEW r \in Request, RequestStep(r)
          PROVE  A!Next \/ UNCHANGED <<Place, limit>>
      BY <2>1, RequestImplements DEF RequestStep
    <2>2. CASE HealthStep
      <3>1. UNCHANGED <<req, limit>>
        BY <2>2 DEF HealthStep, Round, Check, Tick, StartChecks, Spawn, AllSpawned,
           ChecksCompleted, Dial, ReportUp, ReportDown, SetAlive, backendVars
      <3> QED BY <3>1 DEF Place
    <2>3. ASSUME NEW a \in Admin, CallStep(a)
          PROVE  A!Next \/ UNCHANGED <<Place, limit>>
      BY <2>3, CallImplements
    <2>4. ASSUME NEW b \in Backend, MachineStep(b)
          PROVE  A!Next \/ UNCHANGED <<Place, limit>>
      BY <2>4 DEF MachineStep, MachineChanges, objectVars, Place
    <2>5. CASE UNCHANGED vars
      BY <2>5 DEF vars, backendVars, Place
    <2> QED BY <2>1, <2>2, <2>3, <2>4, <2>5 DEF Next
  <1> QED BY <1>1, <1>2, Invariance, PTL DEF Spec, AdmitsWithinLimits, A!Spec
=============================================================================

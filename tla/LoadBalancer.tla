---------------------------- MODULE LoadBalancer ----------------------------
(***************************************************************************)
(* The running balancer: requests (Dispatch), the health checker, the      *)
(* administrators' calls and the backends' machines, all on one pool.  A   *)
(* panic in a goroutine of the health checker ends the process: no step is *)
(* taken after it.                                                         *)
(***************************************************************************)
EXTENDS Dispatch, HealthChecker, AdminHandlers

ASSUME LoadBalancerAssumption == HC \notin Admin

vars == <<backendVars, serverPoolVars, req, hcVars, admVars>>

TypeOK ==
    /\ BackendsTypeOK
    /\ ServerPoolTypeOK
    /\ DispatchTypeOK
    /\ HealthCheckerTypeOK
    /\ AdminHandlersTypeOK

Init ==
    /\ BackendsInit
    /\ ServerPoolInit
    /\ DispatchInit
    /\ HealthCheckerInit
    /\ AdminHandlersInit

RequestStep(r) == DispatchStep(r) /\ UNCHANGED <<hcVars, admVars>>

HealthStep ==
    /\ Round \/ \E b \in Backend : Check(b)
    /\ UNCHANGED <<req, admVars>>

CallStep(a) == AdminStep(a) /\ UNCHANGED <<req, hcVars>>

MachineStep(b) ==
    /\ MachineChanges(b)
    /\ UNCHANGED <<serverPoolVars, req, hcVars, admVars>>

Next ==
    /\ ~crashed
    /\ \/ \E r \in Request : RequestStep(r)
       \/ HealthStep
       \/ \E a \in Admin : CallStep(a)
       \/ \E b \in Backend : MachineStep(b)

Spec == Init /\ [][Next]_vars

-----------------------------------------------------------------------------
(* Fairness.  The Go scheduler runs every goroutine that can run, the      *)
(* ticker fires, and a dial ends at its timeout: weak fairness of each     *)
(* goroutine.  A sync.Mutex hands itself to a waiter of more than 1 ms, so *)
(* a goroutine that keeps finding it free-and-taken gets it: strong        *)
(* fairness of what takes the mutex.  Nothing is owed for arriving, for    *)
(* leaving, for making a call, or for a machine to change.                 *)

ServeFairly(r) ==
    /\ WF_vars(~crashed /\ Serve(r) /\ UNCHANGED <<hcVars, admVars>>)
    /\ SF_vars(~crashed /\ EnterGetNextPeer(r) /\ UNCHANGED <<hcVars, admVars>>)

CheckFairly(b) ==
    WF_vars(~crashed /\ Check(b) /\ UNCHANGED <<req, admVars>>)

CallFairly(a) ==
    SF_vars(~crashed /\ RunCall(a) /\ UNCHANGED <<req, hcVars>>)

RoundFairly == WF_vars(~crashed /\ Round /\ UNCHANGED <<req, admVars>>)

FairSpec ==
    /\ Spec
    /\ RoundFairly
    /\ \A r \in Request : ServeFairly(r)
    /\ \A b \in Backend : CheckFairly(b)
    /\ \A a \in Admin : CallFairly(a)

-----------------------------------------------------------------------------
(* Safety                                                                  *)

(* The length of a backend's channel is the number of requests that were   *)
(* assigned to it and have not been answered, and never exceeds its        *)
(* capacity: no path of backendHandler, retry and cancellation included,   *)
(* loses a slot or gives one back twice (AssignRequest, Free).             *)
SlotAccounting ==
    \A b \in Backend :
        /\ slots[b] = Cardinality(At(b))
        /\ slots[b] <= limit[b]

(* A request that has left the scan holds a server, so the steps below are *)
(* steps on a backend.                                                     *)
PeerKnown ==
    \A r \in Request :
        req[r].pc \in {"assign", "sent", "relay", "failed"} => req[r].peer \in Backend

(* A call that adds has the address it was given, and, once it has created *)
(* its server, that server.                                                *)
CallsKnown ==
    \A a \in Admin :
        /\ adm[a].pc \in {"dial", "report"} => adm[a].new \in Backend
        /\ adm[a].pc \in {"find", "create"} => adm[a].url \in Url

(* SlotAccounting, strengthened until it is inductive: a channel exists    *)
(* with its object only, and whoever touches one holds a server.           *)
SlotInv ==
    \A b \in Backend :
        /\ IsFiniteSet(At(b))
        /\ slots[b] = Cardinality(At(b))
        /\ slots[b] <= limit[b]
        /\ url[b] = NoUrl => limit[b] = 0

(* Nobody has added or removed a server.  Objects are never reused, so a   *)
(* pool that looks as configured again after changes has new objects.      *)
PoolUntouched == servers = Boot /\ Allocated = BootBackends

(* The WaitGroup of the checker counts exactly the checks still to come or *)
(* to report, so a round neither ends early nor hangs nor panics, whatever *)
(* requests do to the flags meanwhile, as long as nobody has changed the   *)
(* pool (HealthChecker).                                                   *)
ChecksCounted == PoolUntouched => ~crashed /\ wg = Outstanding

(* ChecksCounted, strengthened until it is inductive: the range loop never *)
(* goes beyond what it ranges over, and a pool without new objects is only *)
(* ever shorter than the configured one, so one that has been changed does *)
(* not come back.                                                          *)
RoundInv ==
    /\ BootBackends \subseteq Allocated
    /\ Allocated = BootBackends => Len(servers) <= Len(Boot)
    /\ PoolUntouched =>
         /\ ~crashed
         /\ IsFiniteSet(Units(Running))
         /\ wg = Outstanding
         /\ hcPc = "spawn" => range[HC].pos <= Len(range[HC].view)

IInv == TypeOK /\ PeerKnown /\ CallsKnown /\ SlotInv /\ RoundInv

(* The balancer keeps the promise of Admission: where a request is shows   *)
(* in its own state only, and the channel lengths never let it enter a     *)
(* backend that is full (backendHandler implements Admission!Spec).        *)
Place == [r \in Request |-> IF req[r].pc = "sent" THEN req[r].peer ELSE Nobody]

A == INSTANCE Admission WITH
        Guest <- Request, Room <- Backend, Outside <- Nobody,
        place <- Place, capacity <- limit

AdmitsWithinLimits == A!Spec

(* adminHandlers.go:37-38: a server that already exists is not added.      *)
NoServerTwice ==
    \A i, j \in DOMAIN servers : url[servers[i]] = url[servers[j]] => i = j

(* adminHandlers.go:47-48: a limit that is zero or below is refused.       *)
PositiveLimits == \A b \in Pool : limit[b] > 0

(* README.md:25: maximalRequests is how many requests can be processed on  *)
(* the backend at the same time; one whose body is still being read from   *)
(* it is being processed.                                                  *)
LimitOfWork == \A b \in Backend : Cardinality(Open(b)) <= limit[b]

(* README.md:73: a backend is marked not alive if it does not answer or    *)
(* returns 5xx, so a request only fails on it for that.                    *)
FailedByBackend ==
    [][\A r \in Request :
         (req[r].pc = "sent" /\ req'[r].pc = "failed") => BackendFault(r)]_vars

(* adminHandlers.go:103: GetServersHandler takes all the information about *)
(* the backends from the pool.  A configured server that is still there    *)
(* when the listing ends was there all the time.                           *)
ListShowsEveryServer ==
    \A a \in Admin : adm[a].pc = "listed" =>
        BootBackends \cap Pool \subseteq {adm[a].list[i] : i \in DOMAIN adm[a].list}

-----------------------------------------------------------------------------
(* Liveness                                                                *)

\* From some time on no machine stops or starts any more.
MachinesSettle == <>[][UNCHANGED up]_up

(* Every request is answered, refused or dropped by its own client, once   *)
(* the machines settle: the goto ChooseServer loop of backendHandler ends, *)
(* however the checker, the administrators and other requests interleave.  *)
EveryRequestEnds ==
    MachinesSettle => \A r \in Request : Active(r) ~> (req[r].pc = "done")

(* A pool nobody changes, before what RoundsGoOn tells has happened        *)
PoolKept == [](servers = Boot)

(* A server that stays up is alive again and again, whatever requests held *)
(* against it: the checker's rounds never stop (HealthChecker).            *)
RevivedEventually ==
    \A b \in BootBackends : PoolKept /\ <>[]up[b] => []<>alive[b]

(* A server that stays down is in the end marked so for good: no stale     *)
(* verdict of a check revives it for ever (healthCheckFunc, SetAlive).     *)
DownDetected ==
    \A b \in BootBackends : PoolKept /\ <>[]~up[b] => <>[]~alive[b]

(* A removed server is in the end free of requests, and stays so, though   *)
(* requests that chose it before the removal may still be sent to it       *)
(* after it (RemoveServerByUrl, backendHandler).                           *)
RemovedServerDrains ==
    \A b \in Backend : (b \in Allocated \ Pool) ~> [](Open(b) = {})

(* README.md:41: healthCheckPeriod is a period of checking if all the      *)
(* backends are alive: a round begins again and again, whatever is added   *)
(* to or removed from the pool while one is being counted (HealthChecker). *)
RoundsGoOn == []<>(hcPc = "ranging")
=============================================================================

--------------------------- MODULE HealthChecker ----------------------------
(***************************************************************************)
(* lb/loadBalancer.go, HealthChecker, with the healthCheckFunc of main.go: *)
(* each tick adds the length of the pool to a WaitGroup, then ranges over  *)
(* the pool and starts one goroutine per element, then waits for all of    *)
(* them.  Neither reading of the pool holds its mutex.                     *)
(***************************************************************************)
EXTENDS ServerPool, Totals

CONSTANT HC    \* the health checker's goroutine, as a reader of the pool

ASSUME HealthCheckerAssumption == HC \in Reader

VARIABLES
    hcPc,     \* where the loop is: at <-ticker.C, before or in the range
              \* loop, or at wg.Wait()
    wg,       \* the WaitGroup's counter
    dialing,  \* for each backend, the checks that are still dialling
    passed,   \* the checks whose dial succeeded, about to SetAlive(true)
    failed,   \* the checks whose dial failed, about to SetAlive(false)
    crashed   \* the process has died of a panic nobody recovers

hcVars == <<hcPc, wg, dialing, passed, failed, crashed>>

HealthCheckerTypeOK ==
    /\ hcPc \in {"tick", "ranging", "spawn", "wait"}
    /\ wg \in Int
    /\ dialing \in [Backend -> Nat]
    /\ passed \in [Backend -> Nat]
    /\ failed \in [Backend -> Nat]
    /\ crashed \in BOOLEAN

HealthCheckerInit ==
    /\ hcPc = "tick"
    /\ wg = 0
    /\ dialing = [b \in Backend |-> 0]
    /\ passed = [b \in Backend |-> 0]
    /\ failed = [b \in Backend |-> 0]
    /\ crashed = FALSE

-----------------------------------------------------------------------------
Tick ==
    /\ hcPc = "tick"
    /\ wg' = wg + Len(servers)
    /\ hcPc' = "ranging"
    /\ UNCHANGED <<dialing, passed, failed, crashed, backendVars, serverPoolVars>>

\* The range statement evaluates Servers() again.
StartChecks ==
    /\ hcPc = "ranging"
    /\ RangeStart(HC)
    /\ hcPc' = "spawn"
    /\ UNCHANGED <<wg, dialing, passed, failed, crashed, backendVars>>

Spawn ==
    /\ hcPc = "spawn"
    /\ RangeNext(HC)
    /\ dialing' = [dialing EXCEPT ![RangeElement(HC)] = @ + 1]
    /\ UNCHANGED <<hcPc, wg, passed, failed, crashed, backendVars>>

AllSpawned ==
    /\ hcPc = "spawn"
    /\ ~MoreToRange(HC)
    /\ RangeEnd(HC)
    /\ hcPc' = "wait"
    /\ UNCHANGED <<wg, dialing, passed, failed, crashed, backendVars>>

\* wg.Wait() returns
ChecksCompleted ==
    /\ hcPc = "wait"
    /\ wg = 0
    /\ hcPc' = "tick"
    /\ UNCHANGED <<wg, dialing, passed, failed, crashed, backendVars, serverPoolVars>>

-----------------------------------------------------------------------------
(* One goroutine: healthCheckFunc dials, then writes the flag; wg.Done.    *)

Dial(b) ==
    /\ dialing[b] > 0
    /\ dialing' = [dialing EXCEPT ![b] = @ - 1]
    /\ IF CheckIfAlive(b)
       THEN passed' = [passed EXCEPT ![b] = @ + 1] /\ UNCHANGED failed
       ELSE failed' = [failed EXCEPT ![b] = @ + 1] /\ UNCHANGED passed
    /\ UNCHANGED <<hcPc, wg, crashed, backendVars, serverPoolVars>>

\* wg.Done panics below zero.
Done ==
    /\ wg' = wg - 1
    /\ crashed' = (wg = 0)

\* Faulty variant: nothing to do for a server that is alive already.
ReportUpIfNews(b) ==
    /\ passed[b] > 0
    /\ passed' = [passed EXCEPT ![b] = @ - 1]
    /\ IF alive[b] THEN UNCHANGED <<backendVars, wg, crashed>> ELSE SetAlive(b, TRUE) /\ Done
    /\ UNCHANGED <<hcPc, dialing, failed, serverPoolVars>>

\* Faulty variant: the check only ever marks a server down.
ReportUpIgnored(b) ==
    /\ passed[b] > 0
    /\ passed' = [passed EXCEPT ![b] = @ - 1]
    /\ Done
    /\ UNCHANGED <<hcPc, dialing, failed, backendVars, serverPoolVars>>

ReportUp(b) ==
    /\ passed[b] > 0
    /\ passed' = [passed EXCEPT ![b] = @ - 1]
    /\ SetAlive(b, TRUE)
    /\ Done
    /\ UNCHANGED <<hcPc, dialing, failed, serverPoolVars>>

\* Faulty variant: marking a server down is left to the requests.
ReportDownIgnored(b) ==
    /\ failed[b] > 0
    /\ failed' = [failed EXCEPT ![b] = @ - 1]
    /\ Done
    /\ UNCHANGED <<hcPc, dialing, passed, backendVars, serverPoolVars>>

ReportDown(b) ==
    /\ failed[b] > 0
    /\ failed' = [failed EXCEPT ![b] = @ - 1]
    /\ SetAlive(b, FALSE)
    /\ Done
    /\ UNCHANGED <<hcPc, dialing, passed, serverPoolVars>>

\* The checks of the running round that have not been started yet
ToStart ==
    CASE hcPc = "ranging" -> Len(servers)
      [] hcPc = "spawn"   -> Len(range[HC].view) - range[HC].pos
      [] OTHER            -> 0

\* For each backend, the checks that have been started and have not reported
Running == [b \in Backend |-> dialing[b] + passed[b] + failed[b]]

\* All that have not been counted down
Outstanding == ToStart + Total(Running)

\* What the checker does on its own, and what each of its goroutines does
Round == Tick \/ StartChecks \/ Spawn \/ AllSpawned \/ ChecksCompleted

Check(b) == Dial(b) \/ ReportUp(b) \/ ReportDown(b)
=============================================================================

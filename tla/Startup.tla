------------------------------ MODULE Startup ------------------------------
(***************************************************************************)
(* main.go from the first round of checks to metrics.Init, the goroutines  *)
(* it has started by then, and what the handlers count in the metrics.     *)
(* Requests are served from http.Serve on, the cleaner works from before   *)
(* it, and both use metrics.GlobalMetrics, which is nil until metrics.Init *)
(* has run.                                                                *)
(*                                                                         *)
(* How a server is chosen and how an attempt ends are Dispatch's matter,   *)
(* pages are CacheStore's, and users Accounts'; here a request takes any   *)
(* place of a server that is alive.                                        *)
(***************************************************************************)
EXTENDS Integers, FiniteSets

CONSTANTS
    Server, Request,
    Limit,          \* maximalRequests of each server
    Overfull,       \* the cache found on the disk is above its fill limit
    NoServer,
    NoMetrics,      \* GlobalMetrics is nil
    MaxAttempts     \* bound: the attempts of a request

Gauges == [requestsNow : Nat, requests : Nat, requestsByCache : Nat]

ASSUME StartupAssumption ==
    /\ IsFiniteSet(Server)
    /\ IsFiniteSet(Request)
    /\ Limit \in Nat
    /\ Overfull \in BOOLEAN
    /\ NoServer \notin Server
    /\ NoMetrics \notin Gauges
    /\ MaxAttempts \in Nat \ {0}

VARIABLES
    main,       \* how far main is
    wg,         \* the WaitGroup of the first round
    first,      \* the goroutine of each first check
    alive,      \* the flag of each server
    slots,      \* the length of each server's channel
    metrics,    \* GlobalMetrics
    handler     \* the goroutine of each request

processVars == <<main, wg, first>>

vars == <<processVars, alive, slots, metrics, handler>>

Stage == {"checks", "configure", "serving", "running", "stopped", "crashed"}

Handler == [pc : {"idle", "lookup", "choose", "count", "send", "return", "done", "panicked"},
            at : Server \cup {NoServer},    \* whose slot it holds
            attempts : 0 .. MaxAttempts,    \* the deferred calls it has piled up
            early : BOOLEAN]                \* it came before metrics.Init

TypeOK ==
    /\ main \in Stage
    /\ wg \in Nat
    /\ first \in [Server -> {"check", "report", "ended"}]
    /\ alive \in [Server -> BOOLEAN]
    /\ slots \in [Server -> 0 .. Limit]
    /\ metrics \in Gauges \cup {NoMetrics}
    /\ handler \in [Request -> Handler]

Init ==
    /\ main = "checks"
    /\ wg = Cardinality(Server)
    /\ first = [b \in Server |-> "check"]
    /\ alive = [b \in Server |-> FALSE]
    /\ slots = [b \in Server |-> 0]
    /\ metrics = NoMetrics
    /\ handler = [r \in Request |->
                     [pc |-> "idle", at |-> NoServer, attempts |-> 0, early |-> FALSE]]

-----------------------------------------------------------------------------
(* main                                                                    *)

\* loadBalancer.HealthCheckFunc()(server): the dial has a timeout.
FirstCheck(b) ==
    /\ first[b] = "check"
    /\ first' = [first EXCEPT ![b] = "report"]
    /\ \E answers \in BOOLEAN : alive' = [alive EXCEPT ![b] = answers]
    /\ UNCHANGED <<main, wg, slots, metrics, handler>>

\* Faulty variant: only a server that is alive is reported.
DoneIfAlive(b) ==
    /\ first[b] = "report"
    /\ alive[b]
    /\ first' = [first EXCEPT ![b] = "ended"]
    /\ wg' = wg - 1
    /\ UNCHANGED <<main, alive, slots, metrics, handler>>

FirstDone(b) ==
    /\ first[b] = "report"
    /\ first' = [first EXCEPT ![b] = "ended"]
    /\ wg' = wg - 1
    /\ UNCHANGED <<main, alive, slots, metrics, handler>>

Become(stage) ==
    /\ main' = stage
    /\ UNCHANGED <<wg, first, alive, slots, handler>>

\* Faulty variant: the first round is not waited for.
ChecksStarted ==
    /\ main = "checks"
    /\ Become("configure")
    /\ UNCHANGED metrics

\* wg.Wait, go HealthChecker(), go Observe()
ChecksAwaited ==
    /\ main = "checks"
    /\ wg = 0
    /\ Become("configure")
    /\ UNCHANGED metrics

\* A missing setting, certificate or port ends the process: logger.Fatal.
Fatal ==
    /\ main = "configure"
    /\ Become("stopped")
    /\ UNCHANGED metrics

\* go http.Serve(ln, nil)
Serve ==
    /\ main = "configure"
    /\ Become("serving")
    /\ UNCHANGED metrics

\* metrics.Init
InitMetrics ==
    /\ main = "serving"
    /\ Become("running")
    /\ metrics' = [requestsNow |-> 0, requests |-> 0, requestsByCache |-> 0]

Launched == main \in {"configure", "serving", "running"}

Serving == main \in {"serving", "running"}

\* The HealthChecker's goroutines set the flags.
Recheck(b) ==
    /\ Launched
    /\ \E answers \in BOOLEAN : alive' = [alive EXCEPT ![b] = answers]
    /\ UNCHANGED <<processVars, slots, metrics, handler>>

\* The ticker of Observe runs since before the first round.  The first page
\* it removes is counted in the metrics; nobody recovers a panic there.
CleanEarly ==
    /\ Overfull
    /\ Launched
    /\ metrics = NoMetrics
    /\ Become("crashed")
    /\ UNCHANGED metrics

-----------------------------------------------------------------------------
(* The handlers, until the process is gone.  A panic is recovered by       *)
(* net/http: the request is over, and what it holds it keeps.              *)

Goto(r, label) == handler' = [handler EXCEPT ![r].pc = label]

At(r, label) == Serving /\ handler[r].pc = label

\* A panic if the metrics are nil; otherwise they change to m, and r goes on.
Count(r, m, h) ==
    IF metrics = NoMetrics
    THEN Goto(r, "panicked") /\ UNCHANGED metrics
    ELSE metrics' = m /\ handler' = [handler EXCEPT ![r] = h]

Accept(r) ==
    /\ At(r, "idle")
    /\ handler' = [handler EXCEPT ![r].pc = "lookup", ![r].early = metrics = NoMetrics]
    /\ UNCHANGED <<processVars, alive, slots, metrics>>

\* UpdateResponseBodySize after the page has been written, RequestsByCache
Hit(r) ==
    /\ At(r, "lookup")
    /\ Count(r, [metrics EXCEPT !.requestsByCache = @ + 1], [handler[r] EXCEPT !.pc = "return"])
    /\ UNCHANGED <<processVars, alive, slots>>

Miss(r) ==
    /\ At(r, "lookup")
    /\ Goto(r, "choose")
    /\ UNCHANGED <<processVars, alive, slots, metrics>>

\* An HTTP version that is not supported, or nothing in the cache for a
\* request that is only-if-cached: an error, and no backend is asked.
Rejected(r) ==
    /\ At(r, "lookup")
    /\ Goto(r, "return")
    /\ UNCHANGED <<processVars, alive, slots, metrics>>

Refused(r) ==
    /\ At(r, "choose")
    /\ \A b \in Server : ~alive[b]
    /\ Goto(r, "return")
    /\ UNCHANGED <<processVars, alive, slots, metrics>>

AssignRequest(r, b) ==
    /\ At(r, "choose")
    /\ alive[b]
    /\ slots[b] < Limit
    /\ slots' = [slots EXCEPT ![b] = @ + 1]
    /\ handler' = [handler EXCEPT ![r].pc = "count", ![r].at = b]
    /\ UNCHANGED <<processVars, alive, metrics>>

\* RequestsNow.Inc, and the two deferred calls
CountAttempt(r) ==
    /\ At(r, "count")
    /\ handler[r].attempts < MaxAttempts
    /\ Count(r, [metrics EXCEPT !.requestsNow = @ + 1],
                [handler[r] EXCEPT !.pc = "send", !.attempts = @ + 1])
    /\ UNCHANGED <<processVars, alive, slots>>

Free(r) == slots' = [slots EXCEPT ![handler[r].at] = @ - 1]

\* The backend has answered or the client has gone.
Ended(r) ==
    /\ At(r, "send")
    /\ Free(r)
    /\ handler' = [handler EXCEPT ![r].pc = "return", ![r].at = NoServer]
    /\ UNCHANGED <<processVars, alive, metrics>>

\* Faulty variant: a retry lowers the gauge, and so does the deferred call.
FailedLowersGauge(r) ==
    /\ At(r, "send")
    /\ handler[r].attempts < MaxAttempts
    /\ Free(r)
    /\ alive' = [alive EXCEPT ![handler[r].at] = FALSE]
    /\ handler' = [handler EXCEPT ![r].pc = "choose", ![r].at = NoServer]
    /\ metrics' = [metrics EXCEPT !.requestsNow = @ - 1]
    /\ UNCHANGED processVars

\* Faulty variant: the slot is given back only where the handler returns.
FailedKeepsSlot(r) ==
    /\ At(r, "send")
    /\ handler[r].attempts < MaxAttempts
    /\ alive' = [alive EXCEPT ![handler[r].at] = FALSE]
    /\ handler' = [handler EXCEPT ![r].pc = "choose", ![r].at = NoServer]
    /\ UNCHANGED <<processVars, slots, metrics>>

\* Another server is chosen; the deferred calls stay for the return.
Failed(r) ==
    /\ At(r, "send")
    /\ handler[r].attempts < MaxAttempts
    /\ Free(r)
    /\ alive' = [alive EXCEPT ![handler[r].at] = FALSE]
    /\ handler' = [handler EXCEPT ![r].pc = "choose", ![r].at = NoServer]
    /\ UNCHANGED <<processVars, metrics>>

\* The deferred calls, then FullTripTime and RequestBodySize
Return(r) ==
    /\ At(r, "return")
    /\ Count(r, [metrics EXCEPT !.requestsNow = @ - handler[r].attempts,
                                !.requests = @ + handler[r].attempts],
                [handler[r] EXCEPT !.pc = "done"])
    /\ UNCHANGED <<processVars, alive, slots>>

HandlerStep(r) ==
    \/ Accept(r) \/ Hit(r) \/ Miss(r) \/ Rejected(r) \/ Refused(r)
    \/ \E b \in Server : AssignRequest(r, b)
    \/ CountAttempt(r) \/ Ended(r) \/ Failed(r) \/ Return(r)

MainStep == ChecksAwaited \/ Fatal \/ Serve \/ InitMetrics

FirstRound(b) == FirstCheck(b) \/ FirstDone(b)

Next ==
    \/ MainStep
    \/ \E b \in Server : FirstRound(b) \/ Recheck(b)
    \/ CleanEarly
    \/ \E r \in Request : HandlerStep(r)

\* main and the goroutines of the first round run; nothing else is owed.
Spec == /\ Init /\ [][Next]_vars
        /\ WF_vars(MainStep)
        /\ \A b \in Server : WF_vars(FirstRound(b))

-----------------------------------------------------------------------------
(* main.go:173-186: whatever the servers answer and in which order, the    *)
(* first round ends, and main either gets the balancer running or ends.    *)
ComesUp == <>(main \in {"running", "stopped", "crashed"})

(* main.go:186, 283: no request chooses among servers one of which has not *)
(* been checked, so none is refused because a flag still has the value it  *)
(* was created with.                                                       *)
ServedOnlyChecked ==
    \A r \in Request : handler[r].pc # "idle" => \A b \in Server : first[b] # "check"

Holding(b) == {r \in Request : handler[r].at = b /\ handler[r].pc # "panicked"}

LostAt(b) == {r \in Request : handler[r].at = b /\ handler[r].pc = "panicked"}

(* lbHandlers.go:94-108, main.go:296: a slot that no request is using was  *)
(* lost to a request that came before metrics.Init; failures, retries,     *)
(* refusals and panics of requests that came later lose none.              *)
OnlyEarlyRequestsLoseSlots ==
    \A b \in Server :
        /\ slots[b] = Cardinality(Holding(b)) + Cardinality(LostAt(b))
        /\ \A r \in LostAt(b) : handler[r].early

\* The attempts of those requests: the first, the second, ...
Attempts(requests) ==
    {a \in requests \X (1 .. MaxAttempts) : a[2] <= handler[a[1]].attempts}

Unreturned == {r \in Request : handler[r].pc # "done"}

(* lbHandlers.go:98-100: every attempt is counted once: in RequestsNow     *)
(* until its handler returns, by whatever way, and in Requests from then   *)
(* on, so that RequestsNow is 0 whenever nobody is being served.           *)
AttemptsCounted ==
    metrics # NoMetrics =>
        /\ metrics.requestsNow = Cardinality(Attempts(Unreturned))
        /\ metrics.requests = Cardinality(Attempts(Request \ Unreturned))

-----------------------------------------------------------------------------
(* The parts of the invariant that implies these                           *)

\* wg counts the first checks that have not ended, and until they have nobody
\* is served.
NotEnded == {b \in Server : first[b] # "ended"}

FirstRoundCounted ==
    /\ wg = Cardinality(NotEnded)
    /\ main # "checks" => \A b \in Server : first[b] = "ended"
    /\ main = "checks" => \A r \in Request : handler[r].pc = "idle"

Keeping(b) == {r \in Request : handler[r].at = b}

SlotsHeld == \A b \in Server : slots[b] = Cardinality(Keeping(b))

\* Who has a slot is between AssignRequest and Free, or panicked there.
HoldersKnown ==
    \A r \in Request :
        /\ handler[r].pc \in {"count", "send"} => handler[r].at \in Server
        /\ handler[r].pc \notin {"count", "send", "panicked"} => handler[r].at = NoServer

\* Without metrics nobody gets as far as an attempt, and only then anybody
\* panics.
EarlyKnown ==
    /\ main \in {"checks", "configure", "serving"} => metrics = NoMetrics
    /\ metrics = NoMetrics => \A r \in Request : handler[r].attempts = 0
    /\ \A r \in Request :
          \/ handler[r].pc = "panicked"
          \/ metrics = NoMetrics /\ handler[r].pc # "idle"
          => handler[r].early

IInv ==
    /\ TypeOK /\ FirstRoundCounted /\ SlotsHeld /\ HoldersKnown /\ EarlyKnown
    /\ AttemptsCounted
=============================================================================

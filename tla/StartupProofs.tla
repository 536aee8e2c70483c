--------------------------- MODULE StartupProofs ---------------------------
(***************************************************************************)
(* What Startup checks on two servers and two requests, for every number   *)
(* of either, every limit and every number of attempts.                    *)
(***************************************************************************)
EXTENDS Startup, FiniteSetTheorems, TLAPS

(* A step of a handler changes its own state and nothing of main's.        *)
LEMMA HandlerForm ==
    ASSUME IInv, NEW r \in Request, HandlerStep(r)
    PROVE  \E h \in Handler :
               /\ handler' = [handler EXCEPT ![r] = h]
               /\ h.pc # "idle"
               /\ UNCHANGED processVars /\ Serving
<1>0. handler \in [Request -> Handler] /\ handler[r] \in Handler /\ MaxAttempts \in Nat
    BY StartupAssumption DEF IInv, TypeOK
<1>1. CASE Accept(r)
    <2> DEFINE h == [handler[r] EXCEPT !.pc = "lookup", !.early = metrics = NoMetrics]
    <2>1. h \in Handler /\ h.pc = "lookup"
        BY <1>0 DEF Handler
    <2>2. handler' = [handler EXCEPT ![r] = h] /\ UNCHANGED processVars /\ Serving
        BY <1>0, <1>1 DEF Accept, At
    <2> QED
        BY <2>1, <2>2
<1>2. ASSUME NEW label \in {"choose", "return", "panicked"}, Goto(r, label),
             UNCHANGED processVars, Serving
      PROVE  \E h \in Handler :
                 /\ handler' = [handler EXCEPT ![r] = h]
                 /\ h.pc # "idle"
                 /\ UNCHANGED processVars /\ Serving
    <2> DEFINE h == [handler[r] EXCEPT !.pc = label]
    <2>1. h \in Handler /\ h.pc = label
        BY <1>0 DEF Handler
    <2>2. handler' = [handler EXCEPT ![r] = h]
        BY <1>0, <1>2 DEF Goto
    <2> QED
        BY <1>2, <2>1, <2>2
<1>3. CASE Miss(r) \/ Rejected(r) \/ Refused(r)
    BY <1>2, <1>3 DEF Miss, Rejected, Refused, At
<1>4. ASSUME NEW b \in Server, AssignRequest(r, b)
      PROVE  \E h \in Handler :
                 /\ handler' = [handler EXCEPT ![r] = h]
                 /\ h.pc # "idle"
                 /\ UNCHANGED processVars /\ Serving
    <2> DEFINE h == [handler[r] EXCEPT !.pc = "count", !.at = b]
    <2>1. h \in Handler /\ h.pc = "count"
        BY <1>0 DEF Handler
    <2>2. handler' = [handler EXCEPT ![r] = h] /\ UNCHANGED processVars /\ Serving
        BY <1>0, <1>4 DEF AssignRequest, At
    <2> QED
        BY <2>1, <2>2
<1>5. CASE Ended(r) \/ Failed(r)
    <2>1. PICK label \in {"return", "choose"} :
              /\ handler' = [handler EXCEPT ![r].pc = label, ![r].at = NoServer]
              /\ UNCHANGED processVars /\ Serving
        BY <1>5 DEF Ended, Failed, At
    <2> DEFINE h == [handler[r] EXCEPT !.pc = label, !.at = NoServer]
    <2>2. h \in Handler /\ h.pc = label
        BY <1>0 DEF Handler
    <2>3. handler' = [handler EXCEPT ![r] = h]
        BY <1>0, <2>1
    <2> QED
        BY <2>1, <2>2, <2>3
<1>6. ASSUME NEW m, NEW h \in Handler, h.pc # "idle", Count(r, m, h),
             UNCHANGED processVars, Serving
      PROVE  \E g \in Handler :
                 /\ handler' = [handler EXCEPT ![r] = g]
                 /\ g.pc # "idle"
                 /\ UNCHANGED processVars /\ Serving
    BY <1>2, <1>6 DEF Count
<1>7. CASE Hit(r)
    <2> DEFINE h == [handler[r] EXCEPT !.pc = "return"]
               m == [metrics EXCEPT !.requestsByCache = @ + 1]
    <2>1. h \in Handler /\ h.pc = "return"
        BY <1>0 DEF Handler
    <2>2. Count(r, m, h) /\ UNCHANGED processVars /\ Serving
        BY <1>7 DEF Hit, At
    <2> HIDE DEF h, m
    <2> QED
        BY <1>6, <2>1, <2>2
<1>8. CASE CountAttempt(r)
    <2> DEFINE h == [handler[r] EXCEPT !.pc = "send", !.attempts = @ + 1]
               m == [metrics EXCEPT !.requestsNow = @ + 1]
    <2>1. handler[r].attempts + 1 \in 0 .. MaxAttempts
        BY <1>0, <1>8 DEF CountAttempt, Handler
    <2>2. h \in Handler /\ h.pc = "send"
        BY <1>0, <2>1 DEF Handler
    <2>3. Count(r, m, h) /\ UNCHANGED processVars /\ Serving
        BY <1>8 DEF CountAttempt, At
    <2> HIDE DEF h, m
    <2> QED
        BY <1>6, <2>2, <2>3
<1>9. CASE Return(r)
    <2>1. [handler[r] EXCEPT !.pc = "done"] \in Handler
        BY <1>0 DEF Handler
    <2> QED
        BY <1>0, <1>6, <1>9, <2>1 DEF Return, At, Handler
<1> QED
    BY <1>1, <1>3, <1>4, <1>5, <1>7, <1>8, <1>9 DEF HandlerStep

-----------------------------------------------------------------------------
(* The first round                                                         *)

LEMMA RoundStep ==
    ASSUME IInv, Next
    PROVE  /\ main' \in Stage /\ wg' \in Nat
           /\ first' \in [Server -> {"check", "report", "ended"}]
           /\ FirstRoundCounted'
<1>0. /\ main \in Stage /\ wg \in Nat /\ FirstRoundCounted
      /\ first \in [Server -> {"check", "report", "ended"}]
      /\ IsFiniteSet(NotEnded)
    BY FS_Subset, StartupAssumption DEF IInv, TypeOK, NotEnded
<1>1. CASE MainStep \/ CleanEarly
    <2>1. UNCHANGED <<wg, first, handler>> /\ main' \in Stage \ {"checks"}
        BY <1>1 DEF MainStep, ChecksAwaited, Fatal, Serve, InitMetrics, CleanEarly,
           Become, Stage
    <2>2. \A b \in Server : first[b] = "ended"
        <3>1. CASE main # "checks"
            BY <1>0, <3>1 DEF FirstRoundCounted
        <3>2. CASE main = "checks"
            <4>1. wg = 0
                BY <1>1, <3>2 DEF MainStep, ChecksAwaited, Fatal, Serve, InitMetrics,
                   CleanEarly, Launched
            <4> QED
                BY <1>0, <4>1, FS_EmptySet DEF FirstRoundCounted, NotEnded
        <3> QED
            BY <3>1, <3>2
    <2>3. NotEnded' = NotEnded
        BY <2>1 DEF NotEnded
    <2> QED
        BY <1>0, <2>1, <2>2, <2>3 DEF FirstRoundCounted
<1>2. ASSUME NEW b \in Server, FirstCheck(b)
      PROVE  /\ first' \in [Server -> {"check", "report", "ended"}]
             /\ UNCHANGED <<main, wg, handler>> /\ FirstRoundCounted'
    <2>1. /\ first[b] = "check" /\ first' = [first EXCEPT ![b] = "report"]
          /\ UNCHANGED <<main, wg, handler>>
        BY <1>2 DEF FirstCheck
    <2>2. NotEnded' = NotEnded
        BY <1>0, <2>1 DEF NotEnded
    <2> QED
        BY <1>0, <2>1, <2>2 DEF FirstRoundCounted
<1>3. ASSUME NEW b \in Server, FirstDone(b)
      PROVE  /\ first' \in [Server -> {"check", "report", "ended"}]
             /\ wg' \in Nat /\ UNCHANGED <<main, handler>> /\ FirstRoundCounted'
    <2>1. /\ first[b] = "report" /\ first' = [first EXCEPT ![b] = "ended"]
          /\ wg' = wg - 1 /\ UNCHANGED <<main, handler>>
        BY <1>3 DEF FirstDone
    <2>2. NotEnded' = NotEnded \ {b} /\ b \in NotEnded
        BY <1>0, <2>1 DEF NotEnded
    <2>3. /\ IsFiniteSet(NotEnded')
          /\ Cardinality(NotEnded') = Cardinality(NotEnded) - 1
        BY <1>0, <2>2, FS_RemoveElement
    <2>4. Cardinality(NotEnded') \in Nat
        BY <2>3, FS_CardinalityType
    <2> QED
        BY <1>0, <2>1, <2>3, <2>4 DEF FirstRoundCounted
<1>4. ASSUME NEW b \in Server, Recheck(b)
      PROVE  UNCHANGED <<processVars, handler>>
    BY <1>4 DEF Recheck
<1>5. ASSUME NEW r \in Request, HandlerStep(r)
      PROVE  UNCHANGED processVars /\ main # "checks"
    BY <1>5, HandlerForm DEF Serving
<1>6. CASE UNCHANGED processVars /\ (main # "checks" \/ UNCHANGED handler)
    BY <1>0, <1>6 DEF processVars, FirstRoundCounted, NotEnded
<1> QED
    BY <1>0, <1>1, <1>2, <1>3, <1>4, <1>5, <1>6 DEF Next, FirstRound, FirstRoundCounted,
       MainStep, CleanEarly, ChecksAwaited, Fatal, Serve, InitMetrics, Become, Stage

-----------------------------------------------------------------------------
(* The slots                                                               *)

\* The steps of handlers that take a slot or give it back
Frees(r) == Ended(r) \/ Failed(r)

Takes(r) == \E b \in Server : AssignRequest(r, b)

(* Every other step leaves who has a slot alone.                           *)
LEMMA SlotsUntouched ==
    ASSUME IInv, Next, \A r \in Request : ~Takes(r) /\ ~Frees(r)
    PROVE  /\ UNCHANGED slots
           /\ \A r \in Request : handler'[r].at = handler[r].at
<1>0. handler \in [Request -> Handler]
    BY DEF IInv, TypeOK
<1>1. CASE MainStep \/ CleanEarly \/ \E b \in Server : FirstRound(b) \/ Recheck(b)
    BY <1>1 DEF MainStep, ChecksAwaited, Fatal, Serve, InitMetrics, CleanEarly, Become,
       FirstRound, FirstCheck, FirstDone, Recheck
<1>2. ASSUME NEW r \in Request, HandlerStep(r)
      PROVE  UNCHANGED slots /\ \A q \in Request : handler'[q].at = handler[q].at
    <2>1. UNCHANGED slots
        BY <1>2 DEF HandlerStep, Accept, Hit, Miss, Rejected, Refused, CountAttempt,
           Return, Takes, Frees
    <2>2. ASSUME NEW label, Goto(r, label)
          PROVE  \A q \in Request : handler'[q].at = handler[q].at
        BY <1>0, <2>2 DEF Goto, Handler
    <2>3. ASSUME NEW m, NEW h, Count(r, m, h), h.at = handler[r].at
          PROVE  \A q \in Request : handler'[q].at = handler[q].at
        BY <1>0, <2>2, <2>3 DEF Count
    <2>4. CASE Accept(r)
        BY <1>0, <2>1, <2>4 DEF Accept, Handler
    <2>5. CASE Hit(r)
        <3> DEFINE h == [handler[r] EXCEPT !.pc = "return"]
                   m == [metrics EXCEPT !.requestsByCache = @ + 1]
        <3>1. h.at = handler[r].at /\ Count(r, m, h)
            BY <1>0, <2>5 DEF Hit, Handler
        <3> HIDE DEF h, m
        <3> QED
            BY <2>1, <2>3, <3>1
    <2>6. CASE Miss(r) \/ Rejected(r) \/ Refused(r)
        BY <2>1, <2>2, <2>6 DEF Miss, Rejected, Refused
    <2>7. CASE CountAttempt(r)
        <3> DEFINE h == [handler[r] EXCEPT !.pc = "send", !.attempts = @ + 1]
                   m == [metrics EXCEPT !.requestsNow = @ + 1]
        <3>1. h.at = handler[r].at /\ Count(r, m, h)
            BY <1>0, <2>7 DEF CountAttempt, Handler
        <3> HIDE DEF h, m
        <3> QED
            BY <2>1, <2>3, <3>1
    <2>8. CASE Return(r)
        <3> DEFINE h == [handler[r] EXCEPT !.pc = "done"]
                   m == [metrics EXCEPT !.requestsNow = @ - handler[r].attempts,
                                        !.requests = @ + handler[r].attempts]
        <3>1. h.at = handler[r].at /\ Count(r, m, h)
            BY <1>0, <2>8 DEF Return, Handler
        <3> HIDE DEF h, m
        <3> QED
            BY <2>1, <2>3, <3>1
    <2> QED
        BY <1>2, <2>1, <2>4, <2>5, <2>6, <2>7, <2>8 DEF HandlerStep, Takes, Frees
<1> QED
    BY <1>1, <1>2 DEF Next

(* A slot is taken by one more request, given back by one that has it.     *)
LEMMA SlotsStep ==
    ASSUME IInv, Next
    PROVE  slots' \in [Server -> 0 .. Limit] /\ SlotsHeld'
<1>0. /\ handler \in [Request -> Handler] /\ slots \in [Server -> 0 .. Limit]
      /\ SlotsHeld /\ HoldersKnown /\ Limit \in Nat /\ NoServer \notin Server
      /\ \A b \in Server : IsFiniteSet(Keeping(b))
    BY FS_Subset, StartupAssumption DEF IInv, TypeOK, Keeping
<1>1. ASSUME NEW r \in Request, NEW b \in Server, AssignRequest(r, b)
      PROVE  slots' \in [Server -> 0 .. Limit] /\ SlotsHeld'
    <2>1. /\ handler[r].pc = "choose" /\ slots[b] < Limit
          /\ slots' = [slots EXCEPT ![b] = @ + 1]
          /\ handler' = [handler EXCEPT ![r].pc = "count", ![r].at = b]
        BY <1>1 DEF AssignRequest, At
    <2>2. handler[r].at = NoServer
        BY <1>0, <2>1 DEF HoldersKnown
    <2>3. handler'[r].at = b /\ \A q \in Request \ {r} : handler'[q] = handler[q]
        BY <1>0, <2>1 DEF Handler
    <2>4. Keeping(b)' = Keeping(b) \cup {r} /\ r \notin Keeping(b)
        BY <1>0, <2>2, <2>3 DEF Keeping
    <2>5. \A c \in Server \ {b} : Keeping(c)' = Keeping(c)
        BY <1>0, <2>2, <2>3 DEF Keeping
    <2>6. Cardinality(Keeping(b)') = slots[b] + 1
        BY <1>0, <2>4, FS_AddElement DEF SlotsHeld
    <2> QED
        BY <1>0, <2>1, <2>5, <2>6 DEF SlotsHeld
<1>2. ASSUME NEW r \in Request, Frees(r), NEW b \in Server, b = handler[r].at
      PROVE  slots' \in [Server -> 0 .. Limit] /\ SlotsHeld'
    <2>1. PICK label \in {"return", "choose"} :
              handler' = [handler EXCEPT ![r].pc = label, ![r].at = NoServer]
        BY <1>2 DEF Frees, Ended, Failed
    <2>2. slots' = [slots EXCEPT ![b] = @ - 1]
        BY <1>2 DEF Frees, Ended, Failed, Free
    <2>3. handler'[r].at = NoServer /\ \A q \in Request \ {r} : handler'[q] = handler[q]
        BY <1>0, <2>1 DEF Handler
    <2>4. Keeping(b)' = Keeping(b) \ {r} /\ r \in Keeping(b)
        BY <1>0, <1>2, <2>3 DEF Keeping
    <2>5. \A c \in Server \ {b} : Keeping(c)' = Keeping(c)
        BY <1>0, <1>2, <2>3 DEF Keeping
    <2>6. Cardinality(Keeping(b)') = slots[b] - 1 /\ Cardinality(Keeping(b)') \in Nat
        BY <1>0, <2>4, FS_RemoveElement, FS_CardinalityType DEF SlotsHeld
    <2> QED
        BY <1>0, <2>2, <2>5, <2>6 DEF SlotsHeld
<1>3. CASE \A r \in Request : ~Takes(r) /\ ~Frees(r)
    <2>1. \A b \in Server : Keeping(b)' = Keeping(b)
        BY <1>3, SlotsUntouched DEF Keeping
    <2> QED
        BY <1>0, <1>3, <2>1, SlotsUntouched DEF SlotsHeld
<1>4. \A r \in Request : Frees(r) => handler[r].at \in Server
    BY <1>0 DEF Frees, Ended, Failed, At, HoldersKnown
<1> QED
    BY <1>1, <1>2, <1>3, <1>4 DEF Takes

-----------------------------------------------------------------------------
(* The attempts                                                            *)

LEMMA AttemptsFinite ==
    ASSUME NEW S \in SUBSET Request
    PROVE  IsFiniteSet(Attempts(S)) /\ Cardinality(Attempts(S)) \in Nat
<1>1. IsFiniteSet(S) /\ IsFiniteSet(1 .. MaxAttempts)
    BY FS_Subset, FS_Interval, StartupAssumption
<1>2. IsFiniteSet(S \X (1 .. MaxAttempts))
    BY <1>1, FS_Product
<1> QED
    BY <1>2, FS_Subset, FS_CardinalityType DEF Attempts

(* A step that neither begins an attempt nor returns, nor touches what the *)
(* metrics say of attempts.                                                *)
Uncounted ==
    /\ \A r \in Request :
          /\ handler'[r].attempts = handler[r].attempts
          /\ handler'[r].pc = "done" <=> handler[r].pc = "done"
    /\ metrics = NoMetrics => UNCHANGED metrics
    /\ metrics # NoMetrics =>
          /\ metrics' \in Gauges
          /\ metrics'.requestsNow = metrics.requestsNow
          /\ metrics'.requests = metrics.requests

LEMMA UncountedStep ==
    ASSUME IInv, Uncounted
    PROVE  AttemptsCounted'
<1>1. Unreturned' = Unreturned
    BY DEF Uncounted, Unreturned
<1>2. Attempts(Unreturned)' = Attempts(Unreturned)
    BY <1>1 DEF Uncounted, Attempts, Unreturned
<1>3. Attempts(Request \ Unreturned)' = Attempts(Request \ Unreturned)
    BY <1>1 DEF Uncounted, Attempts
<1> QED
    BY <1>2, <1>3 DEF Uncounted, IInv, AttemptsCounted

(* What a handler's step does if it is not counted as an attempt           *)
LEMMA OtherSteps ==
    ASSUME IInv, NEW r \in Request, HandlerStep(r),
           metrics = NoMetrics \/ (~CountAttempt(r) /\ ~Return(r))
    PROVE  Uncounted
<1>0. /\ handler \in [Request -> Handler] /\ handler[r] \in Handler
      /\ metrics \in Gauges \cup {NoMetrics} /\ NoMetrics \notin Gauges
    BY StartupAssumption DEF IInv, TypeOK
<1>1. ASSUME NEW label \in {"choose", "return", "panicked"}, Goto(r, label),
             handler[r].pc # "done", UNCHANGED metrics
      PROVE  Uncounted
    BY <1>0, <1>1 DEF Goto, Handler, Uncounted
<1>2. CASE metrics = NoMetrics /\ (Hit(r) \/ CountAttempt(r) \/ Return(r))
    BY <1>0, <1>1, <1>2 DEF Hit, CountAttempt, Return, Count, At
<1>3. CASE metrics # NoMetrics /\ Hit(r)
    <2>1. /\ handler' = [handler EXCEPT ![r] = [handler[r] EXCEPT !.pc = "return"]]
          /\ metrics' = [metrics EXCEPT !.requestsByCache = @ + 1]
          /\ handler[r].pc = "lookup"
        BY <1>3 DEF Hit, Count, At
    <2>2. /\ metrics' \in Gauges
          /\ metrics'.requestsNow = metrics.requestsNow
          /\ metrics'.requests = metrics.requests
        BY <1>0, <1>3, <2>1 DEF Gauges
    <2> QED
        BY <1>0, <1>3, <2>1, <2>2 DEF Handler, Uncounted
<1>4. CASE Accept(r)
    BY <1>0, <1>4 DEF Accept, At, Handler, Uncounted
<1>5. CASE Miss(r) \/ Rejected(r) \/ Refused(r)
    BY <1>0, <1>1, <1>5 DEF Miss, Rejected, Refused, At
<1>6. ASSUME NEW b \in Server, AssignRequest(r, b)
      PROVE  Uncounted
    BY <1>0, <1>6 DEF AssignRequest, At, Handler, Uncounted
<1>7. CASE Ended(r) \/ Failed(r)
    BY <1>0, <1>7 DEF Ended, Failed, At, Handler, Uncounted
<1> QED
    BY <1>2, <1>3, <1>4, <1>5, <1>6, <1>7 DEF HandlerStep

(* CountAttempt and Return move r's attempts between the two counters.     *)
LEMMA AttemptBegins ==
    ASSUME IInv, NEW r \in Request, CountAttempt(r), metrics # NoMetrics
    PROVE  metrics' \in Gauges /\ AttemptsCounted'
<1>0. /\ handler \in [Request -> Handler] /\ handler[r] \in Handler
      /\ metrics \in Gauges /\ MaxAttempts \in Nat
    BY StartupAssumption DEF IInv, TypeOK
<1> DEFINE k == handler[r].attempts
<1>1. /\ handler[r].pc = "count" /\ k < MaxAttempts
      /\ metrics' = [metrics EXCEPT !.requestsNow = @ + 1]
      /\ handler' = [handler EXCEPT ![r] = [handler[r] EXCEPT
                         !.pc = "send", !.attempts = @ + 1]]
    BY DEF CountAttempt, Count, At
<1>2. /\ handler'[r].pc = "send" /\ handler'[r].attempts = k + 1
      /\ \A q \in Request \ {r} : handler'[q] = handler[q]
    BY <1>0, <1>1 DEF Handler
<1>3. k \in Nat
    BY <1>0 DEF Handler
<1>4. Unreturned' = Unreturned /\ r \in Unreturned
    BY <1>1, <1>2 DEF Unreturned
<1>5. Attempts(Request \ Unreturned)' = Attempts(Request \ Unreturned)
    BY <1>2, <1>4 DEF Attempts
<1>6. <<r, k + 1>> \notin Attempts(Unreturned)
    BY <1>3 DEF Attempts
<1>7. Attempts(Unreturned)' = Attempts(Unreturned) \cup {<<r, k + 1>>}
    <2>1. ASSUME NEW q \in Unreturned, NEW i \in 1 .. MaxAttempts
          PROVE  i <= handler'[q].attempts <=> i <= handler[q].attempts \/ <<q, i>> = <<r, k + 1>>
        <3>1. CASE q = r
            BY <1>2, <1>3, <3>1
        <3>2. CASE q # r
            BY <1>2, <3>2 DEF Unreturned
        <3> QED
            BY <3>1, <3>2
    <2>2. k + 1 \in 1 .. MaxAttempts
        BY <1>0, <1>1, <1>3
    <2> QED
        BY <1>4, <2>1, <2>2 DEF Attempts
<1>8. Cardinality(Attempts(Unreturned)') = Cardinality(Attempts(Unreturned)) + 1
    BY <1>6, <1>7, AttemptsFinite, FS_AddElement DEF Unreturned
<1>9. /\ metrics' \in Gauges
      /\ metrics'.requestsNow = metrics.requestsNow + 1
      /\ metrics'.requests = metrics.requests
    BY <1>0, <1>1 DEF Gauges
<1> QED
    BY <1>5, <1>8, <1>9 DEF IInv, AttemptsCounted

LEMMA CountUpTo ==
    ASSUME NEW k \in Nat, NEW x
    PROVE  IsFiniteSet({x} \X (1 .. k)) /\ Cardinality({x} \X (1 .. k)) = k
<1>1. IsFiniteSet({x}) /\ Cardinality({x}) = 1
    BY FS_Singleton
<1>2. IsFiniteSet(1 .. k) /\ Cardinality(1 .. k) = IF 1 > k THEN 0 ELSE k - 1 + 1
    BY FS_Interval
<1>3. Cardinality(1 .. k) = k
    BY <1>2
<1>4. /\ IsFiniteSet({x} \X (1 .. k))
      /\ Cardinality({x} \X (1 .. k)) = Cardinality({x}) * Cardinality(1 .. k)
    BY <1>1, <1>2, FS_Product
<1>5. 1 * k = k
    OBVIOUS
<1> QED
    BY <1>1, <1>3, <1>4, <1>5

LEMMA AttemptsReturn ==
    ASSUME IInv, NEW r \in Request, Return(r), metrics # NoMetrics
    PROVE  metrics' \in Gauges /\ AttemptsCounted'
<1>0. /\ handler \in [Request -> Handler] /\ handler[r] \in Handler
      /\ metrics \in Gauges /\ MaxAttempts \in Nat
    BY StartupAssumption DEF IInv, TypeOK
<1> DEFINE k == handler[r].attempts
           Mine == {r} \X (1 .. k)
           Open == Attempts(Unreturned)
           Closed == Attempts(Request \ Unreturned)
<1>1. /\ handler[r].pc = "return"
      /\ metrics' = [metrics EXCEPT !.requestsNow = @ - k, !.requests = @ + k]
      /\ handler' = [handler EXCEPT ![r] = [handler[r] EXCEPT !.pc = "done"]]
    BY DEF Return, Count, At
<1>2. /\ handler'[r].pc = "done" /\ handler'[r].attempts = k
      /\ \A q \in Request \ {r} : handler'[q] = handler[q]
    BY <1>0, <1>1 DEF Handler
<1>3. k \in Nat /\ k <= MaxAttempts
    BY <1>0 DEF Handler
<1>4. Unreturned' = Unreturned \ {r} /\ r \in Unreturned
    BY <1>1, <1>2 DEF Unreturned
<1>5. IsFiniteSet(Mine) /\ Cardinality(Mine) = k
    BY <1>3, CountUpTo
<1>6. \A q \in Request : handler'[q].attempts = handler[q].attempts
    BY <1>2
<1>7. \A i : <<r, i>> \in Open <=> i \in 1 .. k
    BY <1>0, <1>3, <1>4 DEF Attempts
<1>8. Mine \subseteq Open /\ Mine \cap Closed = {}
    BY <1>4, <1>7 DEF Attempts
<1>9. Open' = Open \ Mine
    <2>1. Open' = {a \in (Unreturned \ {r}) \X (1 .. MaxAttempts) : a[2] <= handler[a[1]].attempts}
        BY <1>4, <1>6 DEF Attempts, Unreturned
    <2> QED
        BY <1>4, <1>7, <2>1 DEF Attempts
<1>10. Closed' = Closed \cup Mine
    <2>1. (Request \ Unreturned)' = (Request \ Unreturned) \cup {r}
        BY <1>4 DEF Unreturned
    <2>2. Closed' = {a \in ((Request \ Unreturned) \cup {r}) \X (1 .. MaxAttempts) :
                        a[2] <= handler[a[1]].attempts}
        BY <1>6, <2>1 DEF Attempts
    <2>3. Closed' = Closed \cup {a \in {r} \X (1 .. MaxAttempts) : a[2] <= k}
        BY <2>2 DEF Attempts
    <2>4. {a \in {r} \X (1 .. MaxAttempts) : a[2] <= k} = Mine
        BY <1>0, <1>3
    <2> QED
        BY <2>3, <2>4
<1> HIDE DEF k, Mine, Open, Closed
<1>11. /\ IsFiniteSet(Open) /\ IsFiniteSet(Closed)
       /\ Cardinality(Open) \in Nat /\ Cardinality(Closed) \in Nat
    BY AttemptsFinite DEF Open, Closed, Unreturned
<1>12. /\ Cardinality(Open') = Cardinality(Open) - k /\ Cardinality(Open') \in Nat
       /\ Cardinality(Closed') = Cardinality(Closed) + k
    <2>1. Open \cap Mine = Mine /\ Closed \cap Mine = {}
        BY <1>8
    <2>2. IsFiniteSet(Open') /\ Cardinality(Open') = Cardinality(Open) - k
        BY <1>5, <1>9, <1>11, <2>1, FS_Difference
    <2>3. Cardinality(Closed') = Cardinality(Closed) + k - 0
        BY <1>5, <1>10, <1>11, <2>1, FS_Union, FS_EmptySet
    <2> QED
        BY <1>3, <1>11, <2>2, <2>3, FS_CardinalityType
<1>13. metrics.requestsNow = Cardinality(Open) /\ metrics.requests = Cardinality(Closed)
    BY DEF IInv, AttemptsCounted, Open, Closed
<1>14. /\ metrics'.requestsNow = metrics.requestsNow - k
       /\ metrics'.requests = metrics.requests + k
       /\ metrics' \in [requestsNow : Int, requests : Int, requestsByCache : Nat]
    <2>1. metrics' = [requestsNow |-> metrics.requestsNow - k,
                      requests |-> metrics.requests + k,
                      requestsByCache |-> metrics.requestsByCache]
        BY <1>0, <1>1 DEF Gauges, k
    <2> QED
        BY <1>0, <1>3, <2>1 DEF Gauges
<1>15. metrics' \in Gauges
    BY <1>3, <1>11, <1>12, <1>13, <1>14 DEF Gauges
<1> QED
    BY <1>12, <1>13, <1>14, <1>15 DEF AttemptsCounted, Open, Closed

LEMMA AttemptsStep ==
    ASSUME IInv, Next
    PROVE  /\ metrics' \in Gauges \cup {NoMetrics} /\ AttemptsCounted'
           /\ metrics # NoMetrics => metrics' # NoMetrics
<1>0. metrics \in Gauges \cup {NoMetrics} /\ NoMetrics \notin Gauges /\ EarlyKnown
    BY StartupAssumption DEF IInv, TypeOK
<1>1. CASE InitMetrics
    <2>1. \A r \in Request : handler[r].attempts = 0
        BY <1>0, <1>1 DEF InitMetrics, EarlyKnown
    <2>2. /\ UNCHANGED handler /\ metrics' \in Gauges
          /\ metrics'.requestsNow = 0 /\ metrics'.requests = 0
        BY <1>1 DEF InitMetrics, Become, Gauges
    <2>3. Attempts(Unreturned)' = {} /\ Attempts(Request \ Unreturned)' = {}
        BY <2>1, <2>2 DEF Attempts, Unreturned
    <2>4. AttemptsCounted'
        BY <2>2, <2>3, FS_EmptySet DEF AttemptsCounted
    <2> QED
        BY <1>0, <2>2, <2>4
<1>2. CASE Uncounted
    BY <1>0, <1>2, UncountedStep DEF Uncounted
<1>3. CASE \/ ChecksAwaited \/ Fatal \/ Serve \/ CleanEarly
           \/ \E b \in Server : FirstRound(b) \/ Recheck(b)
    <2>1. UNCHANGED <<handler, metrics>>
        BY <1>3 DEF ChecksAwaited, Fatal, Serve, CleanEarly, Become, FirstRound, FirstCheck,
           FirstDone, Recheck
    <2> QED
        BY <1>0, <1>2, <2>1 DEF Uncounted
<1>4. ASSUME NEW r \in Request, HandlerStep(r)
      PROVE  /\ metrics' \in Gauges \cup {NoMetrics} /\ AttemptsCounted'
             /\ metrics # NoMetrics => metrics' # NoMetrics
    BY <1>0, <1>2, <1>4, OtherSteps, AttemptBegins, AttemptsReturn
<1> QED
    BY <1>1, <1>3, <1>4 DEF Next, MainStep

-----------------------------------------------------------------------------
(* What a handler's state says of it                                       *)

LEMMA HandlerStates ==
    ASSUME IInv, Next
    PROVE  handler' \in [Request -> Handler] /\ HoldersKnown' /\ EarlyKnown'
<1>0. /\ handler \in [Request -> Handler] /\ HoldersKnown /\ EarlyKnown
      /\ metrics \in Gauges \cup {NoMetrics} /\ NoMetrics \notin Gauges
      /\ main \in Stage /\ NoServer \notin Server
    BY StartupAssumption DEF IInv, TypeOK
<1>1. CASE MainStep \/ CleanEarly
    <2>1. UNCHANGED handler
        BY <1>1 DEF MainStep, ChecksAwaited, Fatal, Serve, InitMetrics, CleanEarly, Become
    <2>2. \/ UNCHANGED metrics /\ (main' \in {"checks", "configure", "serving"} =>
                 main \in {"checks", "configure", "serving"})
          \/ main' = "running" /\ metrics' \in Gauges
        BY <1>1 DEF MainStep, ChecksAwaited, Fatal, Serve, InitMetrics, CleanEarly, Become,
           Gauges
    <2> QED
        BY <1>0, <2>1, <2>2 DEF HoldersKnown, EarlyKnown
<1>2. CASE \E b \in Server : FirstRound(b) \/ Recheck(b)
    BY <1>0, <1>2 DEF FirstRound, FirstCheck, FirstDone, Recheck, HoldersKnown, EarlyKnown,
       processVars
<1>3. ASSUME NEW r \in Request, HandlerStep(r)
      PROVE  handler' \in [Request -> Handler] /\ HoldersKnown' /\ EarlyKnown'
    <2>0. /\ handler' \in [Request -> Handler] /\ UNCHANGED main
          /\ handler'[r].pc # "idle"
          /\ \A q \in Request \ {r} : handler'[q] = handler[q]
        BY <1>0, <1>3, HandlerForm DEF processVars
    <2> DEFINE old == handler[r]
               new == handler'[r]
    <2>1. old \in Handler /\ new \in Handler
        BY <1>0, <2>0
    <2>2. SUFFICES
              /\ new.pc \in {"count", "send"} => new.at \in Server
              /\ new.pc \notin {"count", "send", "panicked"} => new.at = NoServer
              /\ metrics = NoMetrics => UNCHANGED metrics /\ new.attempts = 0
              /\ metrics # NoMetrics => metrics' # NoMetrics
              /\ new.pc = "panicked" \/ metrics' = NoMetrics => new.early
        BY <1>0, <2>0, <2>2 DEF HoldersKnown, EarlyKnown
    <2>3. /\ old.pc \in {"count", "send"} => old.at \in Server
          /\ old.pc \notin {"count", "send", "panicked"} => old.at = NoServer
          /\ metrics = NoMetrics => old.attempts = 0
          /\ metrics = NoMetrics /\ old.pc # "idle" => old.early
          /\ metrics # NoMetrics => metrics' # NoMetrics
        BY <1>0, <1>3, AttemptsStep DEF HoldersKnown, EarlyKnown, Next
    <2>4. ASSUME NEW label \in {"choose", "return", "panicked"}, Goto(r, label)
          PROVE  /\ new.pc = label /\ new.at = old.at
                 /\ new.attempts = old.attempts /\ new.early = old.early
        BY <1>0, <2>4 DEF Goto, Handler
    <2>5. CASE Accept(r)
        BY <1>0, <2>3, <2>5 DEF Accept, At, Handler
    <2>6. CASE Miss(r) \/ Rejected(r) \/ Refused(r)
        BY <2>3, <2>4, <2>6 DEF Miss, Rejected, Refused, At
    <2>7. ASSUME NEW b \in Server, AssignRequest(r, b)
          PROVE  /\ new.pc = "count" /\ new.at = b /\ old.pc = "choose"
                 /\ new.attempts = old.attempts /\ new.early = old.early
                 /\ UNCHANGED metrics
        BY <1>0, <2>7 DEF AssignRequest, At, Handler
    <2>8. CASE Ended(r) \/ Failed(r)
        <3>1. /\ new.pc \in {"return", "choose"} /\ new.at = NoServer /\ old.pc = "send"
              /\ new.attempts = old.attempts /\ new.early = old.early
              /\ UNCHANGED metrics
            BY <1>0, <2>8 DEF Ended, Failed, At, Handler
        <3> QED
            BY <2>3, <3>1
    <2>9. CASE metrics = NoMetrics /\ (Hit(r) \/ CountAttempt(r) \/ Return(r))
        <3>1. Goto(r, "panicked") /\ UNCHANGED metrics /\ old.pc # "idle"
            BY <2>9 DEF Hit, CountAttempt, Return, Count, At
        <3> QED
            BY <2>3, <2>4, <2>9, <3>1
    <2>10. CASE metrics # NoMetrics /\ (Hit(r) \/ CountAttempt(r) \/ Return(r))
        <3>1. /\ new.at = old.at
              /\ \/ old.pc \in {"lookup", "return"} /\ new.pc \in {"return", "done"}
                 \/ old.pc = "count" /\ new.pc = "send"
            BY <1>0, <2>10 DEF Hit, CountAttempt, Return, Count, At, Handler
        <3> QED
            BY <2>3, <2>10, <3>1
    <2> QED
        BY <1>3, <2>3, <2>5, <2>6, <2>7, <2>8, <2>9, <2>10 DEF HandlerStep
<1> QED
    BY <1>1, <1>2, <1>3 DEF Next

LEMMA FlagsStep ==
    ASSUME IInv, Next
    PROVE  alive' \in [Server -> BOOLEAN]
<1>0. alive \in [Server -> BOOLEAN]
    BY DEF IInv, TypeOK
<1>1. ASSUME NEW r \in Request, HandlerStep(r)
      PROVE  alive' \in [Server -> BOOLEAN]
    BY <1>0, <1>1 DEF HandlerStep, Accept, Hit, Miss, Rejected, Refused, AssignRequest,
       CountAttempt, Ended, Failed, Return
<1>2. CASE MainStep \/ CleanEarly
    BY <1>0, <1>2 DEF MainStep, ChecksAwaited, Fatal, Serve, InitMetrics, CleanEarly, Become
<1>3. CASE \E b \in Server : FirstRound(b) \/ Recheck(b)
    BY <1>0, <1>3 DEF FirstRound, FirstCheck, FirstDone, Recheck
<1> QED
    BY <1>1, <1>2, <1>3 DEF Next

-----------------------------------------------------------------------------
LEMMA InitIInv == Init => IInv
<1> SUFFICES ASSUME Init PROVE IInv
    OBVIOUS
<1>1. TypeOK
    BY StartupAssumption, FS_CardinalityType DEF Init, TypeOK, Stage, Handler
<1>2. FirstRoundCounted
    <2>1. NotEnded = Server
        BY DEF Init, NotEnded
    <2> QED
        BY <2>1 DEF Init, FirstRoundCounted
<1>3. SlotsHeld
    <2>1. \A b \in Server : Keeping(b) = {}
        BY StartupAssumption DEF Init, Keeping
    <2> QED
        BY <2>1, FS_EmptySet DEF Init, SlotsHeld
<1>4. HoldersKnown /\ EarlyKnown /\ AttemptsCounted
    BY DEF Init, HoldersKnown, EarlyKnown, AttemptsCounted
<1> QED
    BY <1>1, <1>2, <1>3, <1>4 DEF IInv

LEMMA NextIInv == IInv /\ [Next]_vars => IInv'
<1>1. ASSUME IInv, Next
      PROVE  IInv'
    BY <1>1, RoundStep, SlotsStep, HandlerStates, AttemptsStep, FlagsStep DEF IInv, TypeOK
<1>2. ASSUME IInv, UNCHANGED vars
      PROVE  IInv'
    BY <1>2 DEF vars, processVars, IInv, TypeOK, FirstRoundCounted, NotEnded, SlotsHeld,
       Keeping, HoldersKnown, EarlyKnown, AttemptsCounted, Attempts, Unreturned
<1> QED
    BY <1>1, <1>2

(* The inductive invariant holds from the first check to the end of the    *)
(* process (main.go, lbHandlers.go).                                       *)
THEOREM Invariance == Spec => []IInv
<1> QED
    BY InitIInv, NextIInv, PTL DEF Spec

(* Type correctness; the gauge of requests never falls below zero.         *)
THEOREM TypeCorrect == Spec => []TypeOK
<1>1. IInv => TypeOK
    BY DEF IInv
<1> QED
    BY <1>1, Invariance, PTL

(* main.go:185: no request is served before every server has been checked. *)
THEOREM CheckedBeforeServed == Spec => []ServedOnlyChecked
<1>1. IInv => ServedOnlyChecked
    BY DEF IInv, TypeOK, FirstRoundCounted, ServedOnlyChecked
<1> QED
    BY <1>1, Invariance, PTL

(* lbHandlers.go:94-108: a slot is with a request that is using it, or was *)
(* lost to one that came before metrics.Init.                              *)
THEOREM LaterRequestsKeepSlots == Spec => []OnlyEarlyRequestsLoseSlots
<1>1. ASSUME IInv, NEW b \in Server
      PROVE  /\ slots[b] = Cardinality(Holding(b)) + Cardinality(LostAt(b))
             /\ \A r \in LostAt(b) : handler[r].early
    <2>1. Keeping(b) = Holding(b) \cup LostAt(b) /\ Holding(b) \cap LostAt(b) = {}
        BY DEF Keeping, Holding, LostAt
    <2>2. IsFiniteSet(Holding(b)) /\ IsFiniteSet(LostAt(b))
        BY FS_Subset, StartupAssumption DEF Holding, LostAt
    <2>3. Cardinality(Keeping(b)) = Cardinality(Holding(b)) + Cardinality(LostAt(b)) - 0
        BY <2>1, <2>2, FS_Union, FS_EmptySet
    <2>4. Cardinality(Holding(b)) \in Nat /\ Cardinality(LostAt(b)) \in Nat
        BY <2>2, FS_CardinalityType
    <2> QED
        BY <1>1, <2>3, <2>4 DEF IInv, SlotsHeld, EarlyKnown, LostAt
<1>2. IInv => OnlyEarlyRequestsLoseSlots
    BY <1>1 DEF OnlyEarlyRequestsLoseSlots
<1> QED
    BY <1>2, Invariance, PTL

(* lbHandlers.go:98-100: every attempt is counted in RequestsNow until its *)
(* handler returns and in Requests from then on.                           *)
THEOREM EveryAttemptCounted == Spec => []AttemptsCounted
<1>1. IInv => AttemptsCounted
    BY DEF IInv
<1> QED
    BY <1>1, Invariance, PTL
=============================================================================

------------------------------ MODULE Backends ------------------------------
(***************************************************************************)
(* The backend objects of backend/backend.go: one value of the constant    *)
(* Backend per object that NewBackend may ever allocate.  An object has an *)
(* address, a bounded channel whose length is the number of requests it    *)
(* is working on, and a liveness flag guarded by the object's mutex.       *)
(***************************************************************************)
EXTENDS Integers, Sequences, FiniteSets

CONSTANTS
    Backend,    \* the objects that may be allocated
    Url,        \* the addresses, well-formed or not
    NoUrl,      \* the address of an object that is not allocated yet
    Boot,       \* the objects built from resources/servers.json, in order
    BootUrl,    \* their addresses
    BootLimit,  \* their maximalRequests
    CanFail     \* the machines that may stop and start accepting connections

ASSUME BackendsAssumption ==
    /\ NoUrl \notin Url
    /\ Boot \in Seq(Backend)
    /\ BootUrl \in [Backend -> Url]
    /\ BootLimit \in [Backend -> Nat]
    /\ CanFail \subseteq Backend

VARIABLES
    url,    \* Backend.url, in the form that url.Parse(...).String() gives it
    limit,  \* cap(Backend.requestChan)
    slots,  \* len(Backend.requestChan)
    alive,  \* Backend.alive
    up      \* whether the machine accepts a TCP connection in time

objectVars == <<url, limit, slots, alive>>
backendVars == <<url, limit, slots, alive, up>>

BootBackends == {Boot[i] : i \in DOMAIN Boot}

Allocated == {b \in Backend : url[b] # NoUrl}

BackendsTypeOK ==
    /\ url \in [Backend -> Url \cup {NoUrl}]
    /\ limit \in [Backend -> Nat]
    /\ slots \in [Backend -> Nat]
    /\ alive \in [Backend -> BOOLEAN]
    /\ up \in [Backend -> BOOLEAN]

\* The pool read from the configuration after the first round of health
\* checks, which main waits for before it starts anything else.
BackendsInit ==
    /\ url = [b \in Backend |-> IF b \in BootBackends THEN BootUrl[b] ELSE NoUrl]
    /\ limit = [b \in Backend |-> IF b \in BootBackends THEN BootLimit[b] ELSE 0]
    /\ slots = [b \in Backend |-> 0]
    /\ up \in [Backend -> BOOLEAN]
    /\ \A b \in Backend \ CanFail : up[b]
    /\ alive = [b \in Backend |-> b \in BootBackends /\ up[b]]

-----------------------------------------------------------------------------
\* NewBackend: a fresh object, not alive, with an empty channel of capacity n.
NewBackend(b, u, n) ==
    /\ url[b] = NoUrl
    /\ url' = [url EXCEPT ![b] = u]
    /\ limit' = [limit EXCEPT ![b] = n]
    /\ UNCHANGED <<slots, alive, up>>

\* Faulty variant: a buffer one place too long.
AssignOneMore(b) ==
    /\ slots[b] <= limit[b]
    /\ slots' = [slots EXCEPT ![b] = @ + 1]
    /\ UNCHANGED <<url, limit, alive, up>>

\* The send of AssignRequest's select goes through: the channel has room.
AssignRequest(b) ==
    /\ slots[b] < limit[b]
    /\ slots' = [slots EXCEPT ![b] = @ + 1]
    /\ UNCHANGED <<url, limit, alive, up>>

\* The 100 ms timer of AssignRequest's select fires.  A select whose send is
\* ready never takes the timer's branch before it has been full for a while,
\* so the branch is taken only when the channel is full.
AssignTimeout(b) ==
    /\ slots[b] = limit[b]
    /\ UNCHANGED backendVars

\* Free: receives one item, or does nothing on an empty channel.
Free(b) == slots' = [slots EXCEPT ![b] = IF @ > 0 THEN @ - 1 ELSE @]

SetAlive(b, v) ==
    /\ alive' = [alive EXCEPT ![b] = v]
    /\ UNCHANGED <<url, limit, slots, up>>

\* What a dial that ends now reports.
CheckIfAlive(b) == up[b]

\* The machine behind b stops or starts accepting connections.
MachineChanges(b) ==
    /\ b \in CanFail
    /\ up' = [up EXCEPT ![b] = ~@]
    /\ UNCHANGED objectVars
=============================================================================

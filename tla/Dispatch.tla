------------------------------ MODULE Dispatch ------------------------------
(***************************************************************************)
(* lb/lbHandlers.go, backendHandler: what a request does after a cache     *)
(* miss.  It chooses a server, takes one of its slots, sends, and either   *)
(* relays the answer, gives up because its client left, or marks the       *)
(* server down and chooses again.  Each request is one goroutine.          *)
(*                                                                         *)
(*   idle -> choose -> scan -> assign -> sent -> relay -> done             *)
(*             ^        |        |        |                                *)
(*             |        v        |        +-> done (client left)           *)
(*             |       done      |        |                                *)
(*             +-----------------+        v                                *)
(*             +----------------------- failed                             *)
(***************************************************************************)
EXTENDS ServerPool

CONSTANTS
    WithBody,   \* the requests that carry a body
    Faulty,     \* the backends that may answer 5xx while they are up
    CanLeave    \* the requests whose client may disconnect before the answer

ASSUME DispatchAssumption ==
    /\ WithBody \subseteq Chooser
    /\ Faulty \subseteq Backend
    /\ CanLeave \subseteq Chooser

VARIABLE req    \* the state of each request's goroutine

Request == Chooser

RequestState == [
    pc   : {"idle", "choose", "scan", "assign", "sent", "relay", "failed", "done"},
    peer : Backend \cup {Nobody},       \* the server variable of backendHandler
    body : {"none", "fresh", "spent"},  \* http.Request.Body, closed by its first use
    gone : BOOLEAN ]                    \* the request's context is cancelled

DispatchTypeOK == req \in [Request -> RequestState]

DispatchInit ==
    req = [r \in Request |-> [
        pc |-> "idle", peer |-> Nobody, gone |-> FALSE,
        body |-> IF r \in WithBody THEN "fresh" ELSE "none"]]

\* The requests the backend is working on, in the sense of Free
At(b) == {r \in Request : req[r].pc = "sent" /\ req[r].peer = b}

\* The requests of which the backend still has something to send
Open(b) == {r \in Request : req[r].pc \in {"sent", "relay"} /\ req[r].peer = b}

Active(r) == req[r].pc \notin {"idle", "done"}

Goto(r, label) == req' = [req EXCEPT ![r].pc = label]

\* The same where the server variable is dead
Drop(r, label) == req' = [req EXCEPT ![r].pc = label, ![r].peer = Nobody]

-----------------------------------------------------------------------------
\* loadBalancerHandler after a cache miss
Arrive(r) ==
    /\ req[r].pc = "idle"
    /\ Goto(r, "choose")
    /\ UNCHANGED <<backendVars, serverPoolVars>>

EnterGetNextPeer(r) ==
    /\ req[r].pc = "choose"
    /\ Lock(r)
    /\ Goto(r, "scan")
    /\ UNCHANGED backendVars

PassOver(r) ==
    /\ req[r].pc = "scan"
    /\ SkipPeer(r)
    /\ UNCHANGED <<backendVars, req>>

Chosen(r) ==
    /\ req[r].pc = "scan"
    /\ ReturnPeer(r)
    /\ req' = [req EXCEPT ![r].pc = "assign", ![r].peer = NextCandidate]
    /\ UNCHANGED backendVars

\* 503
Refused(r) ==
    /\ req[r].pc = "scan"
    /\ ReturnNoPeer(r)
    /\ Drop(r, "done")
    /\ UNCHANGED backendVars

Assign(r) ==
    /\ req[r].pc = "assign"
    /\ AssignRequest(req[r].peer)
    /\ Goto(r, "sent")
    /\ UNCHANGED serverPoolVars

\* goto ChooseServer: the backend stayed full
GiveUpSlot(r) ==
    /\ req[r].pc = "assign"
    /\ AssignTimeout(req[r].peer)
    /\ Drop(r, "choose")
    /\ UNCHANGED serverPoolVars

-----------------------------------------------------------------------------
(* SendRequestToBackend and the Free behind it.  The three ways Do can end *)
(* are the environment's; each of them gives the slot back.                *)

\* Faulty variant: a retry or a cancellation returns before Free.
FreeIfAnswered(r, label) ==
    /\ IF label = "relay" THEN Free(req[r].peer) ELSE UNCHANGED slots
    /\ UNCHANGED <<url, limit, alive, up, serverPoolVars>>

\* Faulty variant: only the error paths free the slot.
FreeIfFailed(r, label) ==
    /\ IF label = "failed" THEN Free(req[r].peer) ELSE UNCHANGED slots
    /\ UNCHANGED <<url, limit, alive, up, serverPoolVars>>

GiveBackSlot(r, label) ==
    /\ Free(req[r].peer)
    /\ UNCHANGED <<url, limit, alive, up, serverPoolVars>>

\* Headers of an answer that makeRequest does not count as an error
Answered(r) ==
    /\ req[r].pc = "sent"
    /\ up[req[r].peer]
    /\ req[r].body # "spent"
    /\ Goto(r, "relay")
    /\ GiveBackSlot(r, "relay")

BackendFault(r) == ~up[req[r].peer] \/ req[r].peer \in Faulty

\* The body cannot be sent: the first attempt has closed it, or it breaks
\* off with the client that has left.
BodyFault(r) == req[r].body = "spent" \/ (req[r].body = "fresh" /\ req[r].gone)

\* A transport error, whose side it may be on, or a 5xx
Errored(r) ==
    /\ req[r].pc = "sent"
    /\ BackendFault(r) \/ BodyFault(r)
    /\ req' = [req EXCEPT ![r].pc = "failed",
                          ![r].body = IF @ = "none" THEN "none" ELSE "spent"]
    /\ GiveBackSlot(r, "failed")

\* context.Canceled
Cancelled(r) ==
    /\ req[r].pc = "sent"
    /\ req[r].gone
    /\ Drop(r, "done")
    /\ GiveBackSlot(r, "done")

\* Faulty variant: the retry keeps the server it has.
RetrySame(r) ==
    /\ req[r].pc = "failed"
    /\ SetAlive(req[r].peer, FALSE)
    /\ Goto(r, "assign")
    /\ UNCHANGED serverPoolVars

\* server.SetAlive(false); goto ChooseServer
MarkDown(r) ==
    /\ req[r].pc = "failed"
    /\ SetAlive(req[r].peer, FALSE)
    /\ Drop(r, "choose")
    /\ UNCHANGED serverPoolVars

\* WriteBodyAndReturn, successful or not, ends the handler
Relayed(r) ==
    /\ req[r].pc = "relay"
    /\ Drop(r, "done")
    /\ UNCHANGED <<backendVars, serverPoolVars>>

\* The client closes its connection.  Only Do looks at the context.
Leave(r) ==
    /\ r \in CanLeave
    /\ Active(r)
    /\ ~req[r].gone
    /\ req' = [req EXCEPT ![r].gone = TRUE]
    /\ UNCHANGED <<backendVars, serverPoolVars>>

DispatchStep(r) ==
    \/ Arrive(r)
    \/ EnterGetNextPeer(r) \/ PassOver(r) \/ Chosen(r) \/ Refused(r)
    \/ Assign(r) \/ GiveUpSlot(r)
    \/ Answered(r) \/ Errored(r) \/ Cancelled(r)
    \/ MarkDown(r) \/ Relayed(r)
    \/ Leave(r)

\* What the goroutine of r, once started, and the backend it waits for owe
\* it: everything but arriving and leaving.
Serve(r) ==
    \/ EnterGetNextPeer(r) \/ PassOver(r) \/ Chosen(r) \/ Refused(r)
    \/ Assign(r) \/ GiveUpSlot(r)
    \/ Answered(r) \/ Errored(r) \/ Cancelled(r)
    \/ MarkDown(r) \/ Relayed(r)
=============================================================================

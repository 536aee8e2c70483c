--------------------------- MODULE AdminHandlers ----------------------------
(***************************************************************************)
(* lb/adminHandlers.go: the handlers that add, remove and list servers,    *)
(* each call one goroutine of the HTTP server.  Searching and listing      *)
(* range over the pool without its mutex; only the change itself takes it. *)
(***************************************************************************)
EXTENDS ServerPool

CONSTANTS
    Admin,     \* the calls of the administrators
    AdminOp,   \* the operations they may make
    AdminUrl,  \* the addresses they may type
    Parsed,    \* what url.Parse(u).String() gives, or NoUrl if it fails
    MaxReqs,   \* the values of MaximalRequests they may send
    Int32Mod   \* 1 << int32BitsAmount

ASSUME AdminHandlersAssumption ==
    /\ Admin \subseteq Reader
    /\ AdminOp \subseteq {"add", "remove", "list"}
    /\ AdminUrl \subseteq Url
    /\ Parsed \in [Url -> Url \cup {NoUrl}]
    /\ MaxReqs \subseteq Nat
    /\ Int32Mod \in Nat \ {0}

VARIABLE adm    \* the state of each call

admVars == adm

CallState == [
    pc   : {"idle", "find", "create", "dial", "report", "remove", "listing", "listed", "done"},
    url  : Url \cup {NoUrl},             \* AddForm.Url, RemoveForm.Url
    max  : Nat,                          \* AddForm.MaximalRequests
    new  : Backend \cup {Nobody},        \* the server AddServerHandler built
    up   : BOOLEAN,                      \* what its check has found
    list : Seq(Backend) ]                \* backends of GetServersHandler

AdminHandlersTypeOK == adm \in [Admin -> CallState]

NoCall == [pc |-> "idle", url |-> NoUrl, max |-> 0, new |-> Nobody,
           up |-> FALSE, list |-> <<>>]

AdminHandlersInit == adm = [a \in Admin |-> NoCall]

Finish(a) == adm' = [adm EXCEPT ![a] = [NoCall EXCEPT !.pc = "done"]]

-----------------------------------------------------------------------------
(* AddServerHandler.  A body that does not decode is answered 400, and the *)
(* handler goes on with whatever was decoded, so decoding has no guard.    *)

AddCall(a, u, n) ==
    /\ adm[a].pc = "idle"
    /\ adm' = [adm EXCEPT ![a].pc = "find", ![a].url = u, ![a].max = n]
    /\ RangeStart(a)
    /\ UNCHANGED backendVars

\* FindServerByUrl compares the typed address with the parsed ones.
FindNext(a) ==
    /\ adm[a].pc = "find"
    /\ RangeNext(a)
    /\ url[RangeElement(a)] # adm[a].url
    /\ UNCHANGED <<adm, backendVars>>

\* "Server already exists"
FoundOne(a) ==
    /\ adm[a].pc = "find"
    /\ MoreToRange(a)
    /\ url[RangeElement(a)] = adm[a].url
    /\ RangeEnd(a)
    /\ Finish(a)
    /\ UNCHANGED backendVars

\* The checks on the form's numbers; a bad timeout ends the call like a bad
\* maximum.
FoundNone(a) ==
    /\ adm[a].pc = "find"
    /\ ~MoreToRange(a)
    /\ RangeEnd(a)
    /\ IF adm[a].max <= 0 THEN Finish(a)
       ELSE adm' = [adm EXCEPT ![a].pc = "create", ![a].max = @ % Int32Mod]
    /\ UNCHANGED backendVars

\* Faulty variant: the error is not looked at, and a nil server is added.
AddNil(a) ==
    /\ adm[a].pc = "create"
    /\ Parsed[adm[a].url] = NoUrl
    /\ AddServer(Nobody)
    /\ Finish(a)
    /\ UNCHANGED backendVars

\* "Bad URL"
BadUrl(a) ==
    /\ adm[a].pc = "create"
    /\ Parsed[adm[a].url] = NoUrl
    /\ Finish(a)
    /\ UNCHANGED <<backendVars, serverPoolVars>>

\* NewBackendConfig and lb.pool.AddServer
Create(a, b) ==
    /\ adm[a].pc = "create"
    /\ Parsed[adm[a].url] # NoUrl
    /\ NewBackend(b, Parsed[adm[a].url], adm[a].max)
    /\ AddServer(b)
    /\ adm' = [adm EXCEPT ![a].pc = "dial", ![a].new = b]

\* lb.healthCheckFunc(b), in two steps like the checker's own
DialNew(a) ==
    /\ adm[a].pc = "dial"
    /\ adm' = [adm EXCEPT ![a].pc = "report", ![a].up = CheckIfAlive(adm[a].new)]
    /\ UNCHANGED <<backendVars, serverPoolVars>>

ReportNew(a) ==
    /\ adm[a].pc = "report"
    /\ SetAlive(adm[a].new, adm[a].up)
    /\ Finish(a)
    /\ UNCHANGED serverPoolVars

-----------------------------------------------------------------------------
\* RemoveServerHandler, found or not; its one effect is under the mutex.
RemoveCall(a, u) ==
    /\ adm[a].pc = "idle"
    /\ RemoveServerByUrl(u)
    /\ Finish(a)
    /\ UNCHANGED backendVars

-----------------------------------------------------------------------------
\* GetServersHandler
ListCall(a) ==
    /\ adm[a].pc = "idle"
    /\ adm' = [adm EXCEPT ![a].pc = "listing"]
    /\ RangeStart(a)
    /\ UNCHANGED backendVars

ListNext(a) ==
    /\ adm[a].pc = "listing"
    /\ RangeNext(a)
    /\ adm' = [adm EXCEPT ![a].list = Append(@, RangeElement(a))]
    /\ UNCHANGED backendVars

ListEnd(a) ==
    /\ adm[a].pc = "listing"
    /\ ~MoreToRange(a)
    /\ RangeEnd(a)
    /\ adm' = [adm EXCEPT ![a].pc = "listed"]
    /\ UNCHANGED backendVars

Listed(a) ==
    /\ adm[a].pc = "listed"
    /\ Finish(a)
    /\ UNCHANGED <<backendVars, serverPoolVars>>

\* A call, from the moment it is made, runs to its end.
RunCall(a) ==
    \/ FindNext(a) \/ FoundOne(a) \/ FoundNone(a) \/ BadUrl(a)
    \/ \E b \in Backend : Create(a, b)
    \/ DialNew(a) \/ ReportNew(a)
    \/ ListNext(a) \/ ListEnd(a) \/ Listed(a)

AdminStep(a) ==
    \/ /\ "add" \in AdminOp
       /\ \E u \in AdminUrl, n \in MaxReqs : AddCall(a, u, n)
    \/ /\ "remove" \in AdminOp
       /\ \E u \in AdminUrl : RemoveCall(a, u)
    \/ "list" \in AdminOp /\ ListCall(a)
    \/ RunCall(a)
=============================================================================

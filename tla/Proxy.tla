------------------------------- MODULE Proxy --------------------------------
(***************************************************************************)
(* A request from its arrival to the storing of its answer, with what the  *)
(* pages hold: loadBalancerHandler, GetPageFromCache, InsertPageInCache,   *)
(* and the cleaner, which may take any page at any time.  CacheStore has   *)
(* the sizes and the counter; here are the clock, the headers, the         *)
(* contents of the files and who may be served what.                       *)
(*                                                                         *)
(* A page is the number of the answer it came from, in the order in which  *)
(* backends gave them.  It is read in Chunks pieces, 128 KB each, and      *)
(* written at once; all pages are equally long (CacheStore has those that  *)
(* are not).  How a backend is chosen and what it answers is Dispatch's    *)
(* matter: an answer, or none.                                             *)
(***************************************************************************)
EXTENDS Directives

CONSTANTS
    Request, Url,
    Question,   \* the methods and headers requests come with
    Offer,      \* the statuses and headers backends answer with
    Inode,      \* the files there may be
    Chunks,     \* how many reads a page takes
    NoUrl, NoMeta, NoFile, NoRequest,
    MaxAnswers, \* bound: how many answers backends give
    MaxTime     \* bound: how far the clock runs

Header == Seq(Seq(Seq(Directive)))

ASSUME HeadersAssumption ==
    /\ \A q \in Question : q.header \in Header
    /\ \A o \in Offer : o.header \in Header /\ o.status \in Nat

\* A request for u that is read at time t
Incoming(u, q, t) == [url |-> u, method |-> q.method, header |-> q.header,
                      directives |-> RequestDirectives(q.header, t)]

Time == 0 .. MaxTime

\* The requests and the metadata there may be
Asked == {Incoming(u, q, t) : u \in Url, q \in Question, t \in Time}

Info == {ResponseDirectives(o.header, t) : o \in Offer, t \in Time}

ASSUME ProxyAssumption ==
    /\ Chunks \in Nat \ {0}
    /\ MaxAnswers \in Nat
    /\ MaxTime \in Nat
    /\ NoUrl \notin Url
    /\ NoFile \notin Inode
    /\ NoRequest \notin Asked \cup [address : Url, cacheOnly : BOOLEAN]
    /\ NoMeta \notin Info

VARIABLES
    now,        \* the clock, in ticks
    meta,       \* the database: the directives kept of each page
    dir,        \* the file each address has on disk
    file,       \* of each file, whose it is and the page in it, 0 if none
    evicting,   \* the page whose file the cleaner is about to remove
    given,      \* history: the answers backends have given
    req,        \* what each request is, with the directives it was read for
    work,       \* how far each request is
    reply       \* what each request has been answered

cacheVars == <<meta, dir, file, evicting>>

requestVars == <<req, work, reply>>

vars == <<now, cacheVars, given, requestVars>>

Unanswered == [from |-> "nobody", status |-> 0, body |-> <<>>]

Start == [pc |-> "idle", info |-> NoMeta, fd |-> NoFile, got |-> <<>>, answer |-> 0]

Init ==
    /\ now = 0
    /\ meta = [u \in Url |-> NoMeta]
    /\ dir = [u \in Url |-> NoFile]
    /\ file = [i \in Inode |-> [of |-> NoUrl, holds |-> 0]]
    /\ evicting = NoUrl
    /\ given = <<>>
    /\ req = [r \in Request |-> NoRequest]
    /\ work = [r \in Request |-> Start]
    /\ reply = [r \in Request |-> Unanswered]

At(r, label) == work[r].pc = label

Become(r, w) == work' = [work EXCEPT ![r] = w]

Goto(r, label) == Become(r, [work[r] EXCEPT !.pc = label])

\* The request has no further use for what it has found in the cache.
Restart(r, label) == Become(r, [Start EXCEPT !.pc = label])

Reply(r, from, status, body) ==
    reply' = [reply EXCEPT ![r] = [from |-> from, status |-> status, body |-> body]]

\* getPageHandler and WriteBodyAndReturn write the headers and the body of an
\* answer.  Neither calls WriteHeader, so what net/http sends is a 200.
Relay(r, from, body) == Reply(r, from, 200, body)

-----------------------------------------------------------------------------
(* GetPageFromCache, in loadBalancerHandler                                *)

\* Faulty variant: the flag for the handler is set after the lookup in the
\* database, and not if that returns an error.
ArriveUnflagged(r, u, q) ==
    /\ At(r, "idle")
    /\ req' = [req EXCEPT ![r] = [Incoming(u, q, now) EXCEPT
                    !.directives.onlyIfCached = @ /\ meta[u] # NoMeta]]
    /\ Goto(r, "view")
    /\ UNCHANGED <<now, cacheVars, given, reply>>

\* The request comes, its directives are read and go into its context.
Arrive(r, u, q) ==
    /\ At(r, "idle")
    /\ req' = [req EXCEPT ![r] = Incoming(u, q, now)]
    /\ Goto(r, "view")
    /\ UNCHANGED <<now, cacheVars, given, reply>>

\* Any error of the lookup: 504 if nothing but the cache was asked for, a
\* backend otherwise.
Miss(r) ==
    IF req[r].directives.onlyIfCached
    THEN Restart(r, "done") /\ Reply(r, "balancer", 504, <<>>)
    ELSE Restart(r, "backend") /\ UNCHANGED reply

\* getPageMetadata's View
ViewMetadata(r) ==
    /\ At(r, "view")
    /\ IF meta[req[r].url] = NoMeta
       THEN Miss(r)
       ELSE /\ Become(r, [work[r] EXCEPT !.pc = "uses", !.info = meta[req[r].url]])
            /\ UNCHANGED reply
    /\ UNCHANGED <<now, cacheVars, given, req>>

\* getPageMetadata's Update, which panics if the page has gone
CountUse(r) ==
    /\ At(r, "uses")
    /\ IF meta[req[r].url] = NoMeta THEN Restart(r, "panicked") ELSE Goto(r, "fresh")
    /\ UNCHANGED <<now, cacheVars, given, req, reply>>

CheckFresh(r) ==
    /\ At(r, "fresh")
    /\ IF IsFresh(work[r].info, req[r].directives, now)
       THEN Restart(r, "open") /\ UNCHANGED reply
       ELSE Miss(r)
    /\ UNCHANGED <<now, cacheVars, given, req>>

\* The slice with the metadata was written over after its transaction: it
\* does not parse, or it does, and what it says is of another page.
MetadataGarbled(r) ==
    /\ At(r, "fresh")
    /\ Miss(r)
    /\ UNCHANGED <<now, cacheVars, given, req>>

MetadataOfOther(r) ==
    /\ At(r, "fresh")
    /\ \E info \in {meta[u] : u \in Url} \ {NoMeta} :
          Become(r, [work[r] EXCEPT !.info = info])
    /\ UNCHANGED <<now, cacheVars, given, req, reply>>

OpenPage(r) ==
    /\ At(r, "open")
    /\ IF dir[req[r].url] = NoFile
       THEN Goto(r, "drop")
       ELSE Become(r, [work[r] EXCEPT !.pc = "read", !.fd = dir[req[r].url]])
    /\ UNCHANGED <<now, cacheVars, given, req, reply>>

\* removePageMetadata, for a page without a file
DropMetadata(r) ==
    /\ At(r, "drop")
    /\ meta' = [meta EXCEPT ![req[r].url] = NoMeta]
    /\ Miss(r)
    /\ UNCHANGED <<now, dir, file, evicting, given, req>>

\* One read of the file.  A file that has been truncated meanwhile ends here,
\* and what has been read of it does not parse.
ReadChunk(r) ==
    LET page == file[work[r].fd].holds IN
    /\ At(r, "read")
    /\ Len(work[r].got) < Chunks
    /\ IF page = 0
       THEN Miss(r)
       ELSE Become(r, [work[r] EXCEPT !.got = Append(@, page)]) /\ UNCHANGED reply
    /\ UNCHANGED <<now, cacheVars, given, req>>

\* json.Unmarshal takes what was read for a page: it must if it is one.
Hit(r) ==
    /\ At(r, "read")
    /\ Len(work[r].got) = Chunks
    /\ Restart(r, "done")
    /\ Relay(r, "cache", work[r].got)
    /\ UNCHANGED <<now, cacheVars, given, req>>

\* The page cannot be written to the client, who will not get what follows
\* either.
HitFails(r) ==
    /\ At(r, "read")
    /\ Len(work[r].got) = Chunks
    /\ Miss(r)
    /\ UNCHANGED <<now, cacheVars, given, req>>

\* Pieces of different pages may or may not parse.
PageGarbled(r) ==
    LET got == work[r].got IN
    /\ At(r, "read")
    /\ Len(got) = Chunks
    /\ \E i, j \in DOMAIN got : got[i] # got[j]
    /\ Miss(r)
    /\ UNCHANGED <<now, cacheVars, given, req>>

-----------------------------------------------------------------------------
(* backendHandler, then SaveToCache and InsertPageInCache                  *)

\* No backend is left, or one breaks off while it sends the body.
NoAnswer(r) ==
    /\ At(r, "backend")
    /\ Restart(r, "done")
    /\ \E status \in {500, 503} : Reply(r, "balancer", status, <<>>)
    /\ UNCHANGED <<now, cacheVars, given, req>>

MayStore(r, o) ==
    Storable(req[r].method, req[r].directives, ResponseDirectives(o.header, now), o.status)

\* The answer is relayed, then a goroutine stores it if it may.
Answered(r, o) ==
    LET v == Len(given) + 1 IN
    /\ At(r, "backend")
    /\ v <= MaxAnswers
    /\ given' = Append(given, [url |-> req[r].url, method |-> req[r].method,
                               asked |-> req[r].header, offer |-> o])
    /\ Relay(r, "backend", [i \in 1 .. Chunks |-> v])
    /\ Become(r, IF MayStore(r, o) THEN [Start EXCEPT !.pc = "insert", !.answer = v]
                 ELSE [Start EXCEPT !.pc = "done"])
    /\ UNCHANGED <<now, cacheVars, req>>

\* The cache is full.
TooLarge(r) ==
    /\ At(r, "insert")
    /\ Restart(r, "done")
    /\ UNCHANGED <<now, cacheVars, given, req, reply>>

\* insertPageMetadataToDB: a page that is there keeps its metadata.
InsertMetadata(r) ==
    LET u == req[r].url IN
    /\ At(r, "insert")
    /\ meta' = [meta EXCEPT ![u] = IF @ # NoMeta THEN @
                    ELSE ResponseDirectives(given[work[r].answer].offer.header, now)]
    /\ Goto(r, "create")
    /\ UNCHANGED <<now, dir, file, evicting, given, req, reply>>

\* os.Create truncates the file of the address or makes a new one.  A file
\* that somebody still has open is not made anew.
InUse(i) == (\E u \in Url : dir[u] = i) \/ (\E r \in Request : work[r].fd = i)

CreateFile(r) ==
    LET u == req[r].url IN
    /\ At(r, "create")
    /\ \E i \in Inode :
          /\ IF dir[u] = NoFile THEN ~InUse(i) ELSE dir[u] = i
          /\ dir' = [dir EXCEPT ![u] = i]
          /\ file' = [file EXCEPT ![i] = [of |-> u, holds |-> 0]]
          /\ Become(r, [work[r] EXCEPT !.pc = "write", !.fd = i])
    /\ UNCHANGED <<now, meta, evicting, given, req, reply>>

WriteFile(r) ==
    /\ At(r, "write")
    /\ file' = [file EXCEPT ![work[r].fd].holds = work[r].answer]
    /\ Restart(r, "done")
    /\ UNCHANGED <<now, meta, dir, evicting, given, req, reply>>

\* The directory has been removed, or the device is full.
StoreFails(r) ==
    /\ At(r, "create") \/ At(r, "write")
    /\ Restart(r, "undo")
    /\ UNCHANGED <<now, cacheVars, given, req, reply>>

\* removePageMetadata, for a page that could not be written
UndoMetadata(r) ==
    /\ At(r, "undo")
    /\ meta' = [meta EXCEPT ![req[r].url] = NoMeta]
    /\ Restart(r, "done")
    /\ UNCHANGED <<now, dir, file, evicting, given, req, reply>>

RequestStep(r) ==
    \/ ViewMetadata(r) \/ CountUse(r) \/ CheckFresh(r)
    \/ MetadataGarbled(r) \/ MetadataOfOther(r)
    \/ OpenPage(r) \/ DropMetadata(r) \/ ReadChunk(r)
    \/ Hit(r) \/ HitFails(r) \/ PageGarbled(r)
    \/ NoAnswer(r) \/ \E o \in Offer : Answered(r, o)
    \/ TooLarge(r) \/ InsertMetadata(r) \/ CreateFile(r) \/ WriteFile(r)
    \/ StoreFails(r) \/ UndoMetadata(r)

-----------------------------------------------------------------------------
(* RemovePageFromCache by the cleaner: the metadata, then the file.  Who   *)
(* has the file open goes on using it.                                     *)

Evict(u) ==
    /\ evicting = NoUrl
    /\ meta[u] # NoMeta
    /\ meta' = [meta EXCEPT ![u] = NoMeta]
    /\ evicting' = u
    /\ UNCHANGED <<now, dir, file, given, requestVars>>

RemoveFile ==
    /\ evicting # NoUrl
    /\ dir' = [dir EXCEPT ![evicting] = NoFile]
    /\ evicting' = NoUrl
    /\ UNCHANGED <<now, meta, file, given, requestVars>>

Tick ==
    /\ now < MaxTime
    /\ now' = now + 1
    /\ UNCHANGED <<cacheVars, given, requestVars>>

Next ==
    \/ \E r \in Request :
          RequestStep(r) \/ \E u \in Url, q \in Question : Arrive(r, u, q)
    \/ \E u \in Url : Evict(u)
    \/ RemoveFile
    \/ Tick

Spec == Init /\ [][Next]_vars
-----------------------------------------------------------------------------
(* Types                                                                   *)

Label == {"idle", "view", "uses", "fresh", "open", "drop", "read", "panicked",
          "backend", "insert", "create", "write", "undo", "done"}

Page == 1 .. MaxAnswers

Given == [url : Url, method : {q.method : q \in Question},
          asked : {q.header : q \in Question}, offer : Offer]

Work == [pc : Label, info : Info \cup {NoMeta}, fd : Inode \cup {NoFile},
         got : Seq(Page), answer : Page \cup {0}]

Sent == [from : {"nobody", "balancer", "cache", "backend"},
         status : {0, 200, 500, 503, 504}, body : Seq(Page)]

TypeOK ==
    /\ now \in Time
    /\ meta \in [Url -> Info \cup {NoMeta}]
    /\ dir \in [Url -> Inode \cup {NoFile}]
    /\ file \in [Inode -> [of : Url \cup {NoUrl}, holds : Page \cup {0}]]
    /\ evicting \in Url \cup {NoUrl}
    /\ given \in Seq(Given) /\ Len(given) <= MaxAnswers
    /\ req \in [Request -> Asked \cup {NoRequest}]
    /\ work \in [Request -> Work]
    /\ reply \in [Request -> Sent]

-----------------------------------------------------------------------------
(* What the words of a header mean, however it is written: it has a        *)
(* directive of that name.                                                 *)
Has(header, name) ==
    \E l \in DOMAIN header : \E i \in DOMAIN header[l] : Mentions(header[l][i], name)

\* One line, semicolons between the directives, words without an argument
Plain(header) ==
    /\ Len(header) <= 1
    /\ \A l \in DOMAIN header : \A i \in DOMAIN header[l] :
          LET part == header[l][i] IN
          /\ Len(part) = 1
          /\ part[1].name \in {"no-store", "private", "only-if-cached"} => part[1].arg = NoArg

(* What a plain header has the cache must heed.  Of what the others have   *)
(* nothing is promised: OnlyIfCachedHeeded says what becomes of one.        *)
Demands(header, name) == Plain(header) /\ Has(header, name)

\* An answer that may be used again: all who were concerned agreed to it.
MayKeep(g) ==
    /\ g.method = "GET"
    /\ g.offer.status \in 200 .. 399
    /\ ~Demands(g.asked, "no-store")
    /\ ~Demands(g.offer.header, "no-store")
    /\ ~Demands(g.offer.header, "private")

Kept(u) == {v \in DOMAIN given : given[v].url = u /\ MayKeep(given[v])}

CacheOnly(r) == Demands(req[r].header, "only-if-cached")

(* The proxy keeps the promise of SharedCache: no interleaving of lookups, *)
(* stores, evictions and rewrites of a file that is being read serves a    *)
(* piece of an answer that was given for another address or that its       *)
(* backend or its client forbade to store, and every way a lookup fails    *)
(* leads a request that is only-if-cached to a 504, not to a backend.      *)
SC == INSTANCE SharedCache WITH
        Client <- Request, Address <- Url, Piece <- 1 .. Chunks, Silent <- NoRequest,
        asked <- [r \in Request |->
            IF req[r] = NoRequest THEN NoRequest
            ELSE [address |-> req[r].url, cacheOnly |-> CacheOnly(r)]],
        given <- [v \in DOMAIN given |->
            [address |-> given[v].url, keep |-> MayKeep(given[v])]],
        said <- [r \in Request |-> [from |-> reply[r].from, body |-> reply[r].body]]

ServesOnlyWhatItMay == SC!Spec

-----------------------------------------------------------------------------
(* The parts of the invariant that implies it                              *)

\* A file belongs to the address it lies at, and to those who opened it there.
FilesOwned ==
    /\ \A u \in Url : dir[u] \in Inode => file[dir[u]].of = u
    /\ \A r \in Request :
          /\ work[r].fd \in Inode => file[work[r].fd].of = req[r].url
          /\ At(r, "read") \/ At(r, "write") => work[r].fd \in Inode

\* What a file holds, and what is about to be written, may be kept.
FilesKept ==
    /\ \A i \in Inode : file[i].holds = 0 \/ file[i].holds \in Kept(file[i].of)
    /\ \A r \in Request :
          At(r, "insert") \/ At(r, "create") \/ At(r, "write") =>
              work[r].answer \in Kept(req[r].url)

\* What has been read of a page may be served.
ReadKept ==
    \A r \in Request :
        /\ Len(work[r].got) <= Chunks
        /\ \A j \in DOMAIN work[r].got : work[r].got[j] \in Kept(req[r].url)

\* Nobody is answered twice, or sent to a backend who must not be.
Waiting == {"idle", "view", "uses", "fresh", "open", "drop", "read", "backend"}

Unserved ==
    \A r \in Request :
        /\ At(r, "idle") <=> req[r] = NoRequest
        /\ At(r, "idle") => work[r] = Start
        /\ work[r].pc \in Waiting => reply[r] = Unanswered
        /\ At(r, "backend") => ~CacheOnly(r)

(* The inductive invariant: what the files and the requests under way hold *)
(* may be served to those who ask for that address (GetPageFromCache,      *)
(* InsertPageInCache).                                                     *)
IInv == TypeOK /\ FilesOwned /\ FilesKept /\ ReadKept /\ Unserved

-----------------------------------------------------------------------------
(* backend.go:150, saveToCache.go:9: the response is written to the        *)
(* client, and all the necessary information about it is saved.  Whatever  *)
(* is answered from a backend or from the cache is one response of a       *)
(* backend, whole, and with its status.                                    *)
AnswersAreBackends ==
    \A r \in Request : reply[r].from \in {"backend", "cache"} =>
        \E v \in DOMAIN given :
            /\ reply[r].status = given[v].offer.status
            /\ reply[r].body = [i \in 1 .. Chunks |-> v]

(* README.md:77: if there is one, the page is read from disk and returned  *)
(* to the client.  What is served from the cache is a page, and not pieces *)
(* of two that were written one after the other while the file was read.   *)
PagesServedWhole ==
    \A r \in Request : reply[r].from = "cache" =>
        \A i, j \in DOMAIN reply[r].body : reply[r].body[i] = reply[r].body[j]

(* cache.go:72: a client that says only-if-cached gets an error about      *)
(* missing cache, and so no answer of a backend, however it writes it.     *)
OnlyIfCachedHeeded ==
    \A r \in Request :
        reply[r].from = "backend" => ~Has(req[r].header, "only-if-cached")

(* insert.go:20: InsertPageInCache stores a new page or rewrites the       *)
(* current one, first its metadata: a page that nobody is storing lies     *)
(* beside its own metadata.                                                *)
MetadataOfItsPage ==
    \A u \in Url : \A i \in {dir[u]} \ {NoFile} :
        \/ \E r \in Request : req[r] # NoRequest /\ req[r].url = u /\ ~At(r, "done")
        \/ meta[u] = NoMeta
        \/ file[i].holds = 0
        \/ \E t \in Time :
              meta[u] = ResponseDirectives(given[file[i].holds].offer.header, t)
=============================================================================

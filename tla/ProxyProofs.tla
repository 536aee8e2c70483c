---------------------------- MODULE ProxyProofs ----------------------------
(***************************************************************************)
(* Theorems about Proxy, for every set of requests, addresses, files,      *)
(* questions and offers, any size of a page, any number of answers and any *)
(* time.  The headers are any there may be: what their directives ask is   *)
(* shown to be heeded where the header is Plain, and of the others that    *)
(* what is served was given for the address asked for.                     *)
(***************************************************************************)
EXTENDS Proxy, TLAPS

-----------------------------------------------------------------------------
(* Lemmas about headers                                                    *)

(* In a plain header a word is said if it is there (loadRequestDirectives, *)
(* loadResponseDirectives).                                                *)
LEMMA WordsAreRead ==
    ASSUME NEW h \in Header,
           NEW name \in {"no-store", "private", "only-if-cached"}, Demands(h, name)
    PROVE  Says(h, name)
<1>0. PICK l \in DOMAIN h : \E i \in DOMAIN h[l] : Mentions(h[l][i], name)
    BY DEF Demands, Has
<1>1. PICK i \in DOMAIN h[l] : Mentions(h[l][i], name)
    BY <1>0
<1>2. /\ h \in Seq(Seq(Seq(Directive))) /\ Len(h) <= 1
      /\ Len(h[l][i]) = 1
      /\ h[l][i][1].name = name => h[l][i][1].arg = NoArg
    BY <1>1 DEF Demands, Plain, Header
<1>3. l = 1 /\ h # <<>>
    BY <1>1, <1>2
<1>4. h[l] \in Seq(Seq(Directive))
    BY <1>1, <1>2
<1>5. h[l][i] \in Seq(Directive)
    BY <1>1, <1>4
<1> DEFINE part == h[l][i]
<1>6. part \in Seq(Directive) /\ Len(part) = 1
    BY <1>2, <1>5
<1>7. Mentions(part, name) /\ (part[1].name = name => part[1].arg = NoArg)
    BY <1>1, <1>2
<1>8. i \in DOMAIN Parts(h) /\ Parts(h)[i] = part
    BY <1>1, <1>3 DEF Parts
<1> HIDE DEF part
<1>9. part[1] \in Directive /\ part[1].name = name /\ part[1].arg = NoArg
    BY <1>6, <1>7 DEF Mentions
<1>10. part[1] = Word(name)
    BY <1>9 DEF Directive, Word
<1>11. part = <<Word(name)>>
    BY <1>6, <1>10
<1> QED
    BY <1>8, <1>11 DEF Says

(* What a request is once it has come.                                     *)
LEMMA RequestRead ==
    ASSUME NEW a \in Asked
    PROVE  /\ a.url \in Url
           /\ a.method \in {q.method : q \in Question}
           /\ a.header \in {q.header : q \in Question}
           /\ Demands(a.header, "only-if-cached") => a.directives.onlyIfCached
           /\ Demands(a.header, "no-store") => a.directives.noStore
<1>1. PICK u \in Url, q \in Question, t \in Time : a = Incoming(u, q, t)
    BY DEF Asked
<1>2. q.header \in Header
    BY HeadersAssumption
<1>3. /\ Demands(q.header, "only-if-cached") => Says(q.header, "only-if-cached")
      /\ Demands(q.header, "no-store") => Says(q.header, "no-store")
    BY <1>2, WordsAreRead
<1>4. /\ a.url = u /\ a.method = q.method /\ a.header = q.header
      /\ a.directives.onlyIfCached = Says(q.header, "only-if-cached")
      /\ a.directives.noStore = Says(q.header, "no-store")
    BY <1>1 DEF Incoming, RequestDirectives
<1> QED
    BY <1>3, <1>4

(* What passes the test of InsertPageInCache may be kept.                  *)
LEMMA StoredMayBeKept ==
    ASSUME NEW r \in Request, req[r] \in Asked, NEW o \in Offer, MayStore(r, o)
    PROVE  MayKeep([url |-> req[r].url, method |-> req[r].method,
                    asked |-> req[r].header, offer |-> o])
<1>1. o.header \in Header /\ o.status \in Nat
    BY HeadersAssumption
<1>2. /\ Demands(o.header, "no-store") => Says(o.header, "no-store")
      /\ Demands(o.header, "private") => Says(o.header, "private")
    BY <1>1, WordsAreRead
<1>3. Demands(req[r].header, "no-store") => req[r].directives.noStore
    BY RequestRead
<1> QED
    BY <1>1, <1>2, <1>3 DEF MayStore, Storable, ResponseDirectives, MayKeep
-----------------------------------------------------------------------------
(* Types                                                                   *)

(* What may become of the state of a request.                              *)
LEMMA WorkRecords ==
    ASSUME NEW w \in Work, NEW label \in Label
    PROVE  /\ [w EXCEPT !.pc = label] \in Work
           /\ \A i \in Info : [w EXCEPT !.pc = label, !.info = i] \in Work
           /\ \A f \in Inode : [w EXCEPT !.pc = label, !.fd = f] \in Work
           /\ \A n \in Page : [w EXCEPT !.pc = label, !.answer = n] \in Work
           /\ \A n \in Page : [w EXCEPT !.got = Append(@, n)] \in Work
<1>1. /\ [w EXCEPT !.pc = label] \in Work
      /\ \A i \in Info : [w EXCEPT !.pc = label, !.info = i] \in Work
      /\ \A f \in Inode : [w EXCEPT !.pc = label, !.fd = f] \in Work
      /\ \A n \in Page : [w EXCEPT !.pc = label, !.answer = n] \in Work
    BY DEF Work
<1>2. ASSUME NEW n \in Page PROVE [w EXCEPT !.got = Append(@, n)] \in Work
    <2>1. w.got \in Seq(Page)
        BY DEF Work
    <2>2. Append(w.got, n) \in Seq(Page)
        BY <2>1
    <2> QED
        BY <2>2 DEF Work
<1> QED
    BY <1>1, <1>2

LEMMA StartIsWork == Start \in Work
BY DEF Start, Work, Label

(* How a step of a request changes how far it is, and what it is told.     *)
LEMMA WorkTypes ==
    ASSUME TypeOK, NEW r \in Request
    PROVE  /\ \A w \in Work : Become(r, w) => work' \in [Request -> Work]
           /\ \A label \in Label : Goto(r, label) => work' \in [Request -> Work]
           /\ \A label \in Label : Restart(r, label) => work' \in [Request -> Work]
           /\ Miss(r) => work' \in [Request -> Work] /\ reply' \in [Request -> Sent]
<1>1. Start \in Work
    BY StartIsWork
<1>2. \A w \in Work, label \in Label : [w EXCEPT !.pc = label] \in Work
    BY WorkRecords
<1>3. \A w \in Work : Become(r, w) => work' \in [Request -> Work]
    BY DEF Become, TypeOK
<1>4. \A label \in Label : Goto(r, label) => work' \in [Request -> Work]
    BY <1>2, <1>3 DEF Goto, TypeOK
<1>5. \A label \in Label : Restart(r, label) => work' \in [Request -> Work]
    BY <1>1, <1>2, <1>3 DEF Restart
<1>6. "done" \in Label /\ "backend" \in Label
    BY DEF Label
<1>7. <<>> \in Seq(Page)
    OBVIOUS
<1>8. ASSUME Reply(r, "balancer", 504, <<>>) PROVE reply' \in [Request -> Sent]
    BY <1>7, <1>8 DEF Reply, Sent, TypeOK
<1>9. Miss(r) => work' \in [Request -> Work] /\ reply' \in [Request -> Sent]
    BY <1>5, <1>6, <1>8 DEF Miss, TypeOK
<1> QED
    BY <1>3, <1>4, <1>5, <1>9

(* Every step of a request keeps the types.                                *)
LEMMA RequestTypes ==
    ASSUME TypeOK, FilesOwned, FilesKept, NEW r \in Request, req[r] \in Asked,
           RequestStep(r)
    PROVE  TypeOK'
<1> USE DEF TypeOK
<1>0. /\ req[r].url \in Url
      /\ \A label \in {"uses", "fresh", "open", "drop", "read", "panicked", "backend",
                        "insert", "create", "write", "undo", "done"} : label \in Label
      /\ work[r] \in Work
    BY RequestRead DEF Label
<1>1. CASE ViewMetadata(r)
    <2>1. CASE meta[req[r].url] = NoMeta
        BY <1>1, <2>1, WorkTypes DEF ViewMetadata, cacheVars
    <2>2. CASE meta[req[r].url] # NoMeta
        <3>1. [work[r] EXCEPT !.pc = "uses", !.info = meta[req[r].url]] \in Work
            BY <1>0, <2>2, WorkRecords
        <3> QED
            BY <1>1, <2>2, <3>1, WorkTypes DEF ViewMetadata, cacheVars
    <2> QED
        BY <2>1, <2>2
<1>2. CASE CountUse(r)
    BY <1>0, <1>2, WorkTypes DEF CountUse, cacheVars
<1>3. CASE CheckFresh(r)
    BY <1>0, <1>3, WorkTypes DEF CheckFresh, cacheVars
<1>4. CASE MetadataGarbled(r) \/ HitFails(r)
    BY <1>4, WorkTypes DEF MetadataGarbled, HitFails, cacheVars
<1>5. CASE OpenPage(r)
    <2>1. dir[req[r].url] # NoFile =>
              [work[r] EXCEPT !.pc = "read", !.fd = dir[req[r].url]] \in Work
        BY <1>0, WorkRecords
    <2> QED
        BY <1>0, <1>5, <2>1, WorkTypes DEF OpenPage, cacheVars
<1>6. CASE DropMetadata(r)
    BY <1>0, <1>6, WorkTypes DEF DropMetadata
<1>7. CASE ReadChunk(r)
    <2>1. CASE file[work[r].fd].holds = 0
        BY <1>7, <2>1, WorkTypes DEF ReadChunk, cacheVars
    <2>2. CASE file[work[r].fd].holds # 0
        <3>1. work[r].fd \in Inode
            BY <1>7 DEF ReadChunk, At, FilesOwned
        <3>2. [work[r] EXCEPT !.got = Append(@, file[work[r].fd].holds)] \in Work
            BY <1>0, <2>2, <3>1, WorkRecords
        <3> QED
            BY <1>7, <2>2, <3>2, WorkTypes DEF ReadChunk, cacheVars
    <2> QED
        BY <2>1, <2>2
<1>8. CASE Hit(r)
    <2>1. work[r].got \in Seq(Page)
        BY DEF Work
    <2> QED
        BY <1>0, <1>8, <2>1, WorkTypes DEF Hit, Relay, Reply, Sent, cacheVars
<1>9. CASE PageGarbled(r)
    BY <1>9, WorkTypes DEF PageGarbled, cacheVars
<1>10. CASE NoAnswer(r)
    <2>1. <<>> \in Seq(Page)
        OBVIOUS
    <2> QED
        BY <1>0, <1>10, <2>1, WorkTypes DEF NoAnswer, Reply, Sent, cacheVars
<1>11. ASSUME NEW o \in Offer, Answered(r, o)
       PROVE  TypeOK'
    <2> DEFINE v == Len(given) + 1
    <2>1. v \in Page
        BY <1>11, ProxyAssumption DEF Answered, Page
    <2>2. [i \in 1 .. Chunks |-> v] \in Seq(Page)
        BY <2>1, ProxyAssumption
    <2>3. given' \in Seq(Given) /\ Len(given') <= MaxAnswers
        BY <1>0, <1>11, RequestRead, ProxyAssumption DEF Answered, Given
    <2>4. /\ [Start EXCEPT !.pc = "insert", !.answer = v] \in Work
          /\ [Start EXCEPT !.pc = "done"] \in Work
        <3>1. Start \in Work /\ "insert" \in Label /\ "done" \in Label
            BY <1>0, StartIsWork
        <3> HIDE DEF v, TypeOK
        <3> QED
            BY <2>1, <3>1, WorkRecords
    <2> QED
        BY <1>11, <2>2, <2>3, <2>4, WorkTypes DEF Answered, Relay, Reply, Sent, cacheVars
<1>12. CASE TooLarge(r)
    BY <1>0, <1>12, WorkTypes DEF TooLarge, cacheVars
<1>13. CASE InsertMetadata(r)
    <2>1. ResponseDirectives(given[work[r].answer].offer.header, now) \in Info
        <3>1. work[r].answer \in DOMAIN given
            BY <1>13 DEF InsertMetadata, FilesKept, Kept
        <3>2. given \in Seq(Given) /\ now \in Time
            OBVIOUS
        <3> HIDE DEF TypeOK
        <3>3. given[work[r].answer] \in Given
            BY <3>1, <3>2
        <3> QED
            BY <3>2, <3>3 DEF Given, Info
    <2> QED
        BY <1>0, <1>13, <2>1, WorkTypes DEF InsertMetadata
<1>14. CASE CreateFile(r)
    <2>1. PICK i \in Inode :
              /\ dir' = [dir EXCEPT ![req[r].url] = i]
              /\ file' = [file EXCEPT ![i] = [of |-> req[r].url, holds |-> 0]]
              /\ Become(r, [work[r] EXCEPT !.pc = "write", !.fd = i])
        BY <1>14 DEF CreateFile
    <2>2. [work[r] EXCEPT !.pc = "write", !.fd = i] \in Work
        BY <1>0, WorkRecords
    <2>3. work' \in [Request -> Work]
        BY <2>1, <2>2, WorkTypes
    <2> QED
        BY <1>0, <1>14, <2>1, <2>3 DEF CreateFile
<1>15. CASE WriteFile(r)
    <2>1. work[r].answer \in Page \cup {0}
        BY <1>0 DEF Work
    <2> QED
        BY <1>0, <1>15, <2>1, WorkTypes DEF WriteFile
<1>16. CASE StoreFails(r)
    BY <1>0, <1>16, WorkTypes DEF StoreFails, cacheVars
<1>17. CASE UndoMetadata(r)
    BY <1>0, <1>17, WorkTypes DEF UndoMetadata
<1>18. CASE MetadataOfOther(r)
    <2>1. PICK info \in {meta[u] : u \in Url} \ {NoMeta} :
              Become(r, [work[r] EXCEPT !.info = info])
        BY <1>18 DEF MetadataOfOther
    <2>2. [work[r] EXCEPT !.info = info] \in Work
        BY <1>0, <2>1 DEF Work
    <2> QED
        BY <1>18, <2>1, <2>2, WorkTypes DEF MetadataOfOther, cacheVars
<1> QED
    BY <1>1, <1>2, <1>3, <1>4, <1>5, <1>6, <1>7, <1>8, <1>9, <1>10, <1>11, <1>12,
       <1>13, <1>14, <1>15, <1>16, <1>17, <1>18 DEF RequestStep
-----------------------------------------------------------------------------
(* What the files and the requests hold                                    *)

(* No answer ceases to be one that may be kept.                            *)
LEMMA KeptGrows ==
    ASSUME given \in Seq(Given),
           given' = given \/ \E g \in Given : given' = Append(given, g),
           NEW u
    PROVE  Kept(u) \subseteq Kept(u)'
<1>1. \A v \in DOMAIN given : v \in DOMAIN given' /\ given'[v] = given[v]
    OBVIOUS
<1> QED
    BY <1>1 DEF Kept, MayKeep

(* A step of a request that touches no file: it may forget the file it has *)
(* open or open the one that lies at its address.                          *)
LEMMA LocalStep ==
    ASSUME IInv, NEW r \in Request, req[r] \in Asked,
           UNCHANGED <<dir, file, given, req>>,
           NEW w \in Work, Become(r, w),
           w.fd \in {NoFile, work[r].fd, dir[req[r].url]},
           w.pc \in {"read", "write"} => w.fd \in Inode,
           w.pc \in {"insert", "create", "write"} => w.answer \in Kept(req[r].url),
           Len(w.got) <= Chunks,
           \A j \in DOMAIN w.got : w.got[j] \in Kept(req[r].url)
    PROVE  FilesOwned' /\ FilesKept' /\ ReadKept'
<1>1. /\ work'[r] = w
      /\ \A s \in Request \ {r} : work'[s] = work[s]
    BY DEF IInv, TypeOK, Become
<1>2. \A u : Kept(u)' = Kept(u)
    BY DEF Kept, MayKeep
<1>3. req[r].url \in Url
    BY RequestRead
<1>4. FilesOwned'
    BY <1>1, <1>3, ProxyAssumption DEF IInv, FilesOwned, At
<1>5. FilesKept'
    BY <1>1, <1>2 DEF IInv, FilesKept, At
<1>6. ReadKept'
    BY <1>1, <1>2 DEF IInv, ReadKept
<1> QED
    BY <1>4, <1>5, <1>6

(* So is one that starts anew.                                             *)
LEMMA RestartStep ==
    ASSUME IInv, NEW r \in Request, req[r] \in Asked,
           UNCHANGED <<dir, file, given, req>>,
           NEW label \in Label \ {"read", "write", "insert", "create"}, Restart(r, label)
    PROVE  FilesOwned' /\ FilesKept' /\ ReadKept'
<1> DEFINE w == [Start EXCEPT !.pc = label]
<1>1. w \in Work
    BY StartIsWork, WorkRecords
<1>2. w.pc = label /\ w.fd = NoFile /\ w.got = <<>>
    BY DEF Start
<1>3. Become(r, w)
    BY DEF Restart
<1>4. Len(w.got) <= Chunks /\ DOMAIN w.got = {}
    BY <1>2, ProxyAssumption
<1> HIDE DEF w
<1> QED
    BY <1>1, <1>2, <1>3, <1>4, LocalStep

(* And one that goes on with what it has.                                  *)
LEMMA GotoStep ==
    ASSUME IInv, NEW r \in Request, req[r] \in Asked,
           UNCHANGED <<dir, file, given, req>>,
           NEW label \in Label \ {"read", "write"}, Goto(r, label),
           label \in {"insert", "create"} => work[r].answer \in Kept(req[r].url)
    PROVE  FilesOwned' /\ FilesKept' /\ ReadKept'
<1> DEFINE w == [work[r] EXCEPT !.pc = label]
<1>1. work[r] \in Work
    BY DEF IInv, TypeOK
<1>2. w \in Work
    BY <1>1, WorkRecords
<1>3. w.pc = label /\ w.fd = work[r].fd /\ w.got = work[r].got /\ w.answer = work[r].answer
    BY <1>1 DEF Work
<1>4. Become(r, w)
    BY DEF Goto
<1>5. Len(w.got) <= Chunks /\ \A j \in DOMAIN w.got : w.got[j] \in Kept(req[r].url)
    BY <1>3 DEF IInv, ReadKept
<1> HIDE DEF w
<1> QED
    BY <1>2, <1>3, <1>4, <1>5, LocalStep

(* Every way a lookup fails starts anew.                                   *)
LEMMA MissStep ==
    ASSUME IInv, NEW r \in Request, req[r] \in Asked,
           UNCHANGED <<dir, file, given, req>>, Miss(r)
    PROVE  FilesOwned' /\ FilesKept' /\ ReadKept'
<1>1. {"done", "backend"} \subseteq Label \ {"read", "write", "insert", "create"}
    BY DEF Label
<1> QED
    BY <1>1, RestartStep DEF Miss

(* Every step of a request keeps what the files and the requests hold.     *)
LEMMA RequestFiles ==
    ASSUME IInv, NEW r \in Request, req[r] \in Asked, RequestStep(r)
    PROVE  FilesOwned' /\ FilesKept' /\ ReadKept'
<1>0. /\ TypeOK /\ work[r] \in Work /\ req[r].url \in Url
      /\ {"uses", "fresh", "open", "drop", "panicked", "backend", "undo", "done"}
              \subseteq Label \ {"read", "write", "insert", "create"}
      /\ {"read", "write", "insert", "create"} \subseteq Label
    BY RequestRead DEF IInv, TypeOK, Label
<1>1. CASE ViewMetadata(r)
    <2>1. UNCHANGED <<dir, file, given, req>>
        BY <1>1 DEF ViewMetadata, cacheVars
    <2>2. CASE meta[req[r].url] = NoMeta
        BY <1>1, <2>1, <2>2, MissStep DEF ViewMetadata
    <2>3. CASE meta[req[r].url] # NoMeta
        <3> DEFINE w == [work[r] EXCEPT !.pc = "uses", !.info = meta[req[r].url]]
        <3>1. w \in Work
            BY <1>0, <2>3, WorkRecords DEF TypeOK
        <3>2. w.pc = "uses" /\ w.fd = work[r].fd /\ w.got = work[r].got
            BY <1>0 DEF Work
        <3>3. Become(r, w)
            BY <1>1, <2>3 DEF ViewMetadata
        <3>4. Len(w.got) <= Chunks /\ \A j \in DOMAIN w.got : w.got[j] \in Kept(req[r].url)
            BY <3>2 DEF IInv, ReadKept
        <3> HIDE DEF w
        <3> QED
            BY <2>1, <3>1, <3>2, <3>3, <3>4, LocalStep
    <2> QED
        BY <2>2, <2>3
<1>2. CASE CountUse(r)
    <2>1. UNCHANGED <<dir, file, given, req>>
        BY <1>2 DEF CountUse, cacheVars
    <2>2. Restart(r, "panicked") \/ Goto(r, "fresh")
        BY <1>2 DEF CountUse
    <2> QED
        BY <1>0, <2>1, <2>2, RestartStep, GotoStep
<1>3. CASE CheckFresh(r)
    <2>1. UNCHANGED <<dir, file, given, req>>
        BY <1>3 DEF CheckFresh, cacheVars
    <2>2. Restart(r, "open") \/ Miss(r)
        BY <1>3 DEF CheckFresh
    <2> QED
        BY <1>0, <2>1, <2>2, RestartStep, MissStep
<1>4. CASE MetadataGarbled(r) \/ HitFails(r)
    BY <1>4, MissStep DEF MetadataGarbled, HitFails, cacheVars
<1>5. CASE OpenPage(r)
    <2>1. UNCHANGED <<dir, file, given, req>>
        BY <1>5 DEF OpenPage, cacheVars
    <2>2. CASE dir[req[r].url] = NoFile
        <3>1. Goto(r, "drop")
            BY <1>5, <2>2 DEF OpenPage
        <3> QED
            BY <1>0, <2>1, <3>1, GotoStep
    <2>3. CASE dir[req[r].url] # NoFile
        <3> DEFINE w == [work[r] EXCEPT !.pc = "read", !.fd = dir[req[r].url]]
        <3>1. dir[req[r].url] \in Inode
            BY <1>0, <2>3 DEF TypeOK
        <3>2. w \in Work
            BY <1>0, <3>1, WorkRecords
        <3>3. w.pc = "read" /\ w.fd = dir[req[r].url] /\ w.got = work[r].got
            BY <1>0 DEF Work
        <3>4. Become(r, w)
            BY <1>5, <2>3 DEF OpenPage
        <3>5. Len(w.got) <= Chunks /\ \A j \in DOMAIN w.got : w.got[j] \in Kept(req[r].url)
            BY <3>3 DEF IInv, ReadKept
        <3> HIDE DEF w
        <3> QED
            BY <2>1, <3>1, <3>2, <3>3, <3>4, <3>5, LocalStep
    <2> QED
        BY <2>2, <2>3
<1>6. CASE DropMetadata(r)
    BY <1>6, MissStep DEF DropMetadata
<1>7. CASE ReadChunk(r)
    <2>1. UNCHANGED <<dir, file, given, req>>
        BY <1>7 DEF ReadChunk, cacheVars
    <2>2. CASE file[work[r].fd].holds = 0
        BY <1>7, <2>1, <2>2, MissStep DEF ReadChunk
    <2>3. CASE file[work[r].fd].holds # 0
        <3> DEFINE page == file[work[r].fd].holds
                   w == [work[r] EXCEPT !.got = Append(@, page)]
        <3>1. work[r].fd \in Inode /\ file[work[r].fd].of = req[r].url
            BY <1>7 DEF ReadChunk, IInv, FilesOwned
        <3>2. page \in Kept(req[r].url)
            BY <2>3, <3>1 DEF IInv, FilesKept
        <3>3. page \in Page
            BY <1>0, <2>3, <3>1 DEF TypeOK
        <3>4. w \in Work
            BY <1>0, <3>3, WorkRecords
        <3>5. /\ w.pc = "read" /\ w.fd = work[r].fd
              /\ w.got = Append(work[r].got, page) /\ work[r].got \in Seq(Page)
            BY <1>0, <1>7 DEF Work, ReadChunk, At
        <3>6. Become(r, w)
            BY <1>7, <2>3 DEF ReadChunk
        <3>7. /\ Len(work[r].got) < Chunks
              /\ \A j \in DOMAIN work[r].got : work[r].got[j] \in Kept(req[r].url)
            BY <1>7 DEF ReadChunk, IInv, ReadKept
        <3> HIDE DEF page, w
        <3>8. Len(w.got) <= Chunks /\ \A j \in DOMAIN w.got : w.got[j] \in Kept(req[r].url)
            BY <3>2, <3>3, <3>5, <3>7, ProxyAssumption
        <3> QED
            BY <2>1, <3>1, <3>4, <3>5, <3>6, <3>8, LocalStep
    <2> QED
        BY <2>2, <2>3
<1>8. CASE Hit(r)
    BY <1>0, <1>8, RestartStep DEF Hit, cacheVars
<1>9. CASE PageGarbled(r)
    BY <1>9, MissStep DEF PageGarbled, cacheVars
<1>10. CASE NoAnswer(r)
    BY <1>0, <1>10, RestartStep DEF NoAnswer, cacheVars
<1>11. ASSUME NEW o \in Offer, Answered(r, o)
       PROVE  FilesOwned' /\ FilesKept' /\ ReadKept'
    <2> DEFINE v == Len(given) + 1
               g == [url |-> req[r].url, method |-> req[r].method,
                     asked |-> req[r].header, offer |-> o]
    <2>1. g \in Given
        BY RequestRead DEF Given
    <2>2. /\ given \in Seq(Given) /\ given' = Append(given, g)
          /\ UNCHANGED <<dir, file, req>>
        BY <1>0, <1>11 DEF Answered, cacheVars, TypeOK
    <2>3. \A u : Kept(u) \subseteq Kept(u)'
        BY <2>1, <2>2, KeptGrows
    <2>4. /\ work \in [Request -> Work]
          /\ \A s \in Request : Kept(req[s].url) \subseteq Kept(req[s].url)'
        BY <1>0, <2>2, <2>3 DEF TypeOK, Kept
    <2> DEFINE w == IF MayStore(r, o) THEN [Start EXCEPT !.pc = "insert", !.answer = v]
                    ELSE [Start EXCEPT !.pc = "done"]
    <2>5. /\ Become(r, w) /\ w.fd = NoFile /\ w.got = <<>>
          /\ IF MayStore(r, o) THEN w.pc = "insert" /\ w.answer = v ELSE w.pc = "done"
        <3>1. Become(r, w)
            BY <1>11 DEF Answered
        <3>2. CASE MayStore(r, o)
            BY <3>1, <3>2 DEF Start
        <3>3. CASE ~MayStore(r, o)
            BY <3>1, <3>3 DEF Start
        <3> QED
            BY <3>2, <3>3
    <2> HIDE DEF w
    <2>6. /\ work'[r] = w
          /\ \A s \in Request \ {r} : work'[s] = work[s]
        BY <2>4, <2>5 DEF Become
    <2>7. MayStore(r, o) => v \in Kept(req[r].url)'
        <3>1. v \in DOMAIN given' /\ given'[v] = g
            BY <2>1, <2>2
        <3>2. MayStore(r, o) => MayKeep(g)
            BY StoredMayBeKept
        <3> HIDE DEF v, g
        <3>3. g.url = req[r].url
            BY DEF g
        <3> QED
            BY <2>2, <3>1, <3>2, <3>3 DEF Kept
    <2>8. FilesOwned'
        BY <2>2, <2>5, <2>6, ProxyAssumption DEF IInv, FilesOwned, At
    <2>9. FilesKept'
        <3>1. \A i \in Inode : file'[i].holds = 0 \/ file'[i].holds \in Kept(file[i].of)'
            BY <2>2, <2>3 DEF IInv, FilesKept
        <3>2. ASSUME NEW s \in Request \ {r}, (At(s, "insert") \/ At(s, "create") \/ At(s, "write"))'
              PROVE  work'[s].answer \in Kept(req[s].url)'
            BY <2>4, <2>6, <3>2 DEF IInv, FilesKept, At
        <3>3. ASSUME (At(r, "insert") \/ At(r, "create") \/ At(r, "write"))'
              PROVE  work'[r].answer \in Kept(req[r].url)'
            BY <2>5, <2>6, <2>7, <3>3 DEF At
        <3> QED
            BY <2>2, <3>1, <3>2, <3>3 DEF FilesKept, Kept
    <2>10. ReadKept'
        <3>1. \A s \in Request \ {r} :
                  /\ Len(work'[s].got) <= Chunks
                  /\ \A j \in DOMAIN work'[s].got : work'[s].got[j] \in Kept(req[s].url)'
            BY <2>4, <2>6 DEF IInv, ReadKept
        <3>2. Len(work'[r].got) <= Chunks /\ DOMAIN work'[r].got = {}
            BY <2>5, <2>6, ProxyAssumption
        <3> QED
            BY <2>2, <3>1, <3>2 DEF ReadKept, Kept
    <2> QED
        BY <2>8, <2>9, <2>10
<1>12. CASE TooLarge(r)
    BY <1>0, <1>12, RestartStep DEF TooLarge, cacheVars
<1>13. CASE InsertMetadata(r)
    <2>1. work[r].answer \in Kept(req[r].url)
        BY <1>13 DEF InsertMetadata, IInv, FilesKept
    <2> QED
        BY <1>0, <1>13, <2>1, GotoStep DEF InsertMetadata
<1>14. CASE CreateFile(r)
    <2>1. PICK i \in Inode :
              /\ IF dir[req[r].url] = NoFile THEN ~InUse(i) ELSE dir[req[r].url] = i
              /\ dir' = [dir EXCEPT ![req[r].url] = i]
              /\ file' = [file EXCEPT ![i] = [of |-> req[r].url, holds |-> 0]]
              /\ Become(r, [work[r] EXCEPT !.pc = "write", !.fd = i])
        BY <1>14 DEF CreateFile
    <2>2. UNCHANGED <<given, req>> /\ work[r].answer \in Kept(req[r].url)
        BY <1>14 DEF CreateFile, IInv, FilesKept
    <2>3. /\ work'[r].pc = "write" /\ work'[r].fd = i /\ work'[r].got = work[r].got
          /\ work'[r].answer = work[r].answer
          /\ \A s \in Request \ {r} : work'[s] = work[s]
        BY <1>0, <2>1 DEF Become, TypeOK, Work
    <2>4. /\ dir'[req[r].url] = i /\ \A u \in Url \ {req[r].url} : dir'[u] = dir[u]
          /\ file'[i].of = req[r].url /\ file'[i].holds = 0
          /\ \A j \in Inode \ {i} : file'[j] = file[j]
        BY <1>0, <2>1 DEF TypeOK
    <2>5. \A u : Kept(u)' = Kept(u)
        BY <2>2 DEF Kept, MayKeep
    \* Whoever has the file has it for the same address.
    <2>6. /\ \A u \in Url : dir[u] = i => u = req[r].url \/ file[i].of = req[r].url
          /\ \A s \in Request : work[s].fd = i => req[s].url = req[r].url
        BY <1>0, <2>1 DEF IInv, FilesOwned, InUse
    <2>7. \A u \in Url : dir[u] = i => u = req[r].url
        BY <1>0, <2>6 DEF IInv, FilesOwned
    <2>8. FilesOwned'
        BY <2>2, <2>3, <2>4, <2>6, <2>7 DEF IInv, FilesOwned, At
    <2>9. FilesKept'
        <3>1. \A j \in Inode :
                  \/ file'[j].holds = 0
                  \/ file'[j].holds \in Kept(file[j].of) /\ file'[j].of = file[j].of
            BY <2>4 DEF IInv, FilesKept
        <3>2. \A s \in Request :
                  (At(s, "insert") \/ At(s, "create") \/ At(s, "write"))' =>
                      work'[s].answer \in Kept(req[s].url)
            BY <2>2, <2>3 DEF IInv, FilesKept, At
        <3>3. \A j \in Inode : file'[j].holds = 0 \/ file'[j].holds \in Kept(file[j].of)'
            BY <2>2, <3>1 DEF Kept
        <3>4. \A s \in Request : Kept(req[s].url)' = Kept(req[s].url)
            BY <2>2 DEF Kept
        <3> QED
            BY <3>2, <3>3, <3>4 DEF FilesKept
    <2>10. ReadKept'
        BY <2>2, <2>3, <2>5 DEF IInv, ReadKept
    <2> QED
        BY <2>8, <2>9, <2>10
<1>15. CASE WriteFile(r)
    <2> DEFINE i == work[r].fd
               w == [Start EXCEPT !.pc = "done"]
    <2>1. /\ file' = [file EXCEPT ![i].holds = work[r].answer]
          /\ UNCHANGED <<dir, given, req>>
          /\ Become(r, w)
        BY <1>15 DEF WriteFile, Restart
    <2>2. /\ i \in Inode /\ file[i].of = req[r].url
          /\ work[r].answer \in Kept(req[r].url)
        BY <1>15 DEF WriteFile, IInv, FilesOwned, FilesKept
    <2>3. w.pc = "done" /\ w.fd = NoFile /\ w.got = <<>>
        BY DEF Start
    <2>4. work'[r] = w /\ \A s \in Request \ {r} : work'[s] = work[s]
        BY <1>0, <2>1 DEF Become, TypeOK
    <2> HIDE DEF w, i
    <2>5. /\ \A j \in Inode : file'[j].of = file[j].of
          /\ file'[i].holds = work[r].answer
          /\ \A j \in Inode \ {i} : file'[j].holds = file[j].holds
        BY <1>0, <2>1, <2>2 DEF TypeOK
    <2>6. \A u : Kept(u)' = Kept(u)
        BY <2>1 DEF Kept, MayKeep
    <2>7. FilesOwned'
        <3>1. \A u \in Url : dir'[u] \in Inode => file'[dir'[u]].of = u
            BY <2>1, <2>5 DEF IInv, FilesOwned
        <3>2. \A s \in Request :
                  /\ work'[s].fd \in Inode => file'[work'[s].fd].of = req'[s].url
                  /\ (At(s, "read") \/ At(s, "write"))' => work'[s].fd \in Inode
            BY <2>1, <2>3, <2>4, <2>5, ProxyAssumption DEF IInv, FilesOwned, At
        <3> QED
            BY <3>1, <3>2 DEF FilesOwned
    <2>8. FilesKept'
        <3>1. \A j \in Inode : file'[j].holds = 0 \/ file'[j].holds \in Kept(file[j].of)
            BY <2>2, <2>5 DEF IInv, FilesKept
        <3>2. \A s \in Request :
                  (At(s, "insert") \/ At(s, "create") \/ At(s, "write"))' =>
                      work'[s].answer \in Kept(req[s].url)
            BY <2>1, <2>3, <2>4 DEF IInv, FilesKept, At
        <3> QED
            BY <2>1, <2>5, <3>1, <3>2 DEF FilesKept, Kept
    <2>9. ReadKept'
        <3>1. Len(w.got) <= Chunks /\ DOMAIN w.got = {}
            BY <2>3, ProxyAssumption
        <3> QED
            BY <2>1, <2>4, <2>6, <3>1 DEF IInv, ReadKept
    <2> QED
        BY <2>7, <2>8, <2>9
<1>16. CASE StoreFails(r)
    BY <1>0, <1>16, RestartStep DEF StoreFails, cacheVars
<1>17. CASE UndoMetadata(r)
    BY <1>0, <1>17, RestartStep DEF UndoMetadata
<1>18. CASE MetadataOfOther(r)
    <2>1. PICK info \in {meta[u] : u \in Url} \ {NoMeta} :
              Become(r, [work[r] EXCEPT !.info = info])
        BY <1>18 DEF MetadataOfOther
    <2> DEFINE w == [work[r] EXCEPT !.info = info]
    <2>2. w \in Work
        BY <1>0, <2>1 DEF Work, TypeOK
    <2>3. w.pc = "fresh" /\ w.fd = work[r].fd /\ w.got = work[r].got
        BY <1>0, <1>18 DEF Work, MetadataOfOther, At
    <2>4. Become(r, w) /\ UNCHANGED <<dir, file, given, req>>
        BY <1>18, <2>1 DEF MetadataOfOther, cacheVars
    <2>5. Len(w.got) <= Chunks /\ \A j \in DOMAIN w.got : w.got[j] \in Kept(req[r].url)
        BY <2>3 DEF IInv, ReadKept
    <2> HIDE DEF w
    <2> QED
        BY <2>2, <2>3, <2>4, <2>5, LocalStep
<1> QED
    BY <1>1, <1>2, <1>3, <1>4, <1>5, <1>6, <1>7, <1>8, <1>9, <1>10, <1>11, <1>12,
       <1>13, <1>14, <1>15, <1>16, <1>17, <1>18 DEF RequestStep
-----------------------------------------------------------------------------
(* Who has been answered                                                   *)

(* A step that leaves a request waiting answers nobody.                    *)
LEMMA UnservedStep ==
    ASSUME IInv, NEW r \in Request, UNCHANGED req, req[r] \in Asked,
           NEW w, Become(r, w), w.pc # "idle",
           w.pc = "backend" => ~CacheOnly(r),
           reply' = reply \/ \E x : reply' = [reply EXCEPT ![r] = x],
           w.pc \in Waiting => reply' = reply /\ work[r].pc \in Waiting
    PROVE  Unserved'
<1>1. work'[r] = w /\ \A s \in Request \ {r} : work'[s] = work[s]
    BY DEF IInv, TypeOK, Become
<1>2. \A s \in Request \ {r} : reply'[s] = reply[s]
    BY DEF IInv, TypeOK
<1>3. \A s \in Request : CacheOnly(s)' = CacheOnly(s)
    BY DEF CacheOnly, Demands, Plain, Has, Mentions
<1>4. req[r] # NoRequest
    BY ProxyAssumption
<1> QED
    BY <1>1, <1>2, <1>3, <1>4 DEF IInv, Unserved, At

LEMMA RestartUnserved ==
    ASSUME IInv, NEW r \in Request, UNCHANGED req, req[r] \in Asked,
           NEW label \in Label \ {"idle"}, Restart(r, label),
           label = "backend" => ~CacheOnly(r),
           reply' = reply \/ \E x : reply' = [reply EXCEPT ![r] = x],
           label \in Waiting => reply' = reply /\ work[r].pc \in Waiting
    PROVE  Unserved'
<1> DEFINE w == [Start EXCEPT !.pc = label]
<1>1. w.pc = label /\ Become(r, w)
    BY DEF Start, Restart
<1> HIDE DEF w
<1> QED
    BY <1>1, UnservedStep

LEMMA GotoUnserved ==
    ASSUME IInv, NEW r \in Request, UNCHANGED <<req, reply>>, req[r] \in Asked,
           NEW label \in Label \ {"idle", "backend"}, Goto(r, label),
           label \in Waiting => work[r].pc \in Waiting
    PROVE  Unserved'
<1> DEFINE w == [work[r] EXCEPT !.pc = label]
<1>1. w.pc = label /\ Become(r, w)
    BY DEF Goto, IInv, TypeOK, Work
<1> HIDE DEF w
<1> QED
    BY <1>1, UnservedStep

(* A request that wants nothing but the cache does not wait for a backend. *)
LEMMA MissUnserved ==
    ASSUME IInv, NEW r \in Request, UNCHANGED req, req[r] \in Asked,
           work[r].pc \in Waiting, Miss(r)
    PROVE  Unserved'
<1>1. {"done", "backend"} \subseteq Label \ {"idle"} /\ "done" \notin Waiting
    BY DEF Label, Waiting
<1>2. CacheOnly(r) => req[r].directives.onlyIfCached
    BY RequestRead DEF CacheOnly
<1>3. CASE req[r].directives.onlyIfCached
    BY <1>1, <1>3, RestartUnserved DEF Miss, Reply
<1>4. CASE ~req[r].directives.onlyIfCached
    BY <1>1, <1>2, <1>4, RestartUnserved DEF Miss
<1> QED
    BY <1>3, <1>4

LEMMA RequestUnserved ==
    ASSUME IInv, NEW r \in Request, req[r] \in Asked, RequestStep(r)
    PROVE  Unserved'
<1>0. /\ {"uses", "fresh", "open", "drop", "panicked", "undo", "done", "create"}
             \subseteq Label \ {"idle", "backend"}
      /\ {"view", "uses", "fresh", "open", "drop", "read", "backend"} \subseteq Waiting
      /\ {"panicked", "undo", "done", "insert", "create", "write"} \cap Waiting = {}
      /\ work[r] \in Work
    BY DEF Label, Waiting, IInv, TypeOK
<1>1. CASE ViewMetadata(r)
    <2>1. UNCHANGED req /\ work[r].pc \in Waiting
        BY <1>0, <1>1 DEF ViewMetadata, At
    <2>2. CASE meta[req[r].url] = NoMeta
        BY <1>1, <2>1, <2>2, MissUnserved DEF ViewMetadata
    <2>3. CASE meta[req[r].url] # NoMeta
        <3> DEFINE w == [work[r] EXCEPT !.pc = "uses", !.info = meta[req[r].url]]
        <3>1. w.pc = "uses" /\ Become(r, w) /\ UNCHANGED reply
            BY <1>0, <1>1, <2>3 DEF ViewMetadata, Work
        <3> HIDE DEF w
        <3> QED
            BY <2>1, <3>1, UnservedStep
    <2> QED
        BY <2>2, <2>3
<1>2. CASE CountUse(r)
    <2>1. UNCHANGED <<req, reply>> /\ work[r].pc \in Waiting
        BY <1>0, <1>2 DEF CountUse, At
    <2>2. Restart(r, "panicked") \/ Goto(r, "fresh")
        BY <1>2 DEF CountUse
    <2> QED
        BY <1>0, <2>1, <2>2, RestartUnserved, GotoUnserved
<1>3. CASE CheckFresh(r)
    <2>1. UNCHANGED req /\ work[r].pc \in Waiting
        BY <1>0, <1>3 DEF CheckFresh, At
    <2>2. (Restart(r, "open") /\ UNCHANGED reply) \/ Miss(r)
        BY <1>3 DEF CheckFresh
    <2> QED
        BY <1>0, <2>1, <2>2, RestartUnserved, MissUnserved
<1>4. CASE MetadataGarbled(r) \/ HitFails(r)
    BY <1>0, <1>4, MissUnserved DEF MetadataGarbled, HitFails, At
<1>5. CASE OpenPage(r)
    <2>1. UNCHANGED <<req, reply>> /\ work[r].pc \in Waiting
        BY <1>0, <1>5 DEF OpenPage, At
    <2>2. CASE dir[req[r].url] = NoFile
        BY <1>0, <1>5, <2>1, <2>2, GotoUnserved DEF OpenPage
    <2>3. CASE dir[req[r].url] # NoFile
        <3> DEFINE w == [work[r] EXCEPT !.pc = "read", !.fd = dir[req[r].url]]
        <3>1. w.pc = "read" /\ Become(r, w)
            BY <1>0, <1>5, <2>3 DEF OpenPage, Work
        <3> HIDE DEF w
        <3> QED
            BY <2>1, <3>1, UnservedStep
    <2> QED
        BY <2>2, <2>3
<1>6. CASE DropMetadata(r)
    BY <1>0, <1>6, MissUnserved DEF DropMetadata, At
<1>7. CASE ReadChunk(r)
    <2>1. UNCHANGED req /\ work[r].pc \in Waiting
        BY <1>0, <1>7 DEF ReadChunk, At
    <2>2. CASE file[work[r].fd].holds = 0
        BY <1>7, <2>1, <2>2, MissUnserved DEF ReadChunk
    <2>3. CASE file[work[r].fd].holds # 0
        <3> DEFINE w == [work[r] EXCEPT !.got = Append(@, file[work[r].fd].holds)]
        <3>1. w.pc = "read" /\ Become(r, w) /\ UNCHANGED reply
            BY <1>0, <1>7, <2>3 DEF ReadChunk, Work, At
        <3> HIDE DEF w
        <3> QED
            BY <2>1, <3>1, UnservedStep
    <2> QED
        BY <2>2, <2>3
<1>8. CASE Hit(r)
    BY <1>0, <1>8, RestartUnserved DEF Hit, Relay, Reply
<1>9. CASE PageGarbled(r)
    BY <1>0, <1>9, MissUnserved DEF PageGarbled, At
<1>10. CASE NoAnswer(r)
    <2>1. PICK status \in {500, 503} : Reply(r, "balancer", status, <<>>)
        BY <1>10 DEF NoAnswer
    <2>2. \E x : reply' = [reply EXCEPT ![r] = x]
        <3> DEFINE a == [from |-> "balancer", status |-> status, body |-> <<>>]
        <3>1. reply' = [reply EXCEPT ![r] = a]
            BY <2>1, Zenon DEF Reply
        <3> HIDE DEF a
        <3> QED
            BY <3>1
    <2>3. Restart(r, "done") /\ UNCHANGED req
        BY <1>10 DEF NoAnswer
    <2> QED
        BY <1>0, <2>2, <2>3, RestartUnserved DEF Label, Waiting
<1>11. ASSUME NEW o \in Offer, Answered(r, o)
       PROVE  Unserved'
    <2> DEFINE w == IF MayStore(r, o)
                    THEN [Start EXCEPT !.pc = "insert", !.answer = Len(given) + 1]
                    ELSE [Start EXCEPT !.pc = "done"]
    <2>1. w.pc \in {"insert", "done"}
        BY DEF Start
    <2>2. Become(r, w) /\ UNCHANGED req /\ \E x : reply' = [reply EXCEPT ![r] = x]
        BY <1>11 DEF Answered, Relay, Reply
    <2> HIDE DEF w
    <2> QED
        BY <1>0, <2>1, <2>2, UnservedStep
<1>12. CASE TooLarge(r)
    BY <1>0, <1>12, RestartUnserved DEF TooLarge
<1>13. CASE InsertMetadata(r)
    BY <1>0, <1>13, GotoUnserved DEF InsertMetadata
<1>14. CASE CreateFile(r)
    <2>1. PICK i \in Inode : Become(r, [work[r] EXCEPT !.pc = "write", !.fd = i])
        BY <1>14 DEF CreateFile
    <2> DEFINE w == [work[r] EXCEPT !.pc = "write", !.fd = i]
    <2>2. w.pc = "write" /\ Become(r, w) /\ UNCHANGED <<req, reply>>
        BY <1>0, <1>14, <2>1 DEF CreateFile, Work
    <2> HIDE DEF w
    <2> QED
        BY <1>0, <2>2, UnservedStep
<1>15. CASE WriteFile(r)
    BY <1>0, <1>15, RestartUnserved DEF WriteFile
<1>16. CASE StoreFails(r)
    BY <1>0, <1>16, RestartUnserved DEF StoreFails
<1>17. CASE UndoMetadata(r)
    BY <1>0, <1>17, RestartUnserved DEF UndoMetadata
<1>18. CASE MetadataOfOther(r)
    <2>1. PICK info \in {meta[u] : u \in Url} \ {NoMeta} :
              Become(r, [work[r] EXCEPT !.info = info])
        BY <1>18 DEF MetadataOfOther
    <2> DEFINE w == [work[r] EXCEPT !.info = info]
    <2>2. w.pc = "fresh" /\ Become(r, w) /\ UNCHANGED <<req, reply>>
        BY <1>0, <1>18, <2>1 DEF Work, MetadataOfOther, At
    <2> HIDE DEF w
    <2> QED
        BY <1>0, <1>18, <2>2, UnservedStep DEF MetadataOfOther, At
<1> QED
    BY <1>1, <1>2, <1>3, <1>4, <1>5, <1>6, <1>7, <1>8, <1>9, <1>10, <1>11, <1>12,
       <1>13, <1>14, <1>15, <1>16, <1>17, <1>18 DEF RequestStep
-----------------------------------------------------------------------------
(* The other steps                                                         *)

(* A request that comes has nothing yet.                                   *)
LEMMA ArriveStep ==
    ASSUME IInv, NEW r \in Request, NEW u \in Url, NEW q \in Question, Arrive(r, u, q)
    PROVE  IInv'
<1> DEFINE a == Incoming(u, q, now)
           w == [work[r] EXCEPT !.pc = "view"]
<1>1. a \in Asked /\ a.url = u
    BY DEF IInv, TypeOK, Asked, Incoming
<1>2. /\ req' = [req EXCEPT ![r] = a] /\ Become(r, w) /\ work[r].pc = "idle"
      /\ UNCHANGED <<now, meta, dir, file, evicting, given, reply>>
    BY DEF Arrive, Goto, At, cacheVars
<1>3. work[r] = Start /\ Start \in Work /\ "view" \in Label
    BY <1>2, StartIsWork DEF IInv, Unserved, At, Label
<1>4. w \in Work /\ w.pc = "view" /\ w.fd = NoFile /\ w.got = <<>>
    <2>1. w \in Work
        BY <1>3, WorkRecords
    <2>2. w.pc = "view" /\ w.fd = NoFile /\ w.got = <<>>
        BY <1>3 DEF Start
    <2> QED
        BY <2>1, <2>2
<1> HIDE DEF a, w
<1>5. /\ work'[r] = w /\ \A s \in Request \ {r} : work'[s] = work[s]
      /\ req'[r] = a /\ \A s \in Request \ {r} : req'[s] = req[s]
    BY <1>2 DEF IInv, TypeOK, Become
<1>6. TypeOK'
    <2>1. work' \in [Request -> Work]
        BY <1>2, <1>4, WorkTypes DEF IInv
    <2> QED
        BY <1>1, <1>2, <2>1 DEF IInv, TypeOK
<1>7. \A v : Kept(v)' = Kept(v)
    BY <1>2 DEF Kept, MayKeep
<1>8. FilesOwned'
    BY <1>2, <1>4, <1>5, ProxyAssumption DEF IInv, FilesOwned, At
<1>9. FilesKept'
    <2>1. \A s \in Request :
              (At(s, "insert") \/ At(s, "create") \/ At(s, "write"))' =>
                  s # r /\ work'[s].answer \in Kept(req'[s].url)
        BY <1>4, <1>5 DEF IInv, FilesKept, At
    <2> QED
        BY <1>2, <1>7, <2>1 DEF IInv, FilesKept, Kept
<1>10. ReadKept'
    <2>1. Len(w.got) <= Chunks /\ DOMAIN w.got = {}
        BY <1>4, ProxyAssumption
    <2>2. \A s \in Request :
              /\ Len(work'[s].got) <= Chunks
              /\ \A j \in DOMAIN work'[s].got : work'[s].got[j] \in Kept(req'[s].url)
        BY <1>5, <2>1 DEF IInv, ReadKept
    <2> QED
        BY <1>2, <2>2 DEF ReadKept, Kept
<1>11. Unserved'
    <2>1. a # NoRequest
        BY <1>1, ProxyAssumption
    <2>2. \A s \in Request \ {r} : CacheOnly(s)' = CacheOnly(s)
        BY <1>5 DEF CacheOnly, Demands, Plain, Has, Mentions
    <2> QED
        BY <1>2, <1>4, <1>5, <2>1, <2>2 DEF IInv, Unserved, At, Waiting
<1> QED
    BY <1>6, <1>8, <1>9, <1>10, <1>11 DEF IInv

(* The cleaner takes metadata and the name of a file, and what is open     *)
(* stays open; the clock touches nothing.                                  *)
LEMMA OtherStep ==
    ASSUME IInv, (\E u \in Url : Evict(u)) \/ RemoveFile \/ Tick
    PROVE  IInv'
<1>1. /\ UNCHANGED <<file, given, req, work, reply>>
      /\ \A u \in Url : dir'[u] \in {dir[u], NoFile}
    BY DEF IInv, TypeOK, Evict, RemoveFile, Tick, cacheVars, requestVars
<1>2. TypeOK'
    <2>1. CASE \E u \in Url : Evict(u)
        BY <2>1 DEF Evict, requestVars, IInv, TypeOK
    <2>2. CASE RemoveFile
        BY <2>2 DEF RemoveFile, requestVars, IInv, TypeOK
    <2>3. CASE Tick
        <3>1. now' \in Time
            BY <2>3, ProxyAssumption DEF Tick, IInv, TypeOK, Time
        <3> QED
            BY <2>3, <3>1 DEF Tick, cacheVars, requestVars, IInv, TypeOK
    <2> QED
        BY <2>1, <2>2, <2>3
<1>3. FilesOwned'
    BY <1>1, ProxyAssumption DEF IInv, FilesOwned, At
<1>4. FilesKept' /\ ReadKept'
    BY <1>1 DEF IInv, FilesKept, ReadKept, Kept, At
<1>5. Unserved'
    BY <1>1 DEF IInv, Unserved, At, CacheOnly, Demands, Plain, Has, Mentions
<1> QED
    BY <1>2, <1>3, <1>4, <1>5 DEF IInv

(* Only a request that has come takes steps.                               *)
LEMMA StepsAreOfRequests ==
    ASSUME IInv, NEW r \in Request, RequestStep(r)
    PROVE  req[r] \in Asked
<1>1. ~At(r, "idle")
    BY DEF RequestStep, At, ViewMetadata, CountUse, CheckFresh, MetadataGarbled,
        MetadataOfOther, OpenPage, DropMetadata, ReadChunk, Hit, HitFails, PageGarbled, NoAnswer, Answered, TooLarge,
        InsertMetadata, CreateFile, WriteFile, StoreFails, UndoMetadata
<1> QED
    BY <1>1 DEF IInv, TypeOK, Unserved

(* Every step keeps the invariant.                                         *)
LEMMA StepKeepsInvariant == IInv /\ [Next]_vars => IInv'
<1> SUFFICES ASSUME IInv, [Next]_vars PROVE IInv'
    OBVIOUS
<1>1. CASE \E r \in Request : RequestStep(r)
    <2>1. PICK r \in Request : RequestStep(r)
        BY <1>1
    <2>2. req[r] \in Asked
        BY <2>1, StepsAreOfRequests
    <2> QED
        BY <2>1, <2>2, RequestTypes, RequestFiles, RequestUnserved DEF IInv
<1>2. CASE \E r \in Request, u \in Url, q \in Question : Arrive(r, u, q)
    BY <1>2, ArriveStep
<1>3. CASE (\E u \in Url : Evict(u)) \/ RemoveFile \/ Tick
    BY <1>3, OtherStep
<1>4. CASE UNCHANGED vars
    BY <1>4 DEF vars, cacheVars, requestVars, IInv, TypeOK, FilesOwned, FilesKept, ReadKept,
        Unserved, At, Kept, CacheOnly, Demands, Plain, Has, Mentions
<1> QED
    BY <1>1, <1>2, <1>3, <1>4 DEF Next

LEMMA InitHasInvariant == Init => IInv
<1> SUFFICES ASSUME Init PROVE IInv
    OBVIOUS
<1>1. TypeOK
    <2>1. 0 \in Time /\ <<>> \in Seq(Given) /\ Len(<<>>) <= MaxAnswers
        BY ProxyAssumption DEF Time
    <2>2. Unanswered \in Sent
        BY DEF Unanswered, Sent
    <2> QED
        BY <2>1, <2>2, StartIsWork DEF Init, TypeOK
<1>2. FilesOwned /\ FilesKept
    BY ProxyAssumption DEF Init, FilesOwned, FilesKept, At, Start
<1>3. ReadKept
    BY ProxyAssumption DEF Init, ReadKept, Start
<1>4. Unserved
    BY DEF Init, Unserved, At, Start
<1> QED
    BY <1>1, <1>2, <1>3, <1>4 DEF IInv

(* The invariant of the proxy: whatever the interleaving of lookups,       *)
(* stores and evictions, a file holds an answer for its own address that   *)
(* may be kept, and so does whoever is reading or writing it.              *)
THEOREM Invariance == Spec => []IInv
BY InitHasInvariant, StepKeepsInvariant, PTL DEF Spec
-----------------------------------------------------------------------------
(* The proxy implements SharedCache                                        *)

(* The variables of SharedCache, as the proxy has them.                    *)
askedOf == [r \in Request |->
               IF req[r] = NoRequest THEN NoRequest
               ELSE [address |-> req[r].url, cacheOnly |-> CacheOnly(r)]]

givenBy == [v \in DOMAIN given |-> [address |-> given[v].url, keep |-> MayKeep(given[v])]]

saidTo == [r \in Request |-> [from |-> reply[r].from, body |-> reply[r].body]]

(* It starts as SharedCache does.                                          *)
LEMMA InitImplements == Init => SC!Init
<1> SUFFICES ASSUME Init PROVE SC!Init
    OBVIOUS
<1>1. askedOf = [r \in Request |-> NoRequest]
    BY DEF Init, askedOf
<1>2. givenBy = <<>>
    BY DEF Init, givenBy
<1>3. saidTo = [r \in Request |-> [from |-> "nobody", body |-> <<>>]]
    BY DEF Init, saidTo, Unanswered
<1> QED
    BY <1>1, <1>2, <1>3 DEF SC!Init, SC!Nothing, askedOf, givenBy, saidTo

(* A step that neither asks, nor answers anybody, is not seen.             *)
LEMMA Unseen ==
    ASSUME UNCHANGED <<req, given, reply>>
    PROVE  UNCHANGED <<askedOf, givenBy, saidTo>>
BY DEF askedOf, givenBy, saidTo, CacheOnly, Demands, Plain, Has, Mentions, MayKeep

(* What SharedCache sees of a request that waits.                          *)
LEMMA SeenWaiting ==
    ASSUME IInv, NEW r \in Request, req[r] \in Asked, work[r].pc \in Waiting
    PROVE  /\ askedOf[r].address = req[r].url
           /\ askedOf[r].cacheOnly = CacheOnly(r)
           /\ SC!Waits(r)
<1>1. req[r] # NoRequest /\ req[r].url \in Url /\ CacheOnly(r) \in BOOLEAN
    BY RequestRead, ProxyAssumption DEF CacheOnly, Demands, Plain, Has
<1>2. askedOf[r] = [address |-> req[r].url, cacheOnly |-> CacheOnly(r)]
    BY <1>1 DEF askedOf
<1>3. [address |-> req[r].url, cacheOnly |-> CacheOnly(r)] # NoRequest
    BY <1>1, ProxyAssumption
<1>4. saidTo[r] = [from |-> "nobody", body |-> <<>>]
    BY DEF IInv, Unserved, Unanswered, saidTo
<1> QED
    BY <1>2, <1>3, <1>4 DEF SC!Waits, SC!Nothing, askedOf, saidTo

LEMMA SeenReply ==
    ASSUME TypeOK, NEW r \in Request, NEW from, NEW status, NEW body,
           Reply(r, from, status, body)
    PROVE  saidTo' = [saidTo EXCEPT ![r] = [from |-> from, body |-> body]]
BY DEF TypeOK, Reply, saidTo

LEMMA SeenRefusal ==
    ASSUME IInv, NEW r \in Request, req[r] \in Asked, work[r].pc \in Waiting,
           UNCHANGED <<req, given>>, NEW status, Reply(r, "balancer", status, <<>>)
    PROVE  SC!Refuse(r)
<1>1. saidTo' = [saidTo EXCEPT ![r] = [from |-> "balancer", body |-> <<>>]]
    BY SeenReply DEF IInv
<1>2. askedOf' = askedOf /\ givenBy' = givenBy
    BY DEF askedOf, givenBy, CacheOnly, Demands, Plain, Has, Mentions, MayKeep
<1> QED
    BY <1>1, <1>2, SeenWaiting
    DEF SC!Refuse, SC!Tell, SC!OwnAnswer, askedOf, givenBy, saidTo

LEMMA SeenMiss ==
    ASSUME IInv, NEW r \in Request, req[r] \in Asked, work[r].pc \in Waiting,
           UNCHANGED <<req, given>>, Miss(r)
    PROVE  SC!Refuse(r) \/ UNCHANGED <<askedOf, givenBy, saidTo>>
BY SeenRefusal, Unseen DEF Miss

LEMMA SeenKept == \A a : SC!Kept(a) = Kept(a)
<1> TAKE a
<1>1. ASSUME NEW v PROVE v \in SC!Kept(a) <=> v \in Kept(a)
    BY DEF SC!Kept, Kept
<1> QED
    BY <1>1

LEMMA SeenHit ==
    ASSUME IInv, NEW r \in Request, req[r] \in Asked, Hit(r)
    PROVE  SC!Reuse(r)
<1>1. saidTo' = [saidTo EXCEPT ![r] = [from |-> "cache", body |-> work[r].got]]
    BY SeenReply DEF Hit, Relay, IInv
<1>2. askedOf' = askedOf /\ givenBy' = givenBy
    BY DEF Hit, cacheVars, askedOf, givenBy, CacheOnly, Demands, Plain, Has, Mentions, MayKeep
<1>3. work[r].pc \in Waiting
    BY DEF Hit, At, Waiting
<1>4. work[r].got \in [1 .. Chunks -> Kept(req[r].url)]
    <2>1. work[r].got \in Seq(Page) /\ Len(work[r].got) = Chunks
        BY DEF Hit, IInv, TypeOK, Work
    <2>2. \A j \in DOMAIN work[r].got : work[r].got[j] \in Kept(req[r].url)
        BY DEF IInv, ReadKept
    <2> QED
        BY <2>1, <2>2
<1>5. askedOf[r].address = req[r].url /\ SC!Waits(r)
    BY <1>3, SeenWaiting, Zenon
<1>6. work[r].got \in [1 .. Chunks -> SC!Kept(askedOf[r].address)]
    BY <1>4, <1>5, SeenKept
<1> HIDE DEF Kept
<1>7. \E body \in [1 .. Chunks -> SC!Kept(askedOf[r].address)] :
          saidTo' = [saidTo EXCEPT ![r] = [from |-> "cache", body |-> body]]
    BY <1>1, <1>6
<1> QED
    BY <1>2, <1>5, <1>7 DEF SC!Reuse, SC!Tell, askedOf, givenBy, saidTo

LEMMA SeenAnswer ==
    ASSUME IInv, NEW r \in Request, req[r] \in Asked, NEW o \in Offer, Answered(r, o)
    PROVE  SC!Fetch(r)
<1> DEFINE v == Len(given) + 1
           g == [url |-> req[r].url, method |-> req[r].method,
                 asked |-> req[r].header, offer |-> o]
           keep == MayKeep(g)
<1>1. saidTo' = [saidTo EXCEPT ![r] = [from |-> "backend", body |-> [i \in 1 .. Chunks |-> v]]]
    BY SeenReply DEF Answered, Relay, IInv
<1>2. askedOf' = askedOf
    BY DEF Answered, askedOf, CacheOnly, Demands, Plain, Has, Mentions
<1>3. work[r].pc \in Waiting /\ ~CacheOnly(r)
    BY DEF Answered, At, Waiting, IInv, Unserved
<1>4. given \in Seq(Given) /\ g \in Given /\ given' = Append(given, g)
    BY RequestRead DEF Answered, Given, IInv, TypeOK
<1>5. givenBy' = Append(givenBy, [address |-> req[r].url, keep |-> keep])
    <2>1. DOMAIN given' = 1 .. v /\ DOMAIN given = 1 .. Len(given)
        BY <1>4
    <2> QED
        BY <1>4, <2>1 DEF givenBy
<1>6. Len(givenBy') = v
    BY <1>4 DEF givenBy
<1>7. keep \in BOOLEAN
    BY DEF MayKeep
<1>8. askedOf[r].address = req[r].url /\ ~askedOf[r].cacheOnly /\ SC!Waits(r)
    BY <1>3, SeenWaiting, Zenon
<1> HIDE DEF v, g, keep
<1>9. \E k \in BOOLEAN :
          givenBy' = Append(givenBy, [address |-> askedOf[r].address, keep |-> k])
    BY <1>5, <1>7, <1>8
<1>10. saidTo' = [saidTo EXCEPT ![r] =
                     [from |-> "backend", body |-> [i \in 1 .. Chunks |-> Len(givenBy')]]]
    BY <1>1, <1>6
<1> QED
    BY <1>2, <1>8, <1>9, <1>10 DEF SC!Fetch, SC!Tell, askedOf, givenBy, saidTo

(* Every step of a request is one of SharedCache or is not seen by it.     *)
LEMMA RequestImplements ==
    ASSUME IInv, NEW r \in Request, req[r] \in Asked, RequestStep(r)
    PROVE  (\E c \in Request : SC!Ask(c) \/ SC!Fetch(c) \/ SC!Reuse(c) \/ SC!Refuse(c))
               \/ UNCHANGED <<askedOf, givenBy, saidTo>>
<1>0. {"view", "uses", "fresh", "open", "drop", "read", "backend"} \subseteq Waiting
    BY DEF Waiting
<1>1. CASE ViewMetadata(r) \/ CheckFresh(r)
    <2>1. UNCHANGED <<req, given>> /\ work[r].pc \in Waiting /\ (Miss(r) \/ UNCHANGED reply)
        BY <1>0, <1>1 DEF ViewMetadata, CheckFresh, At, cacheVars
    <2> QED
        BY <2>1, SeenMiss, Unseen
<1>2. CASE \/ MetadataGarbled(r) \/ DropMetadata(r) \/ ReadChunk(r) \/ PageGarbled(r)
           \/ HitFails(r)
    <2>1. UNCHANGED <<req, given>> /\ work[r].pc \in Waiting /\ (Miss(r) \/ UNCHANGED reply)
        BY <1>0, <1>2 DEF MetadataGarbled, DropMetadata, ReadChunk, PageGarbled, HitFails,
            At, cacheVars
    <2> QED
        BY <2>1, SeenMiss, Unseen
<1>3. CASE Hit(r)
    BY <1>3, SeenHit
<1>4. CASE NoAnswer(r)
    <2>1. /\ UNCHANGED <<req, given>> /\ work[r].pc \in Waiting
          /\ \E status \in {500, 503} : Reply(r, "balancer", status, <<>>)
        BY <1>0, <1>4 DEF NoAnswer, At, cacheVars
    <2> QED
        BY <2>1, SeenRefusal
<1>5. CASE \E o \in Offer : Answered(r, o)
    BY <1>5, SeenAnswer
<1>6. CASE \/ CountUse(r) \/ MetadataOfOther(r) \/ OpenPage(r) \/ TooLarge(r) \/ InsertMetadata(r)
           \/ CreateFile(r) \/ WriteFile(r) \/ StoreFails(r) \/ UndoMetadata(r)
    <2>1. UNCHANGED <<req, given, reply>>
        BY <1>6 DEF CountUse, MetadataOfOther, OpenPage, TooLarge, InsertMetadata, CreateFile,
            WriteFile, StoreFails, UndoMetadata, cacheVars
    <2> QED
        BY <2>1, Unseen
<1> QED
    BY <1>1, <1>2, <1>3, <1>4, <1>5, <1>6 DEF RequestStep

(* A request that comes asks.                                              *)
LEMMA ArriveImplements ==
    ASSUME IInv, NEW r \in Request, NEW u \in Url, NEW q \in Question, Arrive(r, u, q)
    PROVE  SC!Ask(r)
<1> DEFINE a == Incoming(u, q, now)
           asks == [address |-> u, cacheOnly |-> Demands(q.header, "only-if-cached")]
<1>1. a \in Asked /\ a.url = u /\ a.header = q.header
    BY DEF IInv, TypeOK, Asked, Incoming
<1>2. /\ req' = [req EXCEPT ![r] = a] /\ req[r] = NoRequest
      /\ UNCHANGED <<given, reply>>
    BY DEF Arrive, cacheVars, IInv, Unserved
<1>3. a # NoRequest /\ asks \in [address : Url, cacheOnly : BOOLEAN]
    BY <1>1, ProxyAssumption DEF Demands, Plain, Has
<1>4. givenBy' = givenBy /\ saidTo' = saidTo
    BY <1>2 DEF givenBy, saidTo, MayKeep
<1>5. askedOf' = [askedOf EXCEPT ![r] = asks]
    <2>1. /\ req'[r] = a /\ \A s \in Request \ {r} : req'[s] = req[s]
        BY <1>2 DEF IInv, TypeOK
    <2> HIDE DEF a
    <2>2. askedOf'[r] = asks
        <3>1. CacheOnly(r)' <=> Demands(q.header, "only-if-cached")
            BY <1>1, <2>1 DEF CacheOnly, Demands, Plain, Has, Mentions
        <3>2. CacheOnly(r)' \in BOOLEAN /\ Demands(q.header, "only-if-cached") \in BOOLEAN
            BY DEF CacheOnly, Demands, Plain, Has
        <3> HIDE DEF CacheOnly, Demands
        <3>3. askedOf'[r] = [address |-> a.url, cacheOnly |-> CacheOnly(r)']
            BY <1>3, <2>1 DEF askedOf
        <3> QED
            BY <1>1, <3>1, <3>2, <3>3
    <2>3. \A s \in Request \ {r} : askedOf'[s] = askedOf[s]
        <3>1. \A s \in Request \ {r} : CacheOnly(s)' = CacheOnly(s)
            BY <2>1 DEF CacheOnly, Demands, Plain, Has, Mentions
        <3> QED
            BY <2>1, <3>1 DEF askedOf
    <2>4. /\ askedOf = [s \in Request |-> askedOf[s]]
          /\ askedOf' = [s \in Request |-> askedOf'[s]]
        BY DEF askedOf
    <2> HIDE DEF asks
    <2> QED
        BY <2>2, <2>3, <2>4
<1>6. askedOf[r] = NoRequest
    BY <1>2 DEF askedOf
<1> HIDE DEF asks
<1> QED
    BY <1>3, <1>4, <1>5, <1>6 DEF SC!Ask, SC!Wish, askedOf, givenBy, saidTo

LEMMA StepImplements == IInv /\ [Next]_vars => [SC!Next]_<<askedOf, givenBy, saidTo>>
<1> SUFFICES ASSUME IInv, [Next]_vars
             PROVE  SC!Next \/ UNCHANGED <<askedOf, givenBy, saidTo>>
    OBVIOUS
<1>1. CASE \E r \in Request : RequestStep(r)
    <2>1. PICK r \in Request : RequestStep(r)
        BY <1>1
    <2>2. req[r] \in Asked
        BY <2>1, StepsAreOfRequests
    <2> QED
        BY <2>1, <2>2, RequestImplements DEF SC!Next
<1>2. CASE \E r \in Request, u \in Url, q \in Question : Arrive(r, u, q)
    BY <1>2, ArriveImplements DEF SC!Next
<1>3. CASE (\E u \in Url : Evict(u)) \/ RemoveFile \/ Tick \/ UNCHANGED vars
    <2>1. UNCHANGED <<req, given, reply>>
        BY <1>3 DEF Evict, RemoveFile, Tick, vars, cacheVars, requestVars
    <2> QED
        BY <2>1, Unseen
<1> QED
    BY <1>1, <1>2, <1>3 DEF Next

(* The cache serves only what it may: the proxy, with its lookups, stores, *)
(* rollbacks and evictions interleaved at will, implements SharedCache.    *)
THEOREM ImplementsSharedCache == Spec => ServesOnlyWhatItMay
<1>1. Init => SC!Init
    BY InitImplements
<1>2. IInv /\ [Next]_vars => [SC!Next]_<<askedOf, givenBy, saidTo>>
    BY StepImplements
<1> QED
    BY <1>1, <1>2, Invariance, PTL DEF Spec, ServesOnlyWhatItMay, SC!Spec, askedOf, givenBy, saidTo
=============================================================================

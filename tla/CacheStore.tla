----------------------------- MODULE CacheStore -----------------------------
(***************************************************************************)
(* The cache of package cache: page metadata in a bolt database, pages in  *)
(* files, and the counter CachingProperties.Size that says how much there  *)
(* is.  A visitor is one request: it looks its page up (read.go) and, if   *)
(* it has to go to a backend, stores what it got (insert.go).  A bolt      *)
(* Update is one step, since bolt runs one at a time and commits it whole, *)
(* but for the one of ClearCache, which changes the counter on its way;    *)
(* nothing in the code holds two steps together.                           *)
(*                                                                         *)
(* Two abstractions.  Time: a page may pass its max-age at any moment, and *)
(* a request may accept or reject any page, by s-maxage, must-revalidate   *)
(* and its own max-stale and min-fresh.  Uses: the counter that orders     *)
(* evictions is left out, so any order may be taken.                       *)
(***************************************************************************)
EXTENDS Integers, FiniteSets, Totals

CONSTANTS
    Key,        \* the hashes of the requests' addresses
    NoKey,      \* the empty byte slice, which is the name of no bucket
    NoMeta,     \* there is no bucket of that name
    PageSize,   \* the sizes a response body may have
    MaxSize,    \* CacheCleaner.maxFileSize
    Visitor,    \* the requests
    Cleaner,    \* the Observe goroutine
    Clearer,    \* the calls of ClearCache
    PageReuse   \* whether bolt may reuse a freed page before the slice into
                \* it, kept beyond its transaction, has been read

ASSUME CacheStoreAssumption ==
    /\ NoKey \notin Key
    /\ NoMeta \notin [size : PageSize, expired : BOOLEAN]
    /\ PageSize \subseteq Nat
    /\ \E n \in PageSize : \A m \in PageSize : m <= n
    /\ MaxSize \in Nat
    /\ IsFiniteSet(Key) /\ IsFiniteSet(Visitor) /\ IsFiniteSet(Clearer)
    /\ Cleaner \notin Visitor \cup Clearer
    /\ Visitor \cap Clearer = {}
    /\ PageReuse \in BOOLEAN

VARIABLES
    db,     \* the buckets: the metadata of each cached page
    disk,   \* the directory and the file of each key
    size,   \* CachingProperties.Size
    act     \* the state of each goroutine

storeVars == <<db, disk, size>>

Actor == Visitor \cup {Cleaner} \cup Clearer

Meta == [size : PageSize, expired : BOOLEAN]

\* No directory, an empty one, or one with a file that holds len bytes, which
\* are a page or what is left of a writing cut short or mixed with another
Location == [at : {"none", "dir", "file"}, len : Nat, whole : BOOLEAN]

Label == {"idle", "view", "uses", "read", "miss", "insert", "count", "mkdir",
          "create", "write", "lost", "drop", "uncount", "unlink", "rmdir",
          "scan", "expired", "lru", "evict", "clear", "list", "walk", "done",
          "panicked"}

ActorState == [
    pc    : Label,
    key   : Key \cup {NoKey},    \* the page it is dealing with
    n     : PageSize \cup {0},   \* the size of the page it stores or removes
    then  : Label,               \* where removePageMetadata goes on
    back  : Label,               \* where it goes when the removal has failed
    slice : SUBSET PageSize,     \* the sizes it may read of the page it removes
    torn  : BOOLEAN ]            \* it may read what does not parse

CacheStoreTypeOK ==
    /\ db \in [Key -> Meta \cup {NoMeta}]
    /\ disk \in [Key -> Location]
    /\ size \in Int
    /\ act \in [Actor -> ActorState]

Asleep == [pc |-> "idle", key |-> NoKey, n |-> 0,
           then |-> "idle", back |-> "idle", slice |-> {}, torn |-> FALSE]

Nowhere == [at |-> "none", len |-> 0, whole |-> FALSE]

EmptyDir == [Nowhere EXCEPT !.at = "dir"]

CacheStoreInit ==
    /\ db = [k \in Key |-> NoMeta]
    /\ disk = [k \in Key |-> Nowhere]
    /\ size = 0
    /\ act = [p \in Actor |-> Asleep]

Cached == {k \in Key : db[k] # NoMeta}

OnDisk(k) == disk[k].at = "file"

\* The bytes the database records of the pages of keys
BytesOf(keys) == Total([k \in Key |-> IF k \in keys THEN db[k].size ELSE 0])

-----------------------------------------------------------------------------
(* How a step of p changes the goroutines.  By itself it changes only p.   *)
(* When it commits a write, the freed pages that others still point into   *)
(* may be reused: what a removal then parses is what it took out, nothing  *)
(* that parses, or the metadata of a page now recorded.  When it unlinks   *)
(* files, a goroutine that has one of them open goes on writing into       *)
(* nothing.                                                                *)

At(p, label) == act[p].pc = label

Become(p, c) == act' = [act EXCEPT ![p] = c]

\* Where a loop or a function begins anew, nothing is kept of the last one.
Moved(p, label) ==
    CASE label \in {"idle", "scan", "expired", "lru", "evict", "done", "panicked"}
                          -> [Asleep EXCEPT !.pc = label]
      [] label = "miss"   -> [Asleep EXCEPT !.pc = label, !.key = act[p].key]
      [] OTHER            -> [act[p] EXCEPT !.pc = label]

Goto(p, label) == Become(p, Moved(p, label))

\* After db' has been given
Commit(p, c) ==
    act' = [[q \in Actor |->
               IF At(q, "uncount") /\ PageReuse
               THEN [act[q] EXCEPT !.slice = @ \cup {db'[k].size : k \in Cached'},
                                   !.torn = TRUE]
               ELSE act[q]]
            EXCEPT ![p] = c]

\* ClearCache holds bolt's lock of writers.
Locked == \E c \in Clearer : At(c, "clear")

Unlink(p, k, label) ==
    act' = [[q \in Actor |->
               IF At(q, "write") /\ act[q].key = k THEN [act[q] EXCEPT !.pc = "lost"] ELSE act[q]]
            EXCEPT ![p] = Moved(p, label)]

-----------------------------------------------------------------------------
(* removePageMetadata: one transaction, then the counter.  A reader that   *)
(* found no file and a writer that failed ignore whether it worked.        *)

CallRemoveMetadata(p, label) ==
    Become(p, [Asleep EXCEPT !.pc = "drop", !.key = act[p].key,
                             !.then = label, !.back = label])

DropMetadata(p) ==
    LET k == act[p].key IN
    /\ At(p, "drop")
    /\ ~Locked
    /\ IF k \in Cached
       THEN /\ db' = [db EXCEPT ![k] = NoMeta]
            /\ Commit(p, [act[p] EXCEPT !.pc = "uncount", !.n = db[k].size,
                                        !.slice = {db[k].size}])
       ELSE /\ UNCHANGED db
            /\ Goto(p, act[p].back)
    /\ UNCHANGED <<disk, size>>

\* The metadata is parsed after the transaction that freed its page.
UncountMetadata(p) ==
    /\ At(p, "uncount")
    /\ \E m \in act[p].slice : size' = size - m
    /\ Become(p, [Moved(p, act[p].then) EXCEPT !.n = 0, !.slice = {}, !.torn = FALSE])
    /\ UNCHANGED <<db, disk>>

UncountGarbage(p) ==
    /\ At(p, "uncount")
    /\ act[p].torn
    /\ Goto(p, act[p].back)
    /\ UNCHANGED storeVars

-----------------------------------------------------------------------------
(* GetPageFromCache                                                        *)

Visit(v, k) ==
    /\ At(v, "idle")
    /\ Become(v, [Asleep EXCEPT !.pc = "view", !.key = k])
    /\ UNCHANGED storeVars

\* getPageMetadata's View
ViewMetadata(v) ==
    /\ At(v, "view")
    /\ Goto(v, IF act[v].key \in Cached THEN "uses" ELSE "miss")
    /\ UNCHANGED storeVars

\* getPageMetadata's Update takes the bucket for granted.  The panic is the
\* handler's: net/http recovers it and closes the connection unanswered.
CountUse(v) ==
    /\ At(v, "uses")
    /\ ~Locked
    /\ UNCHANGED storeVars
    /\ IF act[v].key \in Cached
       THEN Commit(v, Moved(v, "read"))
       ELSE Goto(v, "panicked")

\* "not fresh" by the page's own age, by the request's directives or by those
\* of another page, or a metadata slice that does not parse any more
NotFresh(v) ==
    /\ At(v, "read")
    /\ Goto(v, "miss")
    /\ UNCHANGED storeVars

\* readPageFromDisk: the page, a file that does not parse, or no file
ReadPage(v) ==
    LET k == act[v].key IN
    /\ At(v, "read")
    /\ IF ~OnDisk(k) THEN CallRemoveMetadata(v, "miss")
       ELSE IF disk[k].whole THEN Become(v, Asleep)
       ELSE Goto(v, "miss")
    /\ UNCHANGED storeVars

-----------------------------------------------------------------------------
(* InsertPageInCache, after the answer of a backend                        *)

\* Faulty variant: the new page is left out of the comparison.
CheckSizeBefore(v, n) ==
    /\ At(v, "miss")
    /\ Become(v, IF size > MaxSize THEN Asleep
                 ELSE [act[v] EXCEPT !.pc = "insert", !.n = n])
    /\ UNCHANGED storeVars

\* The size check, of an answer that may be stored
CheckSize(v, n) ==
    /\ At(v, "miss")
    /\ Become(v, IF size + n > MaxSize THEN Asleep
                 ELSE [act[v] EXCEPT !.pc = "insert", !.n = n])
    /\ UNCHANGED storeVars

\* An answer that must not be stored, or no answer
NothingToStore(v) ==
    /\ At(v, "miss")
    /\ Become(v, Asleep)
    /\ UNCHANGED storeVars

\* Faulty variant: the size is the answer's ContentLength, unknown if chunked.
InsertUnknownSize(v) ==
    LET k == act[v].key IN
    /\ At(v, "insert")
    /\ ~Locked
    /\ IF k \in Cached
       THEN UNCHANGED db /\ Goto(v, "mkdir")
       ELSE /\ db' = [db EXCEPT ![k] = [size |-> -1, expired |-> FALSE]]
            /\ Commit(v, Moved(v, "count"))
    /\ UNCHANGED <<disk, size>>

\* Faulty variant: a new page is not counted.
InsertUncounted(v) ==
    LET k == act[v].key IN
    /\ At(v, "insert")
    /\ ~Locked
    /\ IF k \in Cached
       THEN UNCHANGED db /\ Goto(v, "mkdir")
       ELSE /\ db' = [db EXCEPT ![k] = [size |-> act[v].n, expired |-> FALSE]]
            /\ Commit(v, Moved(v, "mkdir"))
    /\ UNCHANGED <<disk, size>>

\* insertPageMetadataToDB.  Where the bucket exists, the function given to
\* Update puts the new metadata, then returns ErrBucketExists: rolled back.
InsertMetadata(v) ==
    LET k == act[v].key IN
    /\ At(v, "insert")
    /\ ~Locked
    /\ IF k \in Cached
       THEN UNCHANGED db /\ Goto(v, "mkdir")
       ELSE /\ db' = [db EXCEPT ![k] = [size |-> act[v].n, expired |-> FALSE]]
            /\ Commit(v, Moved(v, "count"))
    /\ UNCHANGED <<disk, size>>

CountMetadata(v) ==
    /\ At(v, "count")
    /\ size' = size + act[v].n
    /\ Goto(v, "mkdir")
    /\ UNCHANGED <<db, disk>>

\* writePageToDisk: os.MkdirAll, os.Create, one write
MakeDirectory(v) ==
    /\ At(v, "mkdir")
    /\ disk' = [disk EXCEPT ![act[v].key].at = IF @ = "none" THEN "dir" ELSE @]
    /\ Goto(v, "create")
    /\ UNCHANGED <<db, size>>

\* os.Create fails when the directory has been removed again.
CreateFile(v) ==
    LET k == act[v].key IN
    /\ At(v, "create")
    /\ IF disk[k].at = "none"
       THEN UNCHANGED disk /\ CallRemoveMetadata(v, "idle")
       ELSE /\ disk' = [disk EXCEPT ![k] = [at |-> "file", len |-> 0, whole |-> FALSE]]
            /\ Goto(v, "write")
    /\ UNCHANGED <<db, size>>

\* Each writer of a file truncates it, then writes from its start: the second
\* of two leaves the tail of a longer first one.
WriteFile(v) ==
    LET n == act[v].n IN
    /\ At(v, "write")
    /\ disk' = [disk EXCEPT ![act[v].key] =
           IF @.len > n THEN [@ EXCEPT !.whole = FALSE]
           ELSE [@ EXCEPT !.len = n, !.whole = TRUE]]
    /\ Become(v, Asleep)
    /\ UNCHANGED <<db, size>>

\* The device is full.
WriteFails(v) ==
    /\ At(v, "write")
    /\ CallRemoveMetadata(v, "idle")
    /\ UNCHANGED storeVars

\* The file it holds open has been unlinked.
WriteLost(v) ==
    /\ At(v, "lost")
    /\ Become(v, Asleep)
    /\ UNCHANGED storeVars

\* The handler that panicked is over.
Recovered(v) ==
    /\ At(v, "panicked")
    /\ Become(v, Asleep)
    /\ UNCHANGED storeVars

\* What a request does once it has come
VisitorStep(v) ==
    \/ ViewMetadata(v) \/ CountUse(v) \/ NotFresh(v) \/ ReadPage(v)
    \/ NothingToStore(v) \/ \E n \in PageSize : CheckSize(v, n)
    \/ InsertMetadata(v) \/ CountMetadata(v)
    \/ MakeDirectory(v) \/ CreateFile(v)
    \/ WriteFile(v) \/ WriteFails(v) \/ WriteLost(v) \/ Recovered(v)
    \/ DropMetadata(v) \/ UncountMetadata(v) \/ UncountGarbage(v)
=============================================================================

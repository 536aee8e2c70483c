------------------------------- MODULE Cache --------------------------------
(***************************************************************************)
(* The running cache: visitors, the cleaner and calls of ClearCache on one *)
(* store, pages that expire, and a process that may die between any two    *)
(* steps and start again with what the database and the disk then hold.    *)
(***************************************************************************)
EXTENDS CacheCleaner

CONSTANT Restarts   \* bound: how often the process dies

ASSUME CacheAssumption == Restarts \in Nat

VARIABLE restarts   \* how often it has died

vars == <<storeVars, act, cleanerVars, restarts>>

TypeOK ==
    /\ CacheStoreTypeOK
    /\ CacheCleanerTypeOK
    /\ restarts \in 0 .. Restarts

Init ==
    /\ CacheStoreInit
    /\ CacheCleanerInit
    /\ restarts = 0

-----------------------------------------------------------------------------
(* ClearCache: one transaction over all buckets, then the whole directory. *)
(* A page without its file makes the transaction fail, but the counter has *)
(* been lowered by then for the pages that came before it.                 *)

BeginClear(c) ==
    /\ At(c, "idle")
    /\ ~Locked
    /\ todo' = [todo EXCEPT ![c] = Cached]
    /\ Goto(c, "clear")
    /\ UNCHANGED <<storeVars, found>>

\* Faulty variant: the counter is left as it was.
ClearUncounted(c, k) ==
    /\ At(c, "clear")
    /\ k \in todo[c]
    /\ OnDisk(k)
    /\ todo' = [todo EXCEPT ![c] = @ \ {k}]
    /\ UNCHANGED <<storeVars, act, found>>

\* Its file is tested, the counter lowered, the bucket deleted.
ClearBucket(c, k) ==
    /\ At(c, "clear")
    /\ k \in todo[c]
    /\ OnDisk(k)
    /\ todo' = [todo EXCEPT ![c] = @ \ {k}]
    /\ size' = size - db[k].size
    /\ UNCHANGED <<db, disk, act, found>>

\* The transaction is rolled back, the counter stays as it is.
ClearFails(c, k) ==
    /\ At(c, "clear")
    /\ k \in todo[c]
    /\ ~OnDisk(k)
    /\ todo' = [todo EXCEPT ![c] = {}]
    /\ Goto(c, "done")
    /\ UNCHANGED <<storeVars, found>>

CommitClear(c) ==
    /\ At(c, "clear")
    /\ todo[c] = {}
    /\ db' = [k \in Key |-> NoMeta]
    /\ Commit(c, Moved(c, "list"))
    /\ UNCHANGED <<disk, size, cleanerVars>>

\* WalkDir reads the directory once, then removes its entries one by one.
ListDirectory(c) ==
    /\ At(c, "list")
    /\ todo' = [todo EXCEPT ![c] = {k \in Key : disk[k] # Nowhere}]
    /\ Goto(c, "walk")
    /\ UNCHANGED <<storeVars, found>>

RemoveAll(c, k) ==
    /\ At(c, "walk")
    /\ k \in todo[c]
    /\ todo' = [todo EXCEPT ![c] = @ \ {k}]
    /\ disk' = [disk EXCEPT ![k] = Nowhere]
    /\ Unlink(c, k, "walk")
    /\ UNCHANGED <<db, size, found>>

Walked(c) ==
    /\ At(c, "walk")
    /\ todo[c] = {}
    /\ Goto(c, "done")
    /\ UNCHANGED <<storeVars, cleanerVars>>

\* What a call does once it has begun
ClearerStep(c) ==
    \/ CommitClear(c) \/ ListDirectory(c) \/ Walked(c)
    \/ \E k \in todo[c] : ClearBucket(c, k) \/ ClearFails(c, k) \/ RemoveAll(c, k)

-----------------------------------------------------------------------------
\* The page of k passes its max-age.
Expire(k) ==
    /\ k \in Cached
    /\ ~db[k].expired
    /\ db' = [db EXCEPT ![k].expired = TRUE]
    /\ UNCHANGED <<disk, size, act, cleanerVars, restarts>>

\* The process dies; when it starts again CalculateSize counts the pages of
\* the database that have a file.
Restart ==
    /\ restarts < Restarts
    /\ restarts' = restarts + 1
    /\ size' = BytesOf({k \in Cached : OnDisk(k)})
    /\ act' = [p \in Actor |-> Asleep]
    /\ todo' = [c \in Collector |-> {}]
    /\ found' = {}
    /\ UNCHANGED <<db, disk>>

Next ==
    \/ \E v \in Visitor :
         /\ VisitorStep(v) \/ \E k \in Key : Visit(v, k)
         /\ UNCHANGED <<cleanerVars, restarts>>
    \/ CleanerStep /\ UNCHANGED restarts
    \/ \E c \in Clearer : (BeginClear(c) \/ ClearerStep(c)) /\ UNCHANGED restarts
    \/ \E k \in Key : Expire(k)
    \/ Restart

Spec == Init /\ [][Next]_vars

(* Each goroutine that can run does, and the cleaner's ticker fires.       *)
FairSpec ==
    /\ Spec
    /\ \A v \in Visitor :
         WF_vars(VisitorStep(v) /\ UNCHANGED <<cleanerVars, restarts>>)
    /\ WF_vars(CleanerStep /\ UNCHANGED restarts)
    /\ \A c \in Clearer : WF_vars(ClearerStep(c) /\ UNCHANGED restarts)

-----------------------------------------------------------------------------
\* The bytes of pages whose metadata has been committed and not yet counted,
\* and of pages whose metadata is gone and still counted
Held(p, label) == IF At(p, label) THEN act[p].n ELSE 0

Waiting(label) == Total([p \in Actor |-> Held(p, label)])

Balance == size + Waiting("count") - Waiting("uncount")

\* The pages recorded but for those that a clear under way has been through
Recorded == {k \in Cached : \A c \in Clearer : At(c, "clear") => k \in todo[c]}

(* The counter, with the additions under way, never exceeds the bytes the  *)
(* database records, so the cleaner has something to evict whenever the    *)
(* counter tells it to: not in or after a clear, complete or not, nor      *)
(* after a restart (IncrementSize, ClearCache, CalculateSize).             *)
NeverOvercounts == Balance <= BytesOf(Recorded)

(* The counter is never below what the database records, so the size check *)
(* of InsertPageInCache never lets a page in because another was uncounted *)
(* twice, by two removals or by a removal and a store of the same page.    *)
NeverUndercounts == Balance >= BytesOf(Recorded)

\* By how much the counter, with what is on its way, is above the database
Excess == Balance - BytesOf(Recorded)

(* The only steps that leave recorded pages uncounted are a ClearCache that*)
(* fails halfway, a start, and a removal that parses the metadata of       *)
(* another page, written where that of its own was.  A clear that          *)
(* succeeds, any other removal and a store take off and add what they      *)
(* remove and record, whoever does the same at that moment (ClearCache,    *)
(* insertPageMetadataToDB, removePageMetadata).                            *)
PagesStayCounted ==
    [][Excess' < Excess =>
         \/ restarts' # restarts
         \/ \E c \in Clearer : At(c, "clear") /\ At(c, "done")'
         \/ \E p \in Actor : At(p, "uncount") /\ act[p].torn /\ size' < size - act[p].n]_vars

LargestPage == CHOOSE n \in PageSize : \A m \in PageSize : m <= n

(* Checking the size and counting the page are two steps, so visitors may  *)
(* overshoot the maximum together, but by no more than one page for every  *)
(* visitor but one (InsertPageInCache).                                    *)
Overshoot == (Cardinality(Visitor) - 1) * LargestPage

OvershootBounded == BytesOf(Cached) <= MaxSize + Overshoot

(* The same of what the size check has let in: a page is promised its room *)
(* from the check on, though the database does not have it yet.            *)
RoomInv == BytesOf(Cached) + Waiting("insert") <= MaxSize + Overshoot

(* What a goroutine p with the state c knows: where a removal goes on and  *)
(* what it reads, who stores pages and who clears, that a visitor under way*)
(* deals with a page, and that what it is about to insert has a size.      *)
Fits(p, c) ==
    /\ c.then \in {"idle", "miss", "unlink"}
    /\ c.back \in {"idle", "miss", "expired", "evict"}
    /\ c.torn => PageReuse
    /\ c.pc = "uncount" => c.torn \/ c.slice = {c.n}
    /\ c.pc \in {"insert", "count"} => p \in Visitor
    /\ c.pc = "clear" => p \in Clearer
    /\ p \in Visitor =>
         /\ {c.then, c.back} \subseteq {"idle", "miss"}
         /\ c.pc \notin {"idle", "panicked"} => c.key \in Key
         /\ c.pc = "insert" => c.n \in PageSize

(* One clear at a time is in its transaction, and nobody else changes what *)
(* is recorded meanwhile (bolt's Update, ClearCache).                      *)
ClearInv ==
    \A c \in Clearer : At(c, "clear") =>
        /\ todo[c] \subseteq Cached
        /\ \A d \in Clearer : At(d, "clear") => d = c

(* Without the first part a store might record a page of no size or of no  *)
(* key, without the second a clear might take a page off that another has  *)
(* taken off (insertPageMetadataToDB, removePageMetadata, ClearCache).     *)
IInv ==
    /\ TypeOK
    /\ \A p \in Actor : Fits(p, act[p])
    /\ ClearInv

(* README.md:42: maxCacheSize is a maximal size in bytes for storing       *)
(* cached pages, so the pages recorded do not exceed it when they are      *)
(* stored one after the other (InsertPageInCache).                         *)
RecordedWithinMaximum == BytesOf(Cached) <= MaxSize

(* The same of the files there are.                                        *)
FilesWithinMaximum ==
    Total([k \in Key |-> disk[k].len]) <= MaxSize

(* insert.go:20: InsertPageInCache stores a new page or rewrites the       *)
(* current one, so that after it the metadata is the new page's.           *)
RewriteTakesEffect ==
    [][\A v \in Visitor :
         At(v, "insert") /\ act'[v].pc \in {"count", "mkdir"} =>
            db'[act[v].key] = [size |-> act[v].n, expired |-> FALSE]]_vars

(* cacheCleaner.go:68: deleteExpiredCache deletes cache whose max-age is   *)
(* expired; the pages it found so are gone when it returns.                *)
ExpiredDeleted == At(Cleaner, "lru") => found \cap Cached = {}

(* README.md:81: a request is sent to the backend in case of any error of  *)
(* the cache; in particular no lookup ends in a panic.                     *)
EveryErrorIsAMiss == \A v \in Visitor : ~At(v, "panicked")

(* Once no more pages come in, the counter gets and stays within the fill  *)
(* limit: the passes of the cleaner never stop short, and what they undo   *)
(* reaches the counter (Observe, deletePagesLRU, removePageMetadata).      *)
CleanerKeepsUp ==
    <>[](\A v \in Visitor : ~At(v, "insert")) => <>[]~isSizeExceeded
=============================================================================

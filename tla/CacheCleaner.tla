---------------------------- MODULE CacheCleaner ----------------------------
(***************************************************************************)
(* cache/cacheCleaner.go, the Observe goroutine: at a tick at which the    *)
(* counter exceeds the fill limit it removes the expired pages, then       *)
(* evicts pages until the counter is down again.  Each pass collects its   *)
(* keys in one View and removes them one by one (remove.go).               *)
(***************************************************************************)
EXTENDS CacheStore

CONSTANT Fill   \* maxFileSize * fillFactor

ASSUME CacheCleanerAssumption == Fill \in Nat

VARIABLES
    todo,    \* the keys a cleaner or a clearer has still to go through
    found    \* the keys deleteExpiredCache has found expired and not removed

cleanerVars == <<todo, found>>

Collector == {Cleaner} \cup Clearer

CacheCleanerTypeOK ==
    /\ todo \in [Collector -> SUBSET (Key \cup {NoKey})]
    /\ found \in SUBSET Key

CacheCleanerInit ==
    /\ todo = [c \in Collector |-> {}]
    /\ found = {}

isSizeExceeded == size > Fill

\* RemovePageFromCache, called from the loop at label: metadata, then files
CallRemovePage(k, label) ==
    /\ todo' = [todo EXCEPT ![Cleaner] = @ \ {k}]
    /\ Become(Cleaner, [Asleep EXCEPT !.pc = "drop", !.key = k,
                                      !.then = "unlink", !.back = label])

Observe ==
    /\ At(Cleaner, "idle")
    /\ isSizeExceeded
    /\ Goto(Cleaner, "scan")
    /\ UNCHANGED <<storeVars, cleanerVars>>

-----------------------------------------------------------------------------
(* deleteExpiredCache                                                      *)

\* nameCopy has length zero, and copy into it copies nothing.
nameCopy(name) == NoKey

CollectExpired ==
    /\ At(Cleaner, "scan")
    /\ found' = {k \in Cached : db[k].expired}
    /\ todo' = [todo EXCEPT ![Cleaner] = {nameCopy(k) : k \in found'}]
    /\ Goto(Cleaner, "expired")
    /\ UNCHANGED storeVars

RemoveExpired(k) ==
    /\ At(Cleaner, "expired")
    /\ k \in todo[Cleaner]
    /\ found' = found \ {k}
    /\ CallRemovePage(k, "expired")
    /\ UNCHANGED storeVars

ExpiredRemoved ==
    /\ At(Cleaner, "expired")
    /\ todo[Cleaner] = {}
    /\ Goto(Cleaner, "lru")
    /\ UNCHANGED <<storeVars, cleanerVars>>

-----------------------------------------------------------------------------
(* deletePagesLRU                                                          *)

\* Faulty variant: the names are copied as deleteExpiredCache copies them.
CollectNoNames ==
    /\ At(Cleaner, "lru")
    /\ todo' = [todo EXCEPT ![Cleaner] = {nameCopy(k) : k \in Cached}]
    /\ found' = {}
    /\ Goto(Cleaner, "evict")
    /\ UNCHANGED storeVars

CollectAll ==
    /\ At(Cleaner, "lru")
    /\ todo' = [todo EXCEPT ![Cleaner] = Cached]
    /\ found' = {}
    /\ Goto(Cleaner, "evict")
    /\ UNCHANGED storeVars

Evict(k) ==
    /\ At(Cleaner, "evict")
    /\ isSizeExceeded
    /\ k \in todo[Cleaner]
    /\ CallRemovePage(k, "evict")
    /\ UNCHANGED <<storeVars, found>>

EvictionDone ==
    /\ At(Cleaner, "evict")
    /\ ~isSizeExceeded \/ todo[Cleaner] = {}
    /\ todo' = [todo EXCEPT ![Cleaner] = {}]
    /\ Become(Cleaner, Asleep)
    /\ UNCHANGED <<storeVars, found>>

-----------------------------------------------------------------------------
(* removePageFromDisk: the file, then its directories                      *)

UnlinkFile ==
    LET k == act[Cleaner].key IN
    /\ At(Cleaner, "unlink")
    /\ IF OnDisk(k)
       THEN disk' = [disk EXCEPT ![k] = EmptyDir] /\ Unlink(Cleaner, k, "rmdir")
       ELSE UNCHANGED disk /\ Goto(Cleaner, act[Cleaner].back)
    /\ UNCHANGED <<db, size, cleanerVars>>

\* os.Remove refuses a directory that has got a file again.
RemoveDirectory ==
    LET k == act[Cleaner].key IN
    /\ At(Cleaner, "rmdir")
    /\ disk' = IF OnDisk(k) THEN disk ELSE [disk EXCEPT ![k] = Nowhere]
    /\ Goto(Cleaner, act[Cleaner].back)
    /\ UNCHANGED <<db, size, cleanerVars>>

CleanerStep ==
    \/ Observe
    \/ CollectExpired \/ \E k \in todo[Cleaner] : RemoveExpired(k)
    \/ ExpiredRemoved
    \/ CollectAll \/ \E k \in todo[Cleaner] : Evict(k)
    \/ EvictionDone
    \/ UnlinkFile \/ RemoveDirectory
    \/ /\ DropMetadata(Cleaner) \/ UncountMetadata(Cleaner) \/ UncountGarbage(Cleaner)
       /\ UNCHANGED cleanerVars
=============================================================================

---------------------------- MODULE CacheProofs ----------------------------
(***************************************************************************)
(* The counter of the cache, for any pages, visitors and calls of          *)
(* ClearCache.  What is recorded, what is counted and what is on its way   *)
(* between the two are sums over finite sets, and each step changes them   *)
(* at one page and one goroutine.                                          *)
(***************************************************************************)
EXTENDS Cache, TotalsProofs, FiniteSetTheorems, TLAPS

-----------------------------------------------------------------------------
(* How a step of p changes the goroutines                                  *)

\* p goes on with c; as for the others, at most a slice gets other contents or
\* a file is lost, and none comes to or leaves a step that holds a size.
Turns(p, c) ==
    /\ act' = [q \in Actor |-> act'[q]]
    /\ act'[p] = c
    /\ \A q \in Actor \ {p} :
         \/ act'[q] = act[q]
         \/ /\ At(q, "uncount") /\ PageReuse
            /\ \E s \in SUBSET PageSize : act'[q] = [act[q] EXCEPT !.slice = s, !.torn = TRUE]
         \/ At(q, "write") /\ act'[q] = [act[q] EXCEPT !.pc = "lost"]

(* Become, Goto, Commit and Unlink are turns of p.                         *)
LEMMA EveryTurn ==
    ASSUME TypeOK, NEW p \in Actor
    PROVE  /\ \A c : Become(p, c) => Turns(p, c)
           /\ \A c : Commit(p, c) /\ db' \in [Key -> Meta \cup {NoMeta}] => Turns(p, c)
           /\ \A label : Goto(p, label) => Turns(p, Moved(p, label))
           /\ \A k, label : Unlink(p, k, label) => Turns(p, Moved(p, label))
           /\ \A label : CallRemoveMetadata(p, label) =>
                Turns(p, [Asleep EXCEPT !.pc = "drop", !.key = act[p].key,
                                        !.then = label, !.back = label])
  <1>1. act \in [Actor -> ActorState]
    BY DEF TypeOK, CacheStoreTypeOK
  <1>2. ASSUME NEW c, Become(p, c)
        PROVE  Turns(p, c)
    BY <1>1, <1>2 DEF Become, Turns
  <1>3. ASSUME NEW c, Commit(p, c), db' \in [Key -> Meta \cup {NoMeta}]
        PROVE  Turns(p, c)
    <2> DEFINE written == {db'[k].size : k \in Cached'}
    <2>1. written \subseteq PageSize
      BY <1>3 DEF Cached, Meta
    <2> HIDE DEF written
    <2>2. act' = [[q \in Actor |->
                     IF At(q, "uncount") /\ PageReuse
                     THEN [act[q] EXCEPT !.slice = @ \cup written, !.torn = TRUE]
                     ELSE act[q]]
                  EXCEPT ![p] = c]
      BY <1>3 DEF Commit, written
    <2>3. act' = [q \in Actor |-> act'[q]] /\ act'[p] = c
      BY <2>2
    <2>4. ASSUME NEW q \in Actor \ {p}, At(q, "uncount"), PageReuse
          PROVE  \E s \in SUBSET PageSize :
                   act'[q] = [act[q] EXCEPT !.slice = s, !.torn = TRUE]
      <3>1. act[q].slice \cup written \in SUBSET PageSize
        BY <1>1, <2>1 DEF ActorState
      <3>2. act'[q] = [act[q] EXCEPT !.slice = act[q].slice \cup written, !.torn = TRUE]
        BY <2>2, <2>4
      <3> QED BY <3>1, <3>2
    <2>5. ASSUME NEW q \in Actor \ {p}, ~(At(q, "uncount") /\ PageReuse)
          PROVE  act'[q] = act[q]
      BY <2>2, <2>5
    <2> QED BY <2>3, <2>4, <2>5 DEF Turns
  <1>4. ASSUME NEW k, NEW label, Unlink(p, k, label)
        PROVE  Turns(p, Moved(p, label))
    BY <1>4 DEF Unlink, Turns
  <1> QED BY <1>2, <1>3, <1>4 DEF Goto, CallRemoveMetadata

(* A turn to a state that is typed and fits keeps the goroutines so.       *)
LEMMA TurnFits ==
    ASSUME IInv, NEW p \in Actor, NEW c \in ActorState, Fits(p, c), Turns(p, c)
    PROVE  /\ act' \in [Actor -> ActorState]
           /\ \A q \in Actor : Fits(q, act[q])'
  <1>1. act \in [Actor -> ActorState] /\ PageReuse \in BOOLEAN
    BY CacheStoreAssumption DEF IInv, TypeOK, CacheStoreTypeOK
  <1>2. ASSUME NEW q \in Actor
        PROVE  act'[q] \in ActorState /\ Fits(q, act'[q])
    <2>1. act[q] \in ActorState /\ Fits(q, act[q])
      BY <1>1 DEF IInv
    <2>2. CASE q = p
      BY <2>2 DEF Turns
    <2>3. CASE act'[q] = act[q]
      BY <2>1, <2>3
    <2>4. ASSUME PageReuse, NEW s \in SUBSET PageSize,
                 act'[q] = [act[q] EXCEPT !.slice = s, !.torn = TRUE]
          PROVE  act'[q] \in ActorState /\ Fits(q, act'[q])
      <3>1. act'[q] \in ActorState
        BY <2>1, <2>4 DEF ActorState
      <3>2. /\ act'[q].torn /\ act'[q].pc = act[q].pc /\ act'[q].key = act[q].key
            /\ act'[q].n = act[q].n /\ act'[q].then = act[q].then /\ act'[q].back = act[q].back
        BY <2>1, <2>4 DEF ActorState
      <3> QED BY <2>1, <2>4, <3>1, <3>2 DEF Fits
    <2>5. CASE At(q, "write") /\ act'[q] = [act[q] EXCEPT !.pc = "lost"]
      BY <2>1, <2>5 DEF ActorState, Fits, At, Label
    <2> QED BY <2>2, <2>3, <2>4, <2>5 DEF Turns
  <1>3. act' \in [Actor -> ActorState]
    BY <1>2 DEF Turns
  <1> QED BY <1>2, <1>3 DEF Fits

(* Who is asleep knows nothing, and whoever starts a removal of a page     *)
(* knows where it goes on.                                                 *)
LEMMA AsleepFits ==
    /\ Asleep \in ActorState
    /\ \A p : Fits(p, Asleep)
    /\ \A label \in Label : [Asleep EXCEPT !.pc = label] \in ActorState
    /\ \A p, label : label \notin {"insert", "count", "uncount", "clear"} /\ p \notin Visitor
         => Fits(p, [Asleep EXCEPT !.pc = label])
  <1>1. Asleep \in ActorState
    BY DEF Asleep, ActorState, Label
  <1>2. \A p : Fits(p, Asleep)
    BY DEF Asleep, Fits
  <1>3. \A label \in Label : [Asleep EXCEPT !.pc = label] \in ActorState
    BY <1>1 DEF ActorState
  <1>4. ASSUME NEW p, NEW label,
               label \notin {"insert", "count", "uncount", "clear"}, p \notin Visitor
        PROVE  Fits(p, [Asleep EXCEPT !.pc = label])
    BY <1>4 DEF Asleep, Fits
  <1> QED BY <1>1, <1>2, <1>3, <1>4

\* The labels at which a visitor deals with a page or with none
ForVisitors == {"idle", "panicked", "view", "uses", "read", "miss", "count", "mkdir",
                "create", "write", "lost", "drop"}

(* Going on to another label keeps what p knows, unless it is one that     *)
(* needs more knowledge.                                                   *)
LEMMA MovedFits ==
    ASSUME IInv, NEW p \in Actor, NEW label \in Label \ {"insert", "uncount"},
           label = "count" => p \in Visitor, label = "clear" => p \in Clearer,
           p \in Visitor =>
             /\ label \in ForVisitors
             /\ label \notin {"idle", "panicked"} => act[p].pc \notin {"idle", "panicked"}
    PROVE  /\ Moved(p, label) \in ActorState
           /\ Fits(p, Moved(p, label))
           /\ Moved(p, label).pc = label
  <1>1. act[p] \in ActorState /\ Fits(p, act[p])
    BY DEF IInv, TypeOK, CacheStoreTypeOK
  <1>2. CASE label \in {"idle", "scan", "expired", "lru", "evict", "done", "panicked"}
    <2>1. Moved(p, label) = [Asleep EXCEPT !.pc = label]
      BY <1>2 DEF Moved
    <2> QED BY <1>2, <2>1, CacheStoreAssumption DEF Asleep, ActorState, Label, Fits, ForVisitors
  <1>3. CASE label = "miss"
    <2>1. Moved(p, label) = [Asleep EXCEPT !.pc = label, !.key = act[p].key]
      BY <1>3 DEF Moved
    <2> QED BY <1>1, <1>3, <2>1, CacheStoreAssumption DEF Asleep, ActorState, Label, Fits
  <1>4. CASE label \notin {"idle", "scan", "expired", "lru", "evict", "done", "panicked", "miss"}
    <2>1. Moved(p, label) = [act[p] EXCEPT !.pc = label]
      BY <1>4 DEF Moved
    <2> QED BY <1>1, <1>4, <2>1 DEF ActorState, Label, Fits
  <1> QED BY <1>2, <1>3, <1>4

-----------------------------------------------------------------------------
(* Steps that count nothing                                                *)

\* A turn of p that neither the database nor the counter has to do with, and
\* neither p before nor p after it stands between the two or has bolt's lock.
QuietTurn(p) ==
    /\ \E c \in ActorState :
         /\ Fits(p, c)
         /\ Turns(p, c)
         /\ c.pc \notin {"insert", "count", "uncount", "clear"}
    /\ act[p].pc \notin {"count", "uncount", "clear"}
    /\ UNCHANGED <<db, size>>

(* A move to a label at which nothing is held is quiet.                    *)
LEMMA QuietMove ==
    ASSUME IInv, NEW p \in Actor, NEW label \in Label \ {"insert", "count", "uncount", "clear"},
           p \in Visitor =>
             /\ label \in ForVisitors
             /\ label \notin {"idle", "panicked"} => act[p].pc \notin {"idle", "panicked"},
           act[p].pc \notin {"count", "uncount", "clear"}, UNCHANGED <<db, size>>,
           Goto(p, label) \/ \E k : Unlink(p, k, label)
    PROVE  QuietTurn(p)
  <1>1. Turns(p, Moved(p, label))
    BY EveryTurn DEF IInv
  <1>2. /\ Moved(p, label) \in ActorState
        /\ Fits(p, Moved(p, label))
        /\ Moved(p, label).pc = label
    BY MovedFits
  <1> QED BY <1>1, <1>2 DEF QuietTurn

(* So is a return.                                                         *)
LEMMA QuietSleep ==
    ASSUME IInv, NEW p \in Actor, act[p].pc \notin {"count", "uncount", "clear"},
           UNCHANGED <<db, size>>, Become(p, Asleep)
    PROVE  QuietTurn(p)
  <1>1. Turns(p, Asleep)
    BY EveryTurn DEF IInv
  <1>2. Asleep.pc = "idle"
    BY DEF Asleep
  <1> QED BY <1>1, <1>2, AsleepFits DEF QuietTurn

(* The removal of what a visitor found without a file, or could not write. *)
LEMMA QuietRemoval ==
    ASSUME IInv, NEW v \in Visitor, act[v].pc \notin {"idle", "panicked", "count", "uncount", "clear"},
           UNCHANGED <<db, size>>, NEW label \in {"idle", "miss"}, CallRemoveMetadata(v, label)
    PROVE  QuietTurn(v)
  <1> DEFINE c == [Asleep EXCEPT !.pc = "drop", !.key = act[v].key,
                                 !.then = label, !.back = label]
  <1>1. v \in Actor /\ act[v] \in ActorState /\ act[v].key \in Key
    BY DEF IInv, TypeOK, CacheStoreTypeOK, Actor, Fits
  <1>2. c \in ActorState /\ Fits(v, c) /\ c.pc = "drop"
    BY <1>1 DEF Asleep, ActorState, Label, Fits
  <1>3. Turns(v, c)
    BY <1>1, EveryTurn DEF IInv
  <1> QED BY <1>1, <1>2, <1>3 DEF QuietTurn

\* The steps of a visitor at which nothing is counted
LookupOrFile(v) ==
    \/ ViewMetadata(v) \/ CountUse(v) \/ NotFresh(v) \/ ReadPage(v) \/ NothingToStore(v)
    \/ MakeDirectory(v) \/ CreateFile(v) \/ WriteFile(v) \/ WriteFails(v) \/ WriteLost(v)
    \/ Recovered(v)

(* Looking a page up, and writing its file, are quiet.                     *)
LEMMA QuietVisitor ==
    ASSUME IInv, NEW v \in Visitor, LookupOrFile(v) \/ \E k \in Key : Visit(v, k)
    PROVE  QuietTurn(v)
  <1>0. v \in Actor /\ act[v] \in ActorState
    BY DEF IInv, TypeOK, CacheStoreTypeOK, Actor
  <1> USE DEF storeVars
  <1>1. ASSUME NEW k \in Key, Visit(v, k)
        PROVE  QuietTurn(v)
    <2> DEFINE c == [Asleep EXCEPT !.pc = "view", !.key = k]
    <2>1. c \in ActorState /\ Fits(v, c) /\ c.pc = "view"
      BY DEF Asleep, ActorState, Label, Fits
    <2>2. Turns(v, c)
      BY <1>0, <1>1, EveryTurn DEF Visit, IInv
    <2> QED BY <1>1, <2>1, <2>2 DEF QuietTurn, Visit, At
  <1>2. CASE ViewMetadata(v)
    <2>1. Goto(v, "uses") \/ Goto(v, "miss")
      BY <1>2 DEF ViewMetadata
    <2> QED BY <1>0, <1>2, <2>1, QuietMove DEF ViewMetadata, At, Label, ForVisitors
  <1>3. CASE CountUse(v)
    <2>1. CASE act[v].key \in Cached
      <3>0. db' \in [Key -> Meta \cup {NoMeta}] /\ TypeOK
        BY <1>3 DEF CountUse, IInv, TypeOK, CacheStoreTypeOK
      <3>1. Turns(v, Moved(v, "read"))
        BY <1>0, <1>3, <2>1, <3>0, EveryTurn DEF CountUse
      <3>2. /\ Moved(v, "read") \in ActorState
            /\ Fits(v, Moved(v, "read"))
            /\ Moved(v, "read").pc = "read"
        BY <1>0, <1>3, MovedFits DEF CountUse, At, Label, ForVisitors
      <3> QED BY <1>3, <3>1, <3>2 DEF QuietTurn, CountUse, At
    <2>2. CASE act[v].key \notin Cached
      BY <1>0, <1>3, <2>2, QuietMove DEF CountUse, At, Label, ForVisitors
    <2> QED BY <2>1, <2>2
  <1>4. CASE NotFresh(v)
    BY <1>0, <1>4, QuietMove DEF NotFresh, At, Label, ForVisitors
  <1>5. CASE ReadPage(v)
    <2>1. CallRemoveMetadata(v, "miss") \/ Become(v, Asleep) \/ Goto(v, "miss")
      BY <1>5 DEF ReadPage
    <2> QED BY <1>0, <1>5, <2>1, QuietRemoval, QuietSleep, QuietMove
            DEF ReadPage, At, Label, ForVisitors
  <1>6. CASE NothingToStore(v)
    BY <1>0, <1>6, QuietSleep DEF NothingToStore, At
  <1>7. CASE MakeDirectory(v)
    BY <1>0, <1>7, QuietMove DEF MakeDirectory, At, Label, ForVisitors
  <1>8. CASE CreateFile(v)
    <2>1. CallRemoveMetadata(v, "idle") \/ Goto(v, "write")
      BY <1>8 DEF CreateFile
    <2> QED BY <1>0, <1>8, <2>1, QuietRemoval, QuietMove DEF CreateFile, At, Label, ForVisitors
  <1>9. CASE WriteFile(v)
    BY <1>0, <1>9, QuietSleep DEF WriteFile, At
  <1>10. CASE WriteFails(v)
    BY <1>0, <1>10, QuietRemoval DEF WriteFails, At
  <1>11. CASE WriteLost(v)
    BY <1>0, <1>11, QuietSleep DEF WriteLost, At
  <1>12. CASE Recovered(v)
    BY <1>0, <1>12, QuietSleep DEF Recovered, At
  <1> QED BY <1>1, <1>2, <1>3, <1>4, <1>5, <1>6, <1>7, <1>8, <1>9, <1>10, <1>11, <1>12
          DEF LookupOrFile

\* The cleaner's steps apart from the removal of metadata
CleanerElsewhere ==
    \/ Observe
    \/ CollectExpired \/ \E k \in todo[Cleaner] : RemoveExpired(k)
    \/ ExpiredRemoved
    \/ CollectAll \/ \E k \in todo[Cleaner] : Evict(k)
    \/ EvictionDone
    \/ UnlinkFile \/ RemoveDirectory

(* Collecting keys, going through them and unlinking files are quiet.      *)
LEMMA QuietCleaner ==
    ASSUME IInv, CleanerElsewhere
    PROVE  QuietTurn(Cleaner)
  <1>0. /\ Cleaner \in Actor /\ Cleaner \notin Visitor
        /\ act[Cleaner] \in ActorState /\ act[Cleaner].back \in {"idle", "miss", "expired", "evict"}
        /\ todo[Cleaner] \subseteq Key \cup {NoKey}
    BY CacheStoreAssumption
       DEF IInv, TypeOK, CacheStoreTypeOK, CacheCleanerTypeOK, Actor, Fits, Collector
  <1> USE DEF storeVars
  <1>1. CASE Observe
    BY <1>0, <1>1, QuietMove DEF Observe, At, Label
  <1>2. CASE CollectExpired
    BY <1>0, <1>2, QuietMove DEF CollectExpired, At, Label
  <1>3. ASSUME NEW k \in todo[Cleaner], NEW label \in {"expired", "evict"},
               CallRemovePage(k, label), At(Cleaner, label), UNCHANGED <<db, size>>
        PROVE  QuietTurn(Cleaner)
    <2> DEFINE c == [Asleep EXCEPT !.pc = "drop", !.key = k,
                                   !.then = "unlink", !.back = label]
    <2>1. c \in ActorState /\ Fits(Cleaner, c) /\ c.pc = "drop"
      BY <1>0 DEF Asleep, ActorState, Label, Fits
    <2>2. Turns(Cleaner, c)
      BY <1>0, <1>3, EveryTurn DEF CallRemovePage, IInv
    <2> QED BY <1>3, <2>1, <2>2 DEF QuietTurn, At
  <1>4. CASE ExpiredRemoved
    BY <1>0, <1>4, QuietMove DEF ExpiredRemoved, At, Label
  <1>5. CASE CollectAll
    BY <1>0, <1>5, QuietMove DEF CollectAll, At, Label
  <1>6. CASE EvictionDone
    BY <1>0, <1>6, QuietSleep DEF EvictionDone, At
  <1>7. CASE UnlinkFile
    <2>1. \/ Unlink(Cleaner, act[Cleaner].key, "rmdir")
          \/ Goto(Cleaner, act[Cleaner].back)
      BY <1>7 DEF UnlinkFile
    <2> QED BY <1>0, <1>7, <2>1, QuietMove DEF UnlinkFile, At, Label
  <1>8. CASE RemoveDirectory
    BY <1>0, <1>8, QuietMove DEF RemoveDirectory, At, Label
  <1>9. ASSUME NEW k \in todo[Cleaner], RemoveExpired(k) \/ Evict(k)
        PROVE  QuietTurn(Cleaner)
    BY <1>3, <1>9 DEF RemoveExpired, Evict
  <1> QED BY <1>1, <1>2, <1>4, <1>5, <1>6, <1>7, <1>8, <1>9 DEF CleanerElsewhere

(* So is the removal of the directory by ClearCache.                       *)
LEMMA QuietClearer ==
    ASSUME IInv, NEW c \in Clearer,
           ListDirectory(c) \/ Walked(c) \/ \E k \in todo[c] : RemoveAll(c, k)
    PROVE  QuietTurn(c)
  <1>0. c \in Actor /\ c \notin Visitor
    BY CacheStoreAssumption DEF Actor
  <1> USE DEF storeVars
  <1>1. CASE ListDirectory(c)
    BY <1>0, <1>1, QuietMove DEF ListDirectory, At, Label
  <1>2. CASE Walked(c)
    BY <1>0, <1>2, QuietMove DEF Walked, At, Label
  <1>3. ASSUME NEW k \in todo[c], RemoveAll(c, k)
        PROVE  QuietTurn(c)
    BY <1>0, <1>3, QuietMove DEF RemoveAll, At, Label
  <1> QED BY <1>1, <1>2, <1>3

-----------------------------------------------------------------------------
(* The sums                                                                *)

\* The bytes the database records of the page of k, if any
Weight(k) == IF k \in Cached THEN db[k].size ELSE 0

(* Some page is the largest.                                               *)
LEMMA LargestExists == LargestPage \in PageSize /\ \A m \in PageSize : m <= LargestPage
  BY CacheStoreAssumption DEF LargestPage

(* The metadata of a page is some.                                         *)
LEMMA PageIsSome == \A n \in PageSize : [size |-> n, expired |-> FALSE] # NoMeta
  <1> SUFFICES ASSUME NEW n \in PageSize
               PROVE  [size |-> n, expired |-> FALSE] # NoMeta
    OBVIOUS
  <1>1. [size |-> n, expired |-> FALSE] \in [size : PageSize, expired : BOOLEAN]
    OBVIOUS
  <1>2. NoMeta \notin [size : PageSize, expired : BOOLEAN]
    BY CacheStoreAssumption
  <1> QED BY <1>1, <1>2, Zenon

(* What may be held is at most a page.                                     *)
LEMMA SizeRange == \A n \in PageSize \cup {0} : n \in Nat /\ n <= LargestPage
  <1>1. PageSize \subseteq Nat /\ LargestPage \in Nat
    BY LargestExists, CacheStoreAssumption
  <1> QED BY <1>1, LargestExists

(* There are finitely many goroutines.                                     *)
LEMMA FiniteActors == IsFiniteSet(Actor)
  <1>1. IsFiniteSet({Cleaner})
    BY FS_Singleton
  <1>2. IsFiniteSet(Visitor \cup {Cleaner})
    BY <1>1, FS_Union, CacheStoreAssumption
  <1> QED BY <1>2, FS_Union, CacheStoreAssumption DEF Actor

(* The bytes of any pages that are there are a number, and are some of     *)
(* those of all of them.                                                   *)
LEMMA BytesType ==
    ASSUME TypeOK, NEW keys \in SUBSET Cached
    PROVE  /\ BytesOf(keys) \in Nat
           /\ BytesOf(keys) <= BytesOf(Cached)
  <1> DEFINE f == [k \in Key |-> IF k \in keys THEN db[k].size ELSE 0]
             g == [k \in Key |-> IF k \in Cached THEN db[k].size ELSE 0]
  <1>1. \A k \in Cached : k \in Key /\ db[k].size \in PageSize
    BY DEF TypeOK, CacheStoreTypeOK, Meta, Cached
  <1>2. \A k \in Cached : db[k].size \in Nat /\ db[k].size <= LargestPage
    BY <1>1, LargestExists, CacheStoreAssumption
  <1>3. f \in [Key -> Nat] /\ g \in [Key -> Nat]
    BY <1>2
  <1>4. \A k \in Key : f[k] <= g[k] /\ g[k] <= LargestPage
    BY <1>2, LargestExists, CacheStoreAssumption
  <1>5. LargestPage \in Nat /\ Key \in SUBSET Key /\ IsFiniteSet(Key)
    BY LargestExists, CacheStoreAssumption
  <1> HIDE DEF f, g
  <1>6. IsFiniteSet(Units(g))
    BY <1>3, <1>4, <1>5, TotalBound
  <1>7. IsFiniteSet(Units(f)) /\ Total(f) <= Total(g)
    BY <1>3, <1>4, <1>6, TotalMonotone
  <1>8. Total(f) \in Nat
    BY <1>3, <1>7, TotalType
  <1> QED BY <1>7, <1>8 DEF f, g, BytesOf

(* A change of one page changes the sum by what is recorded of it.         *)
LEMMA BytesChange ==
    ASSUME TypeOK, NEW k \in Key, db' \in [Key -> Meta \cup {NoMeta}],
           \A j \in Key \ {k} : db'[j] = db[j]
    PROVE  /\ BytesOf(Cached)' = BytesOf(Cached) - Weight(k) + Weight(k)'
           /\ Weight(k) \in Nat /\ Weight(k)' \in Nat
           /\ BytesOf(Cached) \in Nat
  <1> DEFINE f == [j \in Key |-> Weight(j)]
             g == [j \in Key |-> Weight(j)']
  <1>1. db \in [Key -> Meta \cup {NoMeta}] /\ PageSize \subseteq Nat
    BY CacheStoreAssumption DEF TypeOK, CacheStoreTypeOK
  <1>2. \A j \in Key : Weight(j) \in PageSize \cup {0} /\ Weight(j)' \in PageSize \cup {0}
    BY <1>1 DEF Weight, Cached, Meta
  <1>11. ASSUME NEW j \in Key
         PROVE  /\ Weight(j) \in Nat /\ Weight(j)' \in Nat
                /\ Weight(j) <= LargestPage
    BY <1>2, SizeRange
  <1>3. f \in [Key -> Nat] /\ g \in [Key -> Nat]
    BY <1>11
  <1>4. \A j \in Key \ {k} : g[j] = f[j]
    BY DEF Weight, Cached
  <1>5. LargestPage \in Nat /\ Key \in SUBSET Key /\ IsFiniteSet(Key)
    BY LargestExists, CacheStoreAssumption
  <1>6. \A j \in Key : f[j] <= LargestPage
    BY <1>11
  <1>7. Weight(k) = f[k] /\ Weight(k)' = g[k]
    OBVIOUS
  <1>8. BytesOf(Cached) = Total(f) /\ BytesOf(Cached)' = Total(g)
    BY DEF BytesOf, Weight
  <1> HIDE DEF f, g
  <1>9. IsFiniteSet(Units(f))
    BY <1>3, <1>5, <1>6, TotalBound
  <1>10. Total(g) = Total(f) - f[k] + g[k] /\ Total(f) \in Nat
    BY <1>3, <1>4, <1>9, TotalChange, TotalType
  <1> QED BY <1>3, <1>7, <1>8, <1>10

(* Without one of the pages the sum is less by its size.                   *)
LEMMA BytesWithout ==
    ASSUME TypeOK, NEW keys \in SUBSET Cached, NEW k \in keys
    PROVE  /\ BytesOf(keys \ {k}) = BytesOf(keys) - db[k].size
           /\ BytesOf(keys) \in Nat /\ db[k].size \in Nat
  <1> DEFINE f == [j \in Key |-> IF j \in keys THEN db[j].size ELSE 0]
             g == [j \in Key |-> IF j \in keys \ {k} THEN db[j].size ELSE 0]
  <1>1. \A j \in keys : j \in Key /\ db[j].size \in PageSize
    BY DEF TypeOK, CacheStoreTypeOK, Meta, Cached
  <1>2. \A j \in keys : db[j].size \in Nat /\ db[j].size <= LargestPage
    BY <1>1, SizeRange
  <1>3. LargestPage \in Nat /\ Key \in SUBSET Key /\ IsFiniteSet(Key)
    BY LargestExists, CacheStoreAssumption
  <1>4. f \in [Key -> Nat] /\ g \in [Key -> Nat] /\ \A j \in Key : f[j] <= LargestPage
    BY <1>2, <1>3
  <1>5. /\ \A j \in Key \ {k} : g[j] = f[j]
        /\ k \in Key /\ f[k] = db[k].size /\ g[k] = 0
    BY <1>1
  <1>6. BytesOf(keys) = Total(f) /\ BytesOf(keys \ {k}) = Total(g)
    BY DEF BytesOf
  <1> HIDE DEF f, g
  <1>7. IsFiniteSet(Units(f))
    BY <1>3, <1>4, TotalBound
  <1>8. Total(g) = Total(f) - f[k] + g[k] /\ Total(f) \in Nat
    BY <1>4, <1>5, <1>7, TotalChange, TotalType
  <1> QED BY <1>2, <1>5, <1>6, <1>8

(* What waits at a label is a number.                                      *)
LEMMA WaitingType ==
    ASSUME TypeOK, NEW label
    PROVE  /\ [p \in Actor |-> Held(p, label)] \in [Actor -> Nat]
           /\ \A p \in Actor : Held(p, label) <= LargestPage
           /\ IsFiniteSet(Units([p \in Actor |-> Held(p, label)]))
           /\ Waiting(label) \in Nat
  <1> DEFINE f == [p \in Actor |-> Held(p, label)]
  <1>1. act \in [Actor -> ActorState] /\ PageSize \subseteq Nat
    BY CacheStoreAssumption DEF TypeOK, CacheStoreTypeOK
  <1>2. \A p \in Actor : Held(p, label) \in PageSize \cup {0}
    BY <1>1 DEF Held, ActorState
  <1>3. LargestPage \in Nat /\ Actor \in SUBSET Actor
    BY LargestExists, CacheStoreAssumption
  <1>8. ASSUME NEW p \in Actor
        PROVE  Held(p, label) \in Nat /\ Held(p, label) <= LargestPage
    BY <1>2, SizeRange
  <1>4. f \in [Actor -> Nat] /\ \A p \in Actor : f[p] <= LargestPage /\ f[p] = Held(p, label)
    BY <1>8
  <1>5. Waiting(label) = Total(f)
    BY DEF Waiting
  <1> HIDE DEF f
  <1>6. IsFiniteSet(Units(f))
    BY <1>3, <1>4, FiniteActors, TotalBound
  <1>7. Total(f) \in Nat
    BY <1>4, <1>6, TotalType
  <1> QED BY <1>4, <1>5, <1>6, <1>7 DEF f

(* A turn of p changes what waits at a label by what p has there.          *)
LEMMA WaitingChange ==
    ASSUME TypeOK, NEW p \in Actor, NEW c \in ActorState, Turns(p, c),
           NEW label \in {"insert", "count", "uncount"}
    PROVE  /\ Waiting(label)' = Waiting(label) - Held(p, label) + (IF c.pc = label THEN c.n ELSE 0)
           /\ Waiting(label) \in Nat /\ Held(p, label) \in Nat /\ c.n \in Nat
  <1> DEFINE f == [q \in Actor |-> Held(q, label)]
             g == [q \in Actor |-> Held(q, label)']
  <1>1. act \in [Actor -> ActorState] /\ PageSize \subseteq Nat
    BY CacheStoreAssumption DEF TypeOK, CacheStoreTypeOK
  <1>2. c.n \in Nat /\ Held(p, label)' = IF c.pc = label THEN c.n ELSE 0
    <2>1. c.n \in PageSize \cup {0}
      BY DEF ActorState
    <2>2. act'[p] = c
      BY DEF Turns
    <2> QED BY <2>1, <2>2, SizeRange DEF Held, At
  <1>3. ASSUME NEW q \in Actor \ {p}
        PROVE  Held(q, label)' = Held(q, label)
    <2>1. act[q] \in ActorState
      BY <1>1
    <2>2. CASE act'[q] = act[q]
      BY <2>2 DEF Held, At
    <2>3. ASSUME NEW s \in SUBSET PageSize,
                 act'[q] = [act[q] EXCEPT !.slice = s, !.torn = TRUE]
          PROVE  Held(q, label)' = Held(q, label)
      BY <2>1, <2>3 DEF Held, At, ActorState
    <2>4. CASE At(q, "write") /\ act'[q] = [act[q] EXCEPT !.pc = "lost"]
      BY <2>1, <2>4 DEF Held, At, ActorState
    <2> QED BY <2>2, <2>3, <2>4 DEF Turns
  <1>4. f \in [Actor -> Nat] /\ IsFiniteSet(Units(f)) /\ Waiting(label) \in Nat
    BY WaitingType
  <1>5. f[p] = Held(p, label) /\ \A q \in Actor : f[q] = Held(q, label) /\ f[q] \in Nat
    BY <1>4
  <1>6. g \in [Actor -> Nat] /\ g[p] = (IF c.pc = label THEN c.n ELSE 0)
        /\ \A q \in Actor \ {p} : g[q] = f[q]
    BY <1>2, <1>3, <1>5
  <1>7. Waiting(label) = Total(f) /\ Waiting(label)' = Total(g)
    BY DEF Waiting
  <1> HIDE DEF f, g
  <1>8. Total(g) = Total(f) - f[p] + g[p]
    BY <1>4, <1>6, TotalChange
  <1> QED BY <1>2, <1>4, <1>5, <1>6, <1>7, <1>8

-----------------------------------------------------------------------------
(* What each step does to the sums                                         *)

\* What the database records and what has been let in but not recorded yet
Promised == BytesOf(Cached) + Waiting("insert")

StoreTyped ==
    /\ db \in [Key -> Meta \cup {NoMeta}]
    /\ size \in Int
    /\ act \in [Actor -> ActorState]
    /\ \A p \in Actor : Fits(p, act[p])

\* What the invariant says of the database, the counter and the goroutines
StoreKept == StoreTyped' /\ ClearInv'

(* The sums are numbers.                                                   *)
LEMMA SumsAreNumbers ==
    ASSUME TypeOK
    PROVE  /\ BytesOf(Cached) \in Nat /\ BytesOf(Recorded) \in Nat
           /\ Waiting("insert") \in Nat /\ Waiting("count") \in Nat /\ Waiting("uncount") \in Nat
           /\ size \in Int /\ Balance \in Int /\ Excess \in Int /\ Promised \in Nat
  <1>1. BytesOf(Cached) \in Nat /\ BytesOf(Recorded) \in Nat
    <2>1. Recorded \in SUBSET Cached
      BY DEF Recorded
    <2> QED BY <2>1, BytesType
  <1>2. /\ Waiting("insert") \in Nat
        /\ Waiting("count") \in Nat
        /\ Waiting("uncount") \in Nat
    BY WaitingType
  <1>3. size \in Int
    BY DEF TypeOK, CacheStoreTypeOK
  <1> QED BY <1>1, <1>2, <1>3 DEF Balance, Excess, Promised

(* A turn of p moves what p holds from one sum to another.                 *)
LEMMA TurnSums ==
    ASSUME IInv, NEW p \in Actor, NEW c \in ActorState, Fits(p, c), Turns(p, c),
           db' \in [Key -> Meta \cup {NoMeta}], size' \in Int
    PROVE  /\ StoreTyped'
           /\ Waiting("insert")' = Waiting("insert") - Held(p, "insert")
                                     + (IF c.pc = "insert" THEN c.n ELSE 0)
           /\ Waiting("count")' = Waiting("count") - Held(p, "count")
                                     + (IF c.pc = "count" THEN c.n ELSE 0)
           /\ Waiting("uncount")' = Waiting("uncount") - Held(p, "uncount")
                                     + (IF c.pc = "uncount" THEN c.n ELSE 0)
           /\ c.n \in Nat /\ act[p].n \in Nat
  <1>1. TypeOK
    BY DEF IInv
  <1>2. act[p].n \in PageSize \cup {0} /\ c.n \in PageSize \cup {0}
    BY <1>1 DEF TypeOK, CacheStoreTypeOK, ActorState
  <1>3. StoreTyped'
    BY TurnFits DEF StoreTyped
  <1>4. /\ Waiting("insert")' = Waiting("insert") - Held(p, "insert")
                                  + (IF c.pc = "insert" THEN c.n ELSE 0)
        /\ Waiting("count")' = Waiting("count") - Held(p, "count")
                                  + (IF c.pc = "count" THEN c.n ELSE 0)
        /\ Waiting("uncount")' = Waiting("uncount") - Held(p, "uncount")
                                  + (IF c.pc = "uncount" THEN c.n ELSE 0)
    BY <1>1, WaitingChange
  <1>5. c.n \in Nat /\ act[p].n \in Nat
    BY <1>2, SizeRange
  <1> QED BY <1>3, <1>4, <1>5

\* Nothing is done to what a clear under way has still to go through.
TodoKept == \A c \in Clearer : At(c, "clear") => todo'[c] = todo[c]

(* A turn of p that has nothing to do with bolt's lock leaves it, and so   *)
(* what is recorded beyond it, as it is; and if p changes the database,    *)
(* nobody else had the lock.                                               *)
LEMMA TurnLocks ==
    ASSUME IInv, NEW p \in Actor, NEW c \in ActorState, Turns(p, c), TodoKept,
           act[p].pc # "clear", c.pc # "clear", db' = db \/ ~Locked
    PROVE  /\ ClearInv'
           /\ \/ /\ BytesOf(Cached)' = BytesOf(Cached)
                 /\ BytesOf(Recorded)' = BytesOf(Recorded)
              \/ /\ BytesOf(Cached) = BytesOf(Recorded)
                 /\ BytesOf(Cached)' = BytesOf(Recorded)'
  <1>1. ASSUME NEW q \in Actor
        PROVE  (act'[q].pc = "clear") <=> (act[q].pc = "clear")
    <2>1. act[q] \in ActorState
      BY DEF IInv, TypeOK, CacheStoreTypeOK
    <2>2. CASE q = p
      BY <2>2 DEF Turns
    <2>3. CASE act'[q] = act[q]
      BY <2>3
    <2>4. ASSUME NEW s, act'[q] = [act[q] EXCEPT !.slice = s, !.torn = TRUE]
          PROVE  act'[q].pc = act[q].pc
      BY <2>1, <2>4 DEF ActorState
    <2>5. CASE At(q, "write") /\ act'[q] = [act[q] EXCEPT !.pc = "lost"]
      BY <2>1, <2>5 DEF ActorState, At
    <2> QED BY <2>2, <2>3, <2>4, <2>5 DEF Turns
  <1>2. \A d \in Clearer : At(d, "clear")' <=> At(d, "clear")
    BY <1>1 DEF At, Actor
  <1>3. ClearInv
    BY DEF IInv
  <1>4. CASE db' = db
    <2>1. Cached' = Cached
      BY <1>4 DEF Cached
    <2>2. Recorded' = Recorded
      BY <1>2, <2>1 DEF Recorded, TodoKept
    <2>3. ClearInv'
      BY <1>2, <1>3, <2>1 DEF ClearInv, TodoKept
    <2> QED BY <1>4, <2>1, <2>2, <2>3 DEF BytesOf
  <1>5. CASE ~Locked
    <2>1. \A d \in Clearer : ~At(d, "clear") /\ ~At(d, "clear")'
      BY <1>2, <1>5 DEF Locked
    <2>2. ClearInv'
      BY <2>1 DEF ClearInv
    <2>3. Recorded = Cached /\ Recorded' = Cached'
      BY <2>1 DEF Recorded
    <2> QED BY <2>2, <2>3 DEF BytesOf
  <1> QED BY <1>4, <1>5

(* A quiet turn changes neither side of the balance, and at most gives up  *)
(* a page that was let in.                                                 *)
LEMMA QuietStep ==
    ASSUME IInv, NEW p \in Actor, QuietTurn(p), TodoKept
    PROVE  StoreKept /\ Excess' = Excess /\ Promised' <= Promised
  <1>1. PICK c \in ActorState :
          Fits(p, c) /\ Turns(p, c) /\ c.pc \notin {"insert", "count", "uncount", "clear"}
    BY DEF QuietTurn
  <1>2. UNCHANGED <<db, size>> /\ act[p].pc \notin {"count", "uncount", "clear"}
    BY DEF QuietTurn
  <1>3. TypeOK /\ db \in [Key -> Meta \cup {NoMeta}] /\ size \in Int
    BY DEF IInv, TypeOK, CacheStoreTypeOK
  <1>4. /\ StoreTyped'
        /\ Waiting("insert")' = Waiting("insert") - Held(p, "insert") + 0
        /\ Waiting("count")' = Waiting("count") - Held(p, "count") + 0
        /\ Waiting("uncount")' = Waiting("uncount") - Held(p, "uncount") + 0
        /\ act[p].n \in Nat
    BY <1>1, <1>2, <1>3, TurnSums
  <1>5. Held(p, "count") = 0 /\ Held(p, "uncount") = 0 /\ Held(p, "insert") \in Nat
    BY <1>2, <1>4 DEF Held, At
  <1>6. BytesOf(Cached)' = BytesOf(Cached)
    BY <1>2 DEF BytesOf, Cached
  <1>7. ClearInv' /\ BytesOf(Recorded)' = BytesOf(Recorded)
    BY <1>1, <1>2, <1>6, TurnLocks
  <1> QED BY <1>2, <1>3, <1>4, <1>5, <1>6, <1>7, SumsAreNumbers
          DEF StoreKept, Excess, Balance, Promised

(* The size check lets a page in only if the counter leaves it room.       *)
LEMMA CheckSizeStep ==
    ASSUME IInv, NEW v \in Visitor, NEW n \in PageSize, CheckSize(v, n), TodoKept
    PROVE  /\ StoreKept /\ Excess' = Excess
           /\ \/ Promised' <= Promised
              \/ size + n <= MaxSize /\ Promised' = Promised + n
  <1>1. v \in Actor /\ act[v] \in ActorState /\ Fits(v, act[v]) /\ At(v, "miss")
    BY DEF IInv, TypeOK, CacheStoreTypeOK, Actor, CheckSize
  <1>2. TypeOK /\ n \in Nat /\ MaxSize \in Nat /\ db \in [Key -> Meta \cup {NoMeta}] /\ size \in Int
    BY CacheStoreAssumption DEF IInv, TypeOK, CacheStoreTypeOK
  <1>3. UNCHANGED <<db, size>>
    BY DEF CheckSize, storeVars
  <1>4. CASE size + n > MaxSize
    <2>1. QuietTurn(v)
      BY <1>1, <1>3, <1>4, QuietSleep DEF CheckSize, At
    <2> QED BY <1>1, <1>2, <2>1, QuietStep, SumsAreNumbers
  <1>5. CASE ~(size + n > MaxSize)
    <2> DEFINE c == [act[v] EXCEPT !.pc = "insert", !.n = n]
    <2>1. c \in ActorState /\ Fits(v, c) /\ c.pc = "insert" /\ c.n = n
      BY <1>1 DEF ActorState, Label, Fits, At
    <2>2. Turns(v, c)
      BY <1>1, <1>2, <1>5, EveryTurn DEF CheckSize
    <2>3. /\ Held(v, "insert") = 0
          /\ Held(v, "count") = 0
          /\ Held(v, "uncount") = 0
      BY <1>1 DEF Held, At
    <2> HIDE DEF c
    <2>4. /\ StoreTyped'
          /\ Waiting("insert")' = Waiting("insert") - 0 + n
          /\ Waiting("count")' = Waiting("count") - 0 + 0
          /\ Waiting("uncount")' = Waiting("uncount") - 0 + 0
      BY <1>1, <1>2, <1>3, <2>1, <2>2, <2>3, TurnSums
    <2>5. BytesOf(Cached)' = BytesOf(Cached)
      BY <1>3 DEF BytesOf, Cached
    <2>6. ClearInv' /\ BytesOf(Recorded)' = BytesOf(Recorded)
      BY <1>1, <1>3, <2>1, <2>2, <2>5, TurnLocks DEF At
    <2> QED BY <1>2, <1>3, <1>5, <2>4, <2>5, <2>6, SumsAreNumbers
            DEF StoreKept, Excess, Balance, Promised
  <1> QED BY <1>4, <1>5

(* A page that is recorded waits to be counted from then on, and takes the *)
(* room that was promised it.                                              *)
LEMMA InsertStep ==
    ASSUME IInv, NEW v \in Visitor, InsertMetadata(v), TodoKept
    PROVE  StoreKept /\ Excess' = Excess /\ Promised' <= Promised
  <1>1. v \in Actor /\ act[v] \in ActorState /\ Fits(v, act[v]) /\ At(v, "insert")
    BY DEF IInv, TypeOK, CacheStoreTypeOK, Actor, InsertMetadata
  <1>2. TypeOK /\ db \in [Key -> Meta \cup {NoMeta}] /\ size \in Int
    BY DEF IInv, TypeOK, CacheStoreTypeOK
  <1>3. CASE act[v].key \in Cached
    <2>1. QuietTurn(v)
      BY <1>1, <1>3, QuietMove DEF InsertMetadata, At, Label, ForVisitors
    <2> QED BY <1>1, <2>1, QuietStep
  <1>4. CASE act[v].key \notin Cached
    <2>1. PICK k \in Key, n \in PageSize : k = act[v].key /\ n = act[v].n
      BY <1>1 DEF Fits, At
    <2>2. /\ db' = [db EXCEPT ![k] = [size |-> n, expired |-> FALSE]]
          /\ Commit(v, Moved(v, "count"))
          /\ size' = size
      BY <1>4, <2>1 DEF InsertMetadata
    <2>3. Moved(v, "count") = [act[v] EXCEPT !.pc = "count"]
      BY DEF Moved
    <2>4. PICK c \in ActorState :
            c = Moved(v, "count") /\ Fits(v, c) /\ c.pc = "count" /\ c.n = n
      BY <1>1, <2>1, <2>3, MovedFits DEF Label, ForVisitors, At, ActorState
    <2>6. /\ db' \in [Key -> Meta \cup {NoMeta}]
          /\ \A j \in Key \ {k} : db'[j] = db[j]
      BY <1>2, <2>1, <2>2 DEF Meta
    <2>5. Turns(v, c)
      BY <1>1, <1>2, <2>2, <2>4, <2>6, EveryTurn
    <2>7. Weight(k) = 0 /\ Weight(k)' = n
      <3>1. db'[k] = [size |-> n, expired |-> FALSE] /\ db'[k] # NoMeta
        BY <1>2, <2>1, <2>2, PageIsSome
      <3> QED BY <1>4, <2>1, <3>1 DEF Weight, Cached
    <2>8. BytesOf(Cached)' = BytesOf(Cached) - 0 + n
      BY <1>2, <2>1, <2>6, <2>7, BytesChange
    <2>11. ClearInv' /\ BytesOf(Recorded)' = BytesOf(Recorded) - 0 + n
      <3>1. ~Locked /\ act[v].pc # "clear" /\ c.pc # "clear"
        BY <1>1, <2>4 DEF InsertMetadata, At
      <3> QED BY <1>1, <1>2, <2>1, <2>5, <2>8, <3>1, SizeRange, TurnLocks, SumsAreNumbers
    <2>9. Held(v, "insert") = n /\ Held(v, "count") = 0 /\ Held(v, "uncount") = 0
      BY <1>1, <2>1 DEF Held, At
    <2>10. /\ StoreTyped'
           /\ Waiting("insert")' = Waiting("insert") - n + 0
           /\ Waiting("count")' = Waiting("count") - 0 + n
           /\ Waiting("uncount")' = Waiting("uncount") - 0 + 0
           /\ n \in Nat
      BY <1>1, <1>2, <2>2, <2>4, <2>5, <2>6, <2>9, TurnSums
    <2> QED BY <1>2, <2>2, <2>8, <2>10, <2>11, SumsAreNumbers
            DEF StoreKept, Excess, Balance, Promised
  <1> QED BY <1>3, <1>4

(* What waited to be counted is counted.                                   *)
LEMMA CountStep ==
    ASSUME IInv, NEW v \in Visitor, CountMetadata(v), TodoKept
    PROVE  StoreKept /\ Excess' = Excess /\ Promised' <= Promised
  <1>1. v \in Actor /\ act[v] \in ActorState /\ Fits(v, act[v]) /\ At(v, "count")
    BY DEF IInv, TypeOK, CacheStoreTypeOK, Actor, CountMetadata
  <1>2. TypeOK /\ db \in [Key -> Meta \cup {NoMeta}] /\ size \in Int
    BY DEF IInv, TypeOK, CacheStoreTypeOK
  <1>3. PICK n \in PageSize \cup {0} : n = act[v].n
    BY <1>1 DEF ActorState
  <1>4. db' = db /\ size' = size + n /\ Goto(v, "mkdir")
    BY <1>3 DEF CountMetadata
  <1>5. PICK c \in ActorState : c = Moved(v, "mkdir") /\ Fits(v, c) /\ c.pc = "mkdir"
    BY <1>1, MovedFits DEF Label, ForVisitors, At
  <1>6. Turns(v, c)
    BY <1>1, <1>2, <1>4, <1>5, EveryTurn
  <1>7. Held(v, "insert") = 0 /\ Held(v, "count") = n /\ Held(v, "uncount") = 0 /\ n \in Nat
    BY <1>1, <1>3, SizeRange DEF Held, At
  <1>8. db' \in [Key -> Meta \cup {NoMeta}] /\ size' \in Int
    BY <1>2, <1>4, <1>7
  <1>9. /\ StoreTyped'
        /\ Waiting("insert")' = Waiting("insert") - 0 + 0
        /\ Waiting("count")' = Waiting("count") - n + 0
        /\ Waiting("uncount")' = Waiting("uncount") - 0 + 0
    BY <1>1, <1>5, <1>6, <1>7, <1>8, TurnSums
  <1>10. BytesOf(Cached)' = BytesOf(Cached)
    BY <1>4 DEF BytesOf, Cached
  <1>11. ClearInv' /\ BytesOf(Recorded)' = BytesOf(Recorded)
    BY <1>1, <1>4, <1>5, <1>6, <1>10, TurnLocks DEF At
  <1> QED BY <1>2, <1>4, <1>7, <1>9, <1>10, <1>11, SumsAreNumbers
          DEF StoreKept, Excess, Balance, Promised

(* A page whose metadata is removed waits to be taken off the counter.     *)
LEMMA DropStep ==
    ASSUME IInv, NEW p \in Visitor \cup {Cleaner}, DropMetadata(p), TodoKept
    PROVE  StoreKept /\ Excess' = Excess /\ Promised' <= Promised
  <1>1. p \in Actor /\ act[p] \in ActorState /\ Fits(p, act[p]) /\ At(p, "drop")
    BY DEF IInv, TypeOK, CacheStoreTypeOK, Actor, DropMetadata
  <1>2. TypeOK /\ db \in [Key -> Meta \cup {NoMeta}] /\ size \in Int
    BY DEF IInv, TypeOK, CacheStoreTypeOK
  <1>3. CASE act[p].key \notin Cached
    <2>1. /\ act[p].back \in Label \ {"insert", "count", "uncount", "clear"}
          /\ p \in Visitor => act[p].back \in ForVisitors
      BY <1>1 DEF Fits, Label, ForVisitors
    <2>2. QuietTurn(p)
      BY <1>1, <1>3, <2>1, QuietMove DEF DropMetadata, At
    <2> QED BY <1>1, <2>2, QuietStep
  <1>4. CASE act[p].key \in Cached
    <2>1. PICK k \in Key : k = act[p].key /\ k \in Cached
      BY <1>4 DEF Cached
    <2>2. PICK n \in PageSize : n = db[k].size
      BY <1>2, <2>1 DEF Cached, Meta
    <2>3. /\ db' = [db EXCEPT ![k] = NoMeta]
          /\ Commit(p, [act[p] EXCEPT !.pc = "uncount", !.n = n, !.slice = {n}])
          /\ size' = size /\ ~Locked
      BY <2>1, <2>2 DEF DropMetadata
    <2>4. PICK c \in ActorState :
            /\ c = [act[p] EXCEPT !.pc = "uncount", !.n = n, !.slice = {n}]
            /\ Fits(p, c) /\ c.pc = "uncount" /\ c.n = n
      <3> DEFINE d == [act[p] EXCEPT !.pc = "uncount", !.n = n, !.slice = {n}]
      <3>1. d \in ActorState /\ d.pc = "uncount" /\ d.n = n
        BY <1>1 DEF ActorState, Label
      <3>2. /\ d.slice = {n} /\ d.torn = act[p].torn /\ d.key = act[p].key
            /\ d.then = act[p].then /\ d.back = act[p].back
        BY <1>1 DEF ActorState
      <3>3. Fits(p, d)
        BY <1>1, <3>1, <3>2 DEF Fits, At
      <3> QED BY <3>1, <3>3, Zenon
    <2>6. /\ db' \in [Key -> Meta \cup {NoMeta}]
          /\ \A j \in Key \ {k} : db'[j] = db[j]
          /\ db'[k] = NoMeta
      BY <1>2, <2>1, <2>3
    <2>5. Turns(p, c)
      BY <1>1, <1>2, <2>3, <2>4, <2>6, EveryTurn
    <2>7. Weight(k) = n /\ Weight(k)' = 0
      BY <2>1, <2>2, <2>6 DEF Weight, Cached
    <2>8. BytesOf(Cached)' = BytesOf(Cached) - n + 0
      BY <1>2, <2>6, <2>7, BytesChange
    <2>9. Held(p, "insert") = 0 /\ Held(p, "count") = 0 /\ Held(p, "uncount") = 0 /\ n \in Nat
      BY <1>1, <2>2, SizeRange DEF Held, At
    <2>10. /\ StoreTyped'
           /\ Waiting("insert")' = Waiting("insert") - 0 + 0
           /\ Waiting("count")' = Waiting("count") - 0 + 0
           /\ Waiting("uncount")' = Waiting("uncount") - 0 + n
      BY <1>1, <1>2, <2>3, <2>4, <2>5, <2>6, <2>9, TurnSums
    <2>11. ClearInv' /\ BytesOf(Recorded)' = BytesOf(Recorded) - n + 0
      <3>1. act[p].pc # "clear" /\ c.pc # "clear"
        BY <1>1, <2>4 DEF At
      <3> QED BY <1>1, <1>2, <2>3, <2>5, <2>8, <2>9, <3>1, TurnLocks, SumsAreNumbers
    <2> QED BY <1>2, <2>3, <2>8, <2>9, <2>10, <2>11, SumsAreNumbers
            DEF StoreKept, Excess, Balance, Promised
  <1> QED BY <1>3, <1>4

(* What waited to be taken off is.  If its metadata does not parse any     *)
(* more, it never is, and the counter stays too high; if it parses as that *)
(* of a larger page, more is taken off.                                    *)
LEMMA UncountStep ==
    ASSUME IInv, NEW p \in Visitor \cup {Cleaner}, UncountMetadata(p) \/ UncountGarbage(p),
           TodoKept
    PROVE  /\ StoreKept /\ Promised' <= Promised
           /\ Excess' >= Excess \/ (act[p].torn /\ size' < size - act[p].n)
           /\ ~PageReuse => Excess' = Excess
  <1>1. p \in Actor /\ act[p] \in ActorState /\ Fits(p, act[p]) /\ At(p, "uncount")
    BY DEF IInv, TypeOK, CacheStoreTypeOK, Actor, UncountMetadata, UncountGarbage
  <1>2. TypeOK /\ db \in [Key -> Meta \cup {NoMeta}] /\ size \in Int
    BY DEF IInv, TypeOK, CacheStoreTypeOK
  <1>3. PICK n \in PageSize \cup {0} : n = act[p].n
    BY <1>1 DEF ActorState
  <1>4. Held(p, "insert") = 0 /\ Held(p, "count") = 0 /\ Held(p, "uncount") = n /\ n \in Nat
    BY <1>1, <1>3, SizeRange DEF Held, At
  <1>5. db' = db
    BY DEF UncountMetadata, UncountGarbage, storeVars
  <1>6. BytesOf(Cached)' = BytesOf(Cached)
    BY <1>5 DEF BytesOf, Cached
  <1>7. CASE UncountMetadata(p)
    <2> DEFINE label == act[p].then
    <2>1. /\ label \in Label \ {"insert", "count", "uncount", "clear"}
          /\ p \in Visitor => label \in ForVisitors
      BY <1>1 DEF Fits, Label, ForVisitors
    <2>2. PICK m \in ActorState : m = Moved(p, label) /\ Fits(p, m) /\ m.pc = label
      BY <1>1, <2>1, MovedFits DEF At
    <2>3. PICK c \in ActorState :
            /\ c = [m EXCEPT !.n = 0, !.slice = {}, !.torn = FALSE]
            /\ Fits(p, c) /\ c.pc \notin {"insert", "count", "uncount", "clear"}
      <3> DEFINE d == [m EXCEPT !.n = 0, !.slice = {}, !.torn = FALSE]
      <3>1. d \in ActorState /\ Fits(p, d) /\ d.pc \notin {"insert", "count", "uncount", "clear"}
        BY <2>1, <2>2 DEF ActorState, Fits
      <3> QED BY <3>1, Zenon
    <2>4. PICK i \in act[p].slice : size' = size - i
      BY <1>7 DEF UncountMetadata
    <2>7. i \in Nat /\ (act[p].torn \/ i = n) /\ (act[p].torn => PageReuse)
      BY <1>1, <1>3, SizeRange DEF ActorState, Fits, At
    <2>5. Turns(p, c) /\ size' \in Int /\ db' \in [Key -> Meta \cup {NoMeta}]
      <3>1. c = [Moved(p, act[p].then) EXCEPT !.n = 0, !.slice = {}, !.torn = FALSE]
        BY <2>2, <2>3
      <3>2. Become(p, c)
        BY <1>7, <3>1 DEF UncountMetadata
      <3>3. Turns(p, c)
        BY <1>1, <1>2, <3>2, EveryTurn
      <3>4. size' \in Int
        BY <1>2, <2>4, <2>7
      <3> QED BY <1>2, <1>5, <3>3, <3>4
    <2>6. /\ StoreTyped'
          /\ Waiting("insert")' = Waiting("insert") - 0 + 0
          /\ Waiting("count")' = Waiting("count") - 0 + 0
          /\ Waiting("uncount")' = Waiting("uncount") - n + 0
      BY <1>1, <1>4, <2>3, <2>5, TurnSums
    <2>8. ClearInv' /\ BytesOf(Recorded)' = BytesOf(Recorded)
      BY <1>1, <1>5, <1>6, <2>3, <2>5, TurnLocks DEF At
    <2>9. Excess' = Excess + n - i /\ StoreKept /\ Promised' <= Promised
      BY <1>2, <1>4, <1>6, <2>4, <2>6, <2>7, <2>8, SumsAreNumbers
         DEF StoreKept, Excess, Balance, Promised
    <2>10. size' < size - n \/ i <= n
      BY <1>2, <1>4, <2>4, <2>7
    <2> QED BY <1>2, <1>3, <1>4, <2>7, <2>9, <2>10, SumsAreNumbers
  <1>8. CASE UncountGarbage(p)
    <2> DEFINE label == act[p].back
    <2>1. /\ label \in Label \ {"insert", "count", "uncount", "clear"}
          /\ p \in Visitor => label \in ForVisitors
      BY <1>1 DEF Fits, Label, ForVisitors
    <2>2. PICK c \in ActorState : c = Moved(p, label) /\ Fits(p, c) /\ c.pc = label
      BY <1>1, <2>1, MovedFits DEF At
    <2>3. Goto(p, label) /\ size' = size /\ PageReuse
      BY <1>1, <1>8 DEF UncountGarbage, storeVars, Fits
    <2>4. Turns(p, c) /\ size' \in Int /\ db' \in [Key -> Meta \cup {NoMeta}]
      BY <1>1, <1>2, <1>5, <2>2, <2>3, EveryTurn
    <2>5. /\ StoreTyped'
          /\ Waiting("insert")' = Waiting("insert") - 0 + 0
          /\ Waiting("count")' = Waiting("count") - 0 + 0
          /\ Waiting("uncount")' = Waiting("uncount") - n + 0
      BY <1>1, <1>4, <2>1, <2>2, <2>4, TurnSums
    <2>6. ClearInv' /\ BytesOf(Recorded)' = BytesOf(Recorded)
      BY <1>1, <1>5, <1>6, <2>1, <2>2, <2>4, TurnLocks DEF At
    <2> QED BY <1>2, <1>4, <1>6, <2>3, <2>5, <2>6, SumsAreNumbers
            DEF StoreKept, Excess, Balance, Promised
  <1> QED BY <1>7, <1>8

(* ClearCache begins with bolt's lock and all pages before it, goes        *)
(* through them lowering the counter by each, and removes them all; or it  *)
(* fails, and leaves those it has gone through recorded and uncounted.     *)
LEMMA ClearStep ==
    ASSUME IInv, NEW c \in Clearer,
           \/ BeginClear(c) \/ CommitClear(c)
           \/ \E k \in todo[c] : ClearBucket(c, k) \/ ClearFails(c, k)
    PROVE  /\ StoreKept /\ Excess' <= Excess /\ Promised' <= Promised
           /\ Excess' = Excess \/ (At(c, "clear") /\ At(c, "done")')
  <1>1. c \in Actor /\ c \notin Visitor /\ act[c] \in ActorState /\ Fits(c, act[c])
    BY CacheStoreAssumption DEF IInv, TypeOK, CacheStoreTypeOK, Actor
  <1>2. /\ TypeOK /\ db \in [Key -> Meta \cup {NoMeta}] /\ size \in Int
        /\ todo \in [Collector -> SUBSET (Key \cup {NoKey})] /\ c \in Collector
    BY DEF IInv, TypeOK, CacheStoreTypeOK, CacheCleanerTypeOK, Collector
  <1>3. \A label \in {"list", "done", "clear"} :
          \E d \in ActorState : d = Moved(c, label) /\ Fits(c, d) /\ d.pc = label
    BY <1>1, MovedFits DEF Label
  <1>4. ASSUME NEW label \in {"list", "done", "clear"},
               Goto(c, label) \/ Commit(c, Moved(c, label)),
               db' \in [Key -> Meta \cup {NoMeta}], size' \in Int,
               At(c, "idle") \/ At(c, "clear")
        PROVE  /\ StoreTyped' /\ act'[c].pc = label
               /\ \A q \in Actor \ {c} : (act'[q].pc = "clear") <=> (act[q].pc = "clear")
               /\ UNCHANGED <<Waiting("insert"), Waiting("count"), Waiting("uncount")>>
    <2>1. PICK d \in ActorState : d = Moved(c, label) /\ Fits(c, d) /\ d.pc = label
      BY <1>3
    <2>2. Turns(c, d)
      BY <1>1, <1>2, <1>4, <2>1, EveryTurn
    <2>3. Held(c, "insert") = 0 /\ Held(c, "count") = 0 /\ Held(c, "uncount") = 0
      BY <1>4 DEF Held, At
    <2>4. /\ StoreTyped'
          /\ Waiting("insert")' = Waiting("insert") - 0 + 0
          /\ Waiting("count")' = Waiting("count") - 0 + 0
          /\ Waiting("uncount")' = Waiting("uncount") - 0 + 0
      BY <1>1, <1>4, <2>1, <2>2, <2>3, TurnSums
    <2>5. ASSUME NEW q \in Actor \ {c}
          PROVE  (act'[q].pc = "clear") <=> (act[q].pc = "clear")
      <3>1. act[q] \in ActorState
        BY <1>2 DEF TypeOK, CacheStoreTypeOK
      <3> QED BY <2>2, <3>1 DEF Turns, At, ActorState
    <2>6. UNCHANGED <<Waiting("insert"), Waiting("count"), Waiting("uncount")>>
      BY <1>2, <2>4, SumsAreNumbers
    <2>7. act'[c].pc = label
      BY <2>1, <2>2 DEF Turns
    <2> QED BY <2>4, <2>5, <2>6, <2>7
  <1>5. CASE BeginClear(c)
    <2>1. /\ UNCHANGED <<db, size>> /\ Goto(c, "clear") /\ At(c, "idle") /\ ~Locked
          /\ todo'[c] = Cached
      BY <1>2, <1>5 DEF BeginClear, storeVars
    <2>2. /\ StoreTyped' /\ act'[c].pc = "clear"
          /\ \A q \in Actor \ {c} : (act'[q].pc = "clear") <=> (act[q].pc = "clear")
          /\ UNCHANGED <<Waiting("insert"), Waiting("count"), Waiting("uncount")>>
      BY <1>2, <1>4, <2>1
    <2>3. \A d \in Clearer : ~At(d, "clear") /\ (At(d, "clear")' => d = c)
      BY <2>1, <2>2 DEF Locked, At, Actor
    <2>4. Cached' = Cached
      BY <2>1 DEF Cached
    <2>5. Recorded' = Cached /\ Recorded = Cached
      BY <2>1, <2>3, <2>4 DEF Recorded
    <2>6. ClearInv'
      BY <2>1, <2>3, <2>4 DEF ClearInv
    <2>7. BytesOf(Recorded)' = BytesOf(Recorded) /\ BytesOf(Cached)' = BytesOf(Cached)
      BY <2>1, <2>4, <2>5 DEF BytesOf
    <2> QED BY <1>2, <2>1, <2>2, <2>6, <2>7, SumsAreNumbers
            DEF StoreKept, Excess, Balance, Promised
  <1>6. ASSUME At(c, "clear")
        PROVE  todo[c] \in SUBSET Cached /\ Recorded = todo[c] /\ \A d \in Clearer : At(d, "clear") => d = c
    BY <1>6 DEF IInv, ClearInv, Recorded
  <1>7. ASSUME NEW k \in todo[c], ClearBucket(c, k)
        PROVE  StoreKept /\ Excess' = Excess /\ Promised' <= Promised
    <2>1. /\ At(c, "clear") /\ UNCHANGED <<db, act>>
          /\ todo'[c] = todo[c] \ {k} /\ size' = size - db[k].size
      BY <1>2, <1>7 DEF ClearBucket
    <2>2. /\ todo[c] \in SUBSET Cached /\ Recorded = todo[c]
          /\ \A d \in Clearer : At(d, "clear") => d = c
      BY <1>6, <2>1
    <2>3. Cached' = Cached /\ Recorded' = todo[c] \ {k}
      BY <2>1, <2>2 DEF Cached, Recorded, At
    <2>4. ClearInv'
      BY <2>1, <2>2, <2>3 DEF ClearInv, At
    <2>5. /\ BytesOf(todo[c] \ {k}) = BytesOf(todo[c]) - db[k].size
          /\ BytesOf(todo[c]) \in Nat /\ db[k].size \in Nat
      BY <1>2, <2>2, BytesWithout
    <2>6. /\ BytesOf(Recorded)' = BytesOf(todo[c] \ {k})
          /\ BytesOf(Recorded) = BytesOf(todo[c])
          /\ BytesOf(Cached)' = BytesOf(Cached)
      BY <2>1, <2>2, <2>3 DEF BytesOf
    <2>7. UNCHANGED <<Waiting("insert"), Waiting("count"), Waiting("uncount")>>
      BY <2>1 DEF Waiting, Held, At
    <2>8. StoreTyped'
      BY <1>2, <2>1, <2>5 DEF StoreTyped, IInv, TypeOK, CacheStoreTypeOK, Fits
    <2> QED BY <1>2, <2>1, <2>4, <2>5, <2>6, <2>7, <2>8, SumsAreNumbers
            DEF StoreKept, Excess, Balance, Promised
  <1>8. ASSUME NEW k \in todo[c], ClearFails(c, k)
        PROVE  StoreKept /\ Excess' <= Excess /\ Promised' <= Promised /\ At(c, "clear") /\ At(c, "done")'
    <2>1. At(c, "clear") /\ UNCHANGED <<db, size>> /\ Goto(c, "done")
      BY <1>8 DEF ClearFails, storeVars
    <2>2. /\ StoreTyped' /\ act'[c].pc = "done"
          /\ \A q \in Actor \ {c} : (act'[q].pc = "clear") <=> (act[q].pc = "clear")
          /\ UNCHANGED <<Waiting("insert"), Waiting("count"), Waiting("uncount")>>
      BY <1>2, <1>4, <2>1
    <2>3. todo[c] \in SUBSET Cached /\ Recorded = todo[c] /\ \A d \in Clearer : At(d, "clear") => d = c
      BY <1>6, <2>1
    <2>4. \A d \in Clearer : ~At(d, "clear")'
      BY <2>2, <2>3 DEF At, Actor
    <2>5. ClearInv' /\ Cached' = Cached /\ Recorded' = Cached
      BY <2>1, <2>4 DEF ClearInv, Cached, Recorded
    <2>6. BytesOf(Recorded) <= BytesOf(Cached)
      BY <1>2, <2>3, BytesType
    <2>7. BytesOf(Recorded)' = BytesOf(Cached) /\ BytesOf(Cached)' = BytesOf(Cached)
      BY <2>1, <2>5 DEF BytesOf
    <2> QED BY <1>2, <2>1, <2>2, <2>5, <2>6, <2>7, SumsAreNumbers
            DEF StoreKept, Excess, Balance, Promised, At
  <1>9. CASE CommitClear(c)
    <2>1. /\ At(c, "clear") /\ todo[c] = {} /\ size' = size
          /\ db' = [k \in Key |-> NoMeta] /\ Commit(c, Moved(c, "list"))
      BY <1>9 DEF CommitClear
    <2>2. /\ StoreTyped' /\ act'[c].pc = "list"
          /\ \A q \in Actor \ {c} : (act'[q].pc = "clear") <=> (act[q].pc = "clear")
          /\ UNCHANGED <<Waiting("insert"), Waiting("count"), Waiting("uncount")>>
      <3>1. db' \in [Key -> Meta \cup {NoMeta}]
        BY <2>1
      <3> QED BY <1>2, <1>4, <2>1, <3>1
    <2>3. Recorded = {} /\ \A d \in Clearer : At(d, "clear") => d = c
      BY <1>6, <2>1
    <2>4. \A d \in Clearer : ~At(d, "clear")'
      BY <2>2, <2>3 DEF At, Actor
    <2>5. ClearInv' /\ Cached' = {} /\ Recorded' = {}
      BY <2>1, <2>4 DEF ClearInv, Cached, Recorded
    <2>6. /\ BytesOf(Recorded) = Total([k \in Key |-> 0])
          /\ BytesOf(Recorded)' = Total([k \in Key |-> 0])
          /\ BytesOf(Cached)' = Total([k \in Key |-> 0])
      BY <2>3, <2>5 DEF BytesOf
    <2>7. Total([k \in Key |-> 0]) = 0
      BY TotalZero
    <2> QED BY <1>2, <2>1, <2>2, <2>5, <2>6, <2>7, SumsAreNumbers
            DEF StoreKept, Excess, Balance, Promised
  <1> QED BY <1>2, <1>5, <1>7, <1>8, <1>9, SumsAreNumbers

(* A page that expires weighs what it weighed.                             *)
LEMMA ExpireStep ==
    ASSUME IInv, NEW k \in Key, Expire(k)
    PROVE  StoreKept /\ Excess' = Excess /\ Promised' <= Promised
  <1>1. TypeOK /\ db \in [Key -> Meta \cup {NoMeta}] /\ UNCHANGED <<size, act, todo>>
    BY DEF IInv, TypeOK, CacheStoreTypeOK, Expire, cleanerVars
  <1>2. db[k] \in Meta /\ db' = [db EXCEPT ![k].expired = TRUE]
    BY <1>1 DEF Expire, Cached
  <1>3. /\ db'[k] \in Meta /\ db'[k].size = db[k].size
        /\ db' \in [Key -> Meta \cup {NoMeta}]
        /\ \A j \in Key \ {k} : db'[j] = db[j]
    BY <1>1, <1>2 DEF Meta
  <1>4. \A m \in Meta : m # NoMeta
    BY CacheStoreAssumption DEF Meta
  <1>5. Weight(k)' = Weight(k)
    BY <1>2, <1>3, <1>4 DEF Weight, Cached
  <1>6. BytesOf(Cached)' = BytesOf(Cached)
    BY <1>1, <1>3, <1>5, BytesChange
  <1>7. UNCHANGED <<Waiting("insert"), Waiting("count"), Waiting("uncount")>>
    BY <1>1 DEF Waiting, Held, At
  <1>8. StoreTyped'
    BY <1>1, <1>3 DEF StoreTyped, IInv, TypeOK, CacheStoreTypeOK, Fits
  <1>9. Cached' = Cached
    BY <1>1, <1>2, <1>3, <1>4 DEF Expire, Cached
  <1>10. Recorded' = Recorded /\ ClearInv'
    BY <1>1, <1>9 DEF Recorded, At, ClearInv, IInv
  <1>11. BytesOf(Recorded)' = BytesOf(Recorded)
    <2>1. \A j \in Recorded : db'[j].size = db[j].size
      BY <1>3 DEF Recorded, Cached
    <2>2. [j \in Key |-> IF j \in Recorded THEN db'[j].size ELSE 0]
            = [j \in Key |-> IF j \in Recorded THEN db[j].size ELSE 0]
      BY <2>1
    <2> QED BY <1>10, <2>2 DEF BytesOf
  <1> QED BY <1>1, <1>6, <1>7, <1>8, <1>10, <1>11, SumsAreNumbers
          DEF StoreKept, Excess, Balance, Promised

(* A start counts pages the database has, and nothing is on its way.       *)
LEMMA RestartStep ==
    ASSUME IInv, Restart
    PROVE  StoreKept /\ Excess' <= 0 /\ Promised' <= Promised /\ restarts' # restarts
  <1>1. /\ TypeOK /\ db \in [Key -> Meta \cup {NoMeta}] /\ UNCHANGED db
        /\ act' = [p \in Actor |-> Asleep] /\ restarts' # restarts
    BY CacheAssumption DEF IInv, TypeOK, CacheStoreTypeOK, Restart
  <1>2. size' \in Nat /\ size' <= BytesOf(Cached)
    BY <1>1, BytesType DEF Restart
  <1>3. ASSUME NEW label \in {"insert", "count", "uncount"}
        PROVE  Waiting(label)' = 0
    <2>1. \A p \in Actor : Held(p, label)' = 0
      BY <1>1 DEF Held, At, Asleep
    <2>2. Waiting(label)' = Total([p \in Actor |-> Held(p, label)'])
      BY DEF Waiting
    <2>3. [p \in Actor |-> Held(p, label)'] = [p \in Actor |-> 0]
      BY <2>1
    <2> QED BY <2>2, <2>3, TotalZero
  <1>4. BytesOf(Cached)' = BytesOf(Cached)
    BY <1>1 DEF BytesOf, Cached
  <1>5. StoreTyped'
    BY <1>1, <1>2, AsleepFits DEF StoreTyped, Fits
  <1>6. \A d \in Clearer : ~At(d, "clear")'
    BY <1>1 DEF At, Asleep, Actor
  <1>7. ClearInv' /\ Recorded' = Cached'
    BY <1>6 DEF ClearInv, Recorded
  <1>8. BytesOf(Recorded)' = BytesOf(Cached)'
    BY <1>7 DEF BytesOf
  <1> QED BY <1>1, <1>2, <1>3, <1>4, <1>5, <1>7, <1>8, SumsAreNumbers
          DEF StoreKept, Excess, Balance, Promised

-----------------------------------------------------------------------------
(* The invariant                                                           *)

(* No step takes the counter above the database, unless a removal may lose *)
(* track of what it removed; none takes it below, unless a call of         *)
(* ClearCache fails halfway, the process starts again or a removal takes   *)
(* another page for the one it removed; and no more is promised but by a   *)
(* size check that found room.                                             *)
LEMMA StepSums ==
    ASSUME IInv, [Next]_vars
    PROVE  /\ StoreKept
           /\ Excess' <= Excess \/ Excess' <= 0 \/ PageReuse
           /\ \/ Excess' >= Excess
              \/ restarts' # restarts
              \/ \E c \in Clearer : At(c, "clear") /\ At(c, "done")'
              \/ \E p \in Actor : At(p, "uncount") /\ act[p].torn /\ size' < size - act[p].n
           /\ \/ Promised' <= Promised
              \/ \E v \in Visitor, n \in PageSize :
                   At(v, "miss") /\ size + n <= MaxSize /\ Promised' = Promised + n
  <1>0. TypeOK /\ Excess \in Int /\ Promised \in Nat
    BY SumsAreNumbers DEF IInv
  <1>1. ASSUME NEW v \in Visitor, VisitorStep(v) \/ \E k \in Key : Visit(v, k),
               UNCHANGED <<cleanerVars, restarts>>
        PROVE  /\ StoreKept
               /\ Excess' = Excess \/ PageReuse
               /\ Excess' >= Excess \/ (At(v, "uncount") /\ act[v].torn /\ size' < size - act[v].n)
               /\ \/ Promised' <= Promised
                  \/ \E n \in PageSize :
                       At(v, "miss") /\ size + n <= MaxSize /\ Promised' = Promised + n
    <2>0. v \in Actor /\ TodoKept
      BY <1>1 DEF Actor, TodoKept, cleanerVars
    <2>1. CASE LookupOrFile(v) \/ \E k \in Key : Visit(v, k)
      BY <1>0, <2>0, <2>1, QuietVisitor, QuietStep
    <2>2. ASSUME NEW n \in PageSize, CheckSize(v, n)
          PROVE  /\ StoreKept /\ Excess' = Excess
                 /\ \/ Promised' <= Promised
                    \/ At(v, "miss") /\ size + n <= MaxSize /\ Promised' = Promised + n
      BY <2>0, <2>2, CheckSizeStep DEF CheckSize
    <2>3. CASE InsertMetadata(v)
      BY <1>0, <2>0, <2>3, InsertStep
    <2>4. CASE CountMetadata(v)
      BY <1>0, <2>0, <2>4, CountStep
    <2>5. CASE DropMetadata(v)
      BY <1>0, <2>0, <2>5, DropStep
    <2>6. CASE UncountMetadata(v) \/ UncountGarbage(v)
      <3>1. At(v, "uncount") /\ PageReuse \in BOOLEAN
        BY <2>6, CacheStoreAssumption DEF UncountMetadata, UncountGarbage
      <3> QED BY <1>0, <2>0, <2>6, <3>1, UncountStep
    <2> QED BY <1>0, <1>1, <2>1, <2>2, <2>3, <2>4, <2>5, <2>6 DEF VisitorStep, LookupOrFile
  <1>2. CASE CleanerStep
    <2>0. Cleaner \in Actor /\ TodoKept
      <3>1. todo \in [Collector -> SUBSET (Key \cup {NoKey})] /\ Cleaner \notin Clearer
        BY <1>0, CacheStoreAssumption DEF TypeOK, CacheCleanerTypeOK
      <3> QED BY <1>2, <3>1
              DEF Actor, TodoKept, CleanerStep, Observe, CollectExpired, RemoveExpired,
                  ExpiredRemoved, CollectAll, Evict, EvictionDone, UnlinkFile, RemoveDirectory,
                  CallRemovePage, cleanerVars, Collector
    <2>1. CASE CleanerElsewhere
      BY <1>0, <2>0, <2>1, QuietCleaner, QuietStep
    <2>2. CASE DropMetadata(Cleaner)
      BY <1>0, <2>0, <2>2, DropStep
    <2>3. CASE UncountMetadata(Cleaner) \/ UncountGarbage(Cleaner)
      <3>1. At(Cleaner, "uncount") /\ PageReuse \in BOOLEAN
        BY <2>3, CacheStoreAssumption DEF UncountMetadata, UncountGarbage
      <3> QED BY <1>0, <2>0, <2>3, <3>1, UncountStep
    <2> QED BY <1>2, <2>1, <2>2, <2>3 DEF CleanerStep, CleanerElsewhere
  <1>3. ASSUME NEW c \in Clearer, BeginClear(c) \/ ClearerStep(c)
        PROVE  /\ StoreKept /\ Excess' <= Excess /\ Promised' <= Promised
               /\ Excess' = Excess \/ (At(c, "clear") /\ At(c, "done")')
    <2>1. CASE \/ BeginClear(c) \/ CommitClear(c)
               \/ \E k \in todo[c] : ClearBucket(c, k) \/ ClearFails(c, k)
      BY <2>1, ClearStep
    <2>2. CASE ListDirectory(c) \/ Walked(c) \/ \E k \in todo[c] : RemoveAll(c, k)
      <3>1. c \in Actor /\ TodoKept
        <4>1. todo \in [Collector -> SUBSET (Key \cup {NoKey})] /\ ~At(c, "clear")
          BY <1>0, <2>2 DEF TypeOK, CacheCleanerTypeOK, ListDirectory, Walked, RemoveAll, At
        <4> QED BY <2>2, <4>1
                DEF Actor, TodoKept, ListDirectory, Walked, RemoveAll, cleanerVars, Collector
      <3> QED BY <1>0, <2>2, <3>1, QuietClearer, QuietStep
    <2> QED BY <1>3, <2>1, <2>2 DEF ClearerStep
  <1>4. ASSUME NEW k \in Key, Expire(k)
        PROVE  StoreKept /\ Excess' = Excess /\ Promised' <= Promised
    BY <1>4, ExpireStep
  <1>5. CASE Restart
    BY <1>5, RestartStep
  <1>6. CASE UNCHANGED vars
    <2>1. UNCHANGED <<db, size, act, todo>>
      BY <1>6 DEF vars, storeVars, cleanerVars
    <2>2. /\ UNCHANGED <<BytesOf(Cached), BytesOf(Recorded)>>
          /\ UNCHANGED <<Waiting("insert"), Waiting("count"), Waiting("uncount")>>
      BY <2>1 DEF BytesOf, Cached, Recorded, Waiting, Held, At
    <2>3. StoreTyped'
      BY <2>1 DEF StoreTyped, IInv, TypeOK, CacheStoreTypeOK, Fits
    <2>4. ClearInv'
      BY <2>1 DEF IInv, ClearInv, At, Cached
    <2> QED BY <1>0, <2>1, <2>2, <2>3, <2>4 DEF StoreKept, Excess, Balance, Promised
  <1>7. ASSUME NEW c \in Clearer PROVE c \in Actor
    BY DEF Actor
  <1>8. ASSUME NEW v \in Visitor \cup {Cleaner} PROVE v \in Actor
    BY DEF Actor
  <1> QED BY <1>0, <1>1, <1>2, <1>3, <1>4, <1>5, <1>6, <1>7, <1>8 DEF Next

(* The files, the keys to go through and the count of restarts keep their  *)
(* types.                                                                  *)
LEMMA RestTyped ==
    ASSUME IInv, [Next]_vars
    PROVE  /\ disk' \in [Key -> Location]
           /\ CacheCleanerTypeOK'
           /\ restarts' \in 0 .. Restarts
  <1>0. /\ act \in [Actor -> ActorState] /\ disk \in [Key -> Location]
        /\ CacheCleanerTypeOK /\ restarts \in 0 .. Restarts
    BY DEF IInv, TypeOK, CacheStoreTypeOK
  <1>1. Nowhere \in Location /\ EmptyDir \in Location
    BY DEF Nowhere, EmptyDir, Location
  <1> USE DEF storeVars, cleanerVars
  <1>2. ASSUME NEW v \in Visitor, VisitorStep(v) \/ (\E k \in Key : Visit(v, k)),
               UNCHANGED <<cleanerVars, restarts>>
        PROVE  disk' \in [Key -> Location]
    <2>1. act[v].n \in Nat
      <3>1. act[v].n \in PageSize \cup {0}
        BY <1>0 DEF Actor, ActorState
      <3> QED BY <3>1, SizeRange
    <2>2. CASE MakeDirectory(v)
      BY <1>0, <2>2 DEF MakeDirectory, Location
    <2>3. CASE CreateFile(v)
      <3>1. PICK place \in Location : place = [at |-> "file", len |-> 0, whole |-> FALSE]
        BY DEF Location
      <3>2. disk' = disk \/ disk' = [disk EXCEPT ![act[v].key] = place]
        BY <2>3, <3>1 DEF CreateFile
      <3> QED BY <1>0, <3>2
    <2>4. CASE WriteFile(v)
      BY <1>0, <2>1, <2>4 DEF WriteFile, Location
    <2>5. CASE ~(MakeDirectory(v) \/ CreateFile(v) \/ WriteFile(v))
      <3>1. disk' = disk
        BY <1>2, <2>5 DEF VisitorStep, Visit, ViewMetadata, CountUse, NotFresh, ReadPage,
             NothingToStore, CheckSize, InsertMetadata, CountMetadata, WriteFails, WriteLost,
             Recovered, DropMetadata, UncountMetadata, UncountGarbage
      <3> QED BY <1>0, <3>1
    <2> QED BY <2>2, <2>3, <2>4, <2>5
  <1>3. ASSUME CleanerStep, UNCHANGED restarts
        PROVE  disk' \in [Key -> Location] /\ CacheCleanerTypeOK'
    <2>1. CASE UnlinkFile \/ RemoveDirectory
      BY <1>0, <1>1, <2>1 DEF UnlinkFile, RemoveDirectory, CacheCleanerTypeOK
    <2>2. CASE CollectExpired
      BY <1>0, <2>2 DEF CollectExpired, CacheCleanerTypeOK, nameCopy, Cached
    <2>3. CASE CollectAll
      BY <1>0, <2>3 DEF CollectAll, CacheCleanerTypeOK, Cached
    <2>4. ASSUME NEW k \in todo[Cleaner], RemoveExpired(k) \/ Evict(k)
          PROVE  disk' \in [Key -> Location] /\ CacheCleanerTypeOK'
      BY <1>0, <2>4 DEF RemoveExpired, Evict, CallRemovePage, CacheCleanerTypeOK, Collector
    <2>5. CASE EvictionDone
      BY <1>0, <2>5 DEF EvictionDone, CacheCleanerTypeOK
    <2>6. CASE Observe \/ ExpiredRemoved
      BY <1>0, <2>6 DEF Observe, ExpiredRemoved, CacheCleanerTypeOK
    <2>7. CASE /\ DropMetadata(Cleaner) \/ UncountMetadata(Cleaner) \/ UncountGarbage(Cleaner)
               /\ UNCHANGED cleanerVars
      BY <1>0, <2>7 DEF DropMetadata, UncountMetadata, UncountGarbage, CacheCleanerTypeOK
    <2> QED BY <1>3, <2>1, <2>2, <2>3, <2>4, <2>5, <2>6, <2>7 DEF CleanerStep
  <1>4. ASSUME NEW c \in Clearer, BeginClear(c) \/ ClearerStep(c), UNCHANGED restarts
        PROVE  disk' \in [Key -> Location] /\ CacheCleanerTypeOK'
    <2>1. CASE CommitClear(c) \/ Walked(c)
      BY <1>0, <2>1 DEF CommitClear, Walked, CacheCleanerTypeOK
    <2>2. CASE ListDirectory(c) \/ BeginClear(c)
      BY <1>0, <2>2 DEF ListDirectory, BeginClear, CacheCleanerTypeOK, Cached
    <2>4. ASSUME NEW k \in todo[c], ClearBucket(c, k) \/ ClearFails(c, k)
          PROVE  disk' \in [Key -> Location] /\ CacheCleanerTypeOK'
      BY <1>0, <2>4 DEF ClearBucket, ClearFails, CacheCleanerTypeOK, Collector
    <2>3. ASSUME NEW k \in todo[c], RemoveAll(c, k)
          PROVE  disk' \in [Key -> Location] /\ CacheCleanerTypeOK'
      BY <1>0, <1>1, <2>3 DEF RemoveAll, CacheCleanerTypeOK, Collector
    <2> QED BY <1>4, <2>1, <2>2, <2>3, <2>4 DEF ClearerStep
  <1>5. ASSUME NEW k \in Key, Expire(k)
        PROVE  UNCHANGED <<disk, cleanerVars, restarts>>
    BY <1>5 DEF Expire
  <1>6. CASE Restart
    <2>1. disk' = disk /\ restarts' \in 0 .. Restarts
      BY <1>0, <1>6, CacheAssumption DEF Restart
    <2>2. CacheCleanerTypeOK'
      BY <1>6 DEF Restart, CacheCleanerTypeOK
    <2> QED BY <1>0, <2>1, <2>2
  <1>7. CASE UNCHANGED <<disk, cleanerVars, restarts>>
    BY <1>0, <1>7 DEF CacheCleanerTypeOK
  <1> QED BY <1>0, <1>2, <1>3, <1>4, <1>5, <1>6, <1>7 DEF Next, vars, CacheCleanerTypeOK

(* Every step keeps the invariant.                                         *)
LEMMA NextIInv == IInv /\ [Next]_vars => IInv'
  BY StepSums, RestTyped DEF StoreKept, StoreTyped, IInv, TypeOK, CacheStoreTypeOK

(* At first there is nothing, recorded, counted or on its way.             *)
LEMMA InitSums == Init => IInv /\ Excess = 0 /\ Promised = 0
  <1> SUFFICES ASSUME Init PROVE IInv /\ Excess = 0 /\ Promised = 0
    OBVIOUS
  <1>1. /\ db = [k \in Key |-> NoMeta] /\ size = 0
        /\ act = [p \in Actor |-> Asleep]
        /\ disk = [k \in Key |-> Nowhere]
        /\ CacheCleanerInit /\ restarts = 0
    BY DEF Init, CacheStoreInit
  <1>2. IInv
    <2>1. Nowhere \in Location
      BY DEF Nowhere, Location
    <2>2. CacheStoreTypeOK /\ \A p \in Actor : Fits(p, act[p])
      BY <1>1, <2>1, AsleepFits DEF CacheStoreTypeOK
    <2>3. CacheCleanerTypeOK /\ restarts \in 0 .. Restarts
      BY <1>1, CacheAssumption DEF CacheCleanerInit, CacheCleanerTypeOK
    <2>4. ClearInv
      BY <1>1 DEF ClearInv, At, Asleep, Actor
    <2> QED BY <2>2, <2>3, <2>4 DEF IInv, TypeOK
  <1>3. ASSUME NEW label \in {"insert", "count", "uncount"}
        PROVE  Waiting(label) = 0
    <2>1. [p \in Actor |-> Held(p, label)] = [p \in Actor |-> 0]
      BY <1>1 DEF Held, At, Asleep
    <2> QED BY <2>1, TotalZero DEF Waiting
  <1>4. BytesOf(Cached) = 0 /\ BytesOf(Recorded) = 0
    <2>1. Cached = {} /\ Recorded = {}
      BY <1>1 DEF Cached, Recorded
    <2>2. /\ BytesOf(Cached) = Total([k \in Key |-> 0])
          /\ BytesOf(Recorded) = Total([k \in Key |-> 0])
      BY <2>1 DEF BytesOf
    <2> QED BY <2>2, TotalZero
  <1> QED BY <1>1, <1>2, <1>3, <1>4 DEF Excess, Balance, Promised

-----------------------------------------------------------------------------
(* The theorems                                                            *)

\* What is said of the sums of a state
Sums ==
    /\ BytesOf(Cached) \in Nat /\ BytesOf(Recorded) \in Nat /\ Waiting("insert") \in Nat
    /\ Balance \in Int /\ Excess \in Int /\ Promised \in Nat

(* A step leads from numbers to numbers.                                   *)
LEMMA SumsOfStep == IInv /\ [Next]_vars => Sums /\ Sums'
  <1>1. IInv => Sums
    BY SumsAreNumbers DEF IInv, Sums
  <1> QED BY <1>1, NextIInv, PTL

(* The inductive invariant holds in every run of the cache.                *)
THEOREM Invariance == Spec => []IInv
  BY InitSums, NextIInv, PTL DEF Spec

(* Types are kept; in particular no page without a size is ever recorded.  *)
THEOREM TypeCorrect == Spec => []TypeOK
  <1>1. IInv => TypeOK
    BY DEF IInv
  <1> QED BY Invariance, <1>1, PTL

(* Unless metadata may be lost between a removal and its parsing, the      *)
(* counter, with the additions under way, never exceeds what the database  *)
(* records, whatever is cleared, half-cleared or started again             *)
(* (IncrementSize, ClearCache, CalculateSize).                             *)
THEOREM CounterNeverOver ==
    ASSUME PageReuse = FALSE
    PROVE  Spec => []NeverOvercounts
  <1>1. Init => NeverOvercounts
    BY InitSums, SumsAreNumbers DEF IInv, Excess, NeverOvercounts
  <1>2. IInv /\ NeverOvercounts /\ [Next]_vars => NeverOvercounts'
    <2> SUFFICES ASSUME IInv, NeverOvercounts, [Next]_vars PROVE NeverOvercounts'
      OBVIOUS
    <2>1. Sums /\ Sums'
      BY SumsOfStep
    <2>2. Excess <= 0
      BY <2>1 DEF Sums, Excess, NeverOvercounts
    <2>3. Excess' <= 0
      BY <2>1, <2>2, StepSums DEF Sums
    <2> QED BY <2>1, <2>3 DEF Sums, Excess, NeverOvercounts
  <1> QED BY <1>1, <1>2, Invariance, PTL DEF Spec

(* Only a ClearCache that fails halfway, a start, and a removal that reads *)
(* another page's metadata leave recorded pages uncounted (ClearCache,     *)
(* insertPageMetadataToDB, removePageMetadata).                            *)
THEOREM StayCounted == Spec => PagesStayCounted
  <1>1. IInv /\ [Next]_vars =>
          [Excess' < Excess =>
             \/ restarts' # restarts
             \/ \E c \in Clearer : At(c, "clear") /\ At(c, "done")'
             \/ \E p \in Actor : At(p, "uncount") /\ act[p].torn /\ size' < size - act[p].n]_vars
    BY StepSums, SumsOfStep DEF Sums
  <1> QED BY <1>1, Invariance, PTL DEF Spec, PagesStayCounted

(* As long as ClearCache is not called, the process does not start again   *)
(* and every removal parses the metadata it took out, no page recorded goes*)
(* uncounted (insertPageMetadataToDB, removePageMetadata).                 *)
THEOREM CounterNeverUnder ==
    ASSUME Clearer = {}, Restarts = 0, PageReuse = FALSE
    PROVE  Spec => []NeverUndercounts
  <1>1. Init => NeverUndercounts
    BY InitSums, SumsAreNumbers DEF IInv, Excess, NeverUndercounts
  <1>2. IInv /\ NeverUndercounts /\ [Next]_vars => NeverUndercounts'
    <2> SUFFICES ASSUME IInv, NeverUndercounts, [Next]_vars PROVE NeverUndercounts'
      OBVIOUS
    <2>1. Sums /\ Sums'
      BY SumsOfStep
    <2>2. Excess >= 0
      BY <2>1 DEF Sums, Excess, NeverUndercounts
    <2>3. restarts' = restarts
      BY NextIInv DEF IInv, TypeOK
    <2>5. \A p \in Actor : ~act[p].torn
      BY DEF IInv, Fits
    <2>4. Excess' >= 0
      BY <2>1, <2>2, <2>3, <2>5, StepSums DEF Sums
    <2> QED BY <2>1, <2>4 DEF Sums, Excess, NeverUndercounts
  <1> QED BY <1>1, <1>2, Invariance, PTL DEF Spec

(* What others have let in or recorded, and not counted yet, when a visitor*)
(* looks at the counter: one page each at most.                            *)
LEMMA OthersWaiting ==
    ASSUME IInv, NEW v \in Visitor, At(v, "miss")
    PROVE  Waiting("insert") + Waiting("count") <= Overshoot
  <1> DEFINE T(label) == {q \in Visitor : At(q, label)}
             L == LargestPage
  <1>1. TypeOK /\ IsFiniteSet(Visitor) /\ L \in Nat /\ Cardinality(Visitor) \in Nat
    BY CacheStoreAssumption, LargestExists, FS_CardinalityType DEF IInv
  <1>2. ASSUME NEW label \in {"insert", "count"}
        PROVE  /\ IsFiniteSet(T(label)) /\ Cardinality(T(label)) \in Nat
               /\ Waiting(label) <= Cardinality(T(label)) * L
    <2> DEFINE f == [q \in Actor |-> Held(q, label)]
    <2>1. f \in [Actor -> Nat] /\ \A q \in Actor : f[q] <= L
      BY <1>1, WaitingType
    <2>2. T(label) \in SUBSET Actor /\ \A q \in Actor \ T(label) : f[q] = 0
      BY DEF IInv, Fits, Held, At, Actor
    <2>3. IsFiniteSet(T(label))
      BY <1>1, FS_Subset
    <2>4. Waiting(label) = Total(f)
      BY DEF Waiting
    <2> HIDE DEF f, T, L
    <2>5. Total(f) <= Cardinality(T(label)) * L
      BY <1>1, <2>1, <2>2, <2>3, TotalBound
    <2> QED BY <2>3, <2>4, <2>5, FS_CardinalityType
  <1> DEFINE I == T("insert")
             C == T("count")
  <1>3. IsFiniteSet(Visitor \ {v}) /\ Cardinality(Visitor \ {v}) = Cardinality(Visitor) - 1
    BY <1>1, FS_RemoveElement
  <1>4. I \cup C \subseteq Visitor \ {v} /\ I \cap C = {}
    BY DEF At
  <1>5. /\ IsFiniteSet(I) /\ Cardinality(I) \in Nat /\ Waiting("insert") <= Cardinality(I) * L
        /\ IsFiniteSet(C) /\ Cardinality(C) \in Nat /\ Waiting("count") <= Cardinality(C) * L
    BY <1>2
  <1> HIDE DEF I, C, T, L
  <1>6. Cardinality(I \cup C) = Cardinality(I) + Cardinality(C)
    <2>1. Cardinality(I \cup C) = Cardinality(I) + Cardinality(C) - Cardinality(I \cap C)
      BY <1>5, FS_Union
    <2>2. Cardinality(I \cap C) = 0
      BY <1>4, FS_EmptySet, Zenon
    <2> QED BY <1>5, <2>1, <2>2
  <1>7. Cardinality(I) + Cardinality(C) <= Cardinality(Visitor) - 1
    BY <1>3, <1>4, <1>6, FS_Subset
  <1>8. ASSUME NEW i \in Nat, NEW c \in Nat, NEW m \in Int, NEW l \in Nat, i + c <= m
        PROVE  i * l + c * l <= m * l
    BY <1>8
  <1>9. Cardinality(I) * L + Cardinality(C) * L <= (Cardinality(Visitor) - 1) * L
    BY <1>1, <1>5, <1>7, <1>8
  <1>10. Waiting("insert") \in Nat /\ Waiting("count") \in Nat
    BY <1>1, SumsAreNumbers
  <1>11. Overshoot = (Cardinality(Visitor) - 1) * L
    BY DEF Overshoot, L
  <1>12. /\ Cardinality(I) * L \in Int /\ Cardinality(C) * L \in Int
         /\ (Cardinality(Visitor) - 1) * L \in Int
    BY <1>1, <1>5
  <1> QED BY <1>5, <1>9, <1>10, <1>11, <1>12

(* Checking the size and counting the page are two steps, yet visitors     *)
(* overshoot the maximum together by no more than one page for every       *)
(* visitor but one: what a check finds missing from the counter is at most *)
(* a page of each of the others (InsertPageInCache).                       *)
THEOREM RoomKept ==
    ASSUME Clearer = {}, Restarts = 0, PageReuse = FALSE, Visitor # {}
    PROVE  Spec => []RoomInv
  <1>0. MaxSize \in Nat /\ Overshoot \in Nat
    <2>1. LargestPage \in Nat /\ MaxSize \in Nat /\ IsFiniteSet(Visitor)
      BY LargestExists, CacheStoreAssumption
    <2>2. Cardinality(Visitor) \in Nat /\ Cardinality(Visitor) # 0
      BY <2>1, FS_CardinalityType, FS_EmptySet
    <2>3. \A m, l \in Nat : m * l \in Nat
      OBVIOUS
    <2>4. Cardinality(Visitor) - 1 \in Nat
      BY <2>2
    <2> QED BY <2>1, <2>3, <2>4 DEF Overshoot
  <1>1. Init => RoomInv
    BY <1>0, InitSums, SumsAreNumbers DEF RoomInv, Promised
  <1>2. IInv /\ NeverUndercounts /\ RoomInv /\ [Next]_vars => RoomInv'
    <2> SUFFICES ASSUME IInv, NeverUndercounts, RoomInv, [Next]_vars PROVE RoomInv'
      OBVIOUS
    <2>1. Sums /\ Sums' /\ Promised <= MaxSize + Overshoot
      BY SumsOfStep DEF Promised, RoomInv
    <2>2. Overshoot' = Overshoot
      BY DEF Overshoot, LargestPage
    <2>3. CASE Promised' <= Promised
      <3>1. Promised' <= MaxSize + Overshoot
        BY <1>0, <2>1, <2>3 DEF Sums
      <3> QED BY <2>2, <3>1 DEF Promised, RoomInv
    <2>4. ASSUME NEW v \in Visitor, NEW n \in PageSize,
                 At(v, "miss"), size + n <= MaxSize, Promised' = Promised + n
          PROVE  RoomInv'
      <3>1. Waiting("insert") + Waiting("count") <= Overshoot
        BY <2>4, OthersWaiting
      <3>2. /\ Waiting("count") \in Nat /\ Waiting("uncount") \in Nat /\ size \in Int
            /\ Waiting("insert") \in Nat /\ BytesOf(Cached) \in Nat /\ n \in Nat
        BY SumsAreNumbers, CacheStoreAssumption DEF IInv
      <3>3. BytesOf(Cached) <= size + Waiting("count") - Waiting("uncount")
        <4>1. Recorded = Cached
          BY DEF Recorded
        <4> QED BY <3>2, <4>1 DEF NeverUndercounts, Balance
      <3>4. BytesOf(Cached) + Waiting("insert") + n <= MaxSize + Overshoot
        BY <1>0, <2>4, <3>1, <3>2, <3>3
      <3>5. Promised' <= MaxSize + Overshoot
        BY <2>4, <3>2, <3>4 DEF Promised
      <3> QED BY <2>2, <3>5 DEF Promised, RoomInv
    <2> QED BY <2>3, <2>4, StepSums
  <1> QED BY <1>1, <1>2, Invariance, CounterNeverUnder, PTL DEF Spec

(* The database never records more than the maximum and one page for every *)
(* visitor but one (InsertPageInCache).                                    *)
THEOREM OvershootAtMost ==
    ASSUME Clearer = {}, Restarts = 0, PageReuse = FALSE, Visitor # {}
    PROVE  Spec => []OvershootBounded
  <1>1. IInv /\ RoomInv => OvershootBounded
    <2> SUFFICES ASSUME IInv, RoomInv PROVE OvershootBounded
      OBVIOUS
    <2>1. MaxSize + Overshoot \in Int
      BY CacheStoreAssumption, LargestExists, FS_CardinalityType DEF Overshoot
    <2> QED BY <2>1, SumsAreNumbers DEF IInv, RoomInv, OvershootBounded
  <1> QED BY <1>1, Invariance, RoomKept, PTL
=============================================================================

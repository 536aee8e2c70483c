----------------------------- MODULE Directives -----------------------------
(***************************************************************************)
(* What the cache makes of a Cache-Control header and of a page's age:     *)
(* loadRequestDirectives, loadResponseDirectives and the freshness test of *)
(* GetPageFromCache.                                                       *)
(*                                                                         *)
(* A header is the sequence of its lines, of which the code reads the      *)
(* first.  A line is the sequence of its parts, separated by semicolons,   *)
(* and a part the sequence of the directives that commas join in it: the   *)
(* code does not split at commas.  A directive has a name and an argument; *)
(* NoArg is an argument that is missing, 0 also one that is not a number.  *)
(* Time is counted in ticks of the clock, Second of them a second.         *)
(***************************************************************************)
EXTENDS Integers, Sequences, FiniteSets, FiniteSetsExt

CONSTANTS
    Second,     \* ticks per second
    NoArg,      \* a directive without "="
    Infinity    \* infinityTime

ASSUME DirectivesAssumption ==
    /\ Second \in Nat \ {0}
    /\ NoArg \notin Nat
    /\ Infinity \in Nat

NullTime == -1  \* the zero time, before any the clock shows

Directive == [name : STRING, arg : Nat \cup {NoArg}]

-----------------------------------------------------------------------------
(* The parts of a header                                                   *)

Word(name) == [name |-> name, arg |-> NoArg]

\* header.Get("cache-control") and strings.Split
Parts(header) == IF header = <<>> THEN <<>> ELSE header[1]

\* case "no-store": the whole part is the word
Says(header, name) == \E i \in DOMAIN Parts(header) : Parts(header)[i] = <<Word(name)>>

\* strings.Contains(v, name)
Mentions(part, name) == \E i \in DOMAIN part : part[i].name = name

\* strings.Cut(v, "=") and strconv.Atoi: what follows the first "=", if that
\* is a number and nothing else.
Number(part) ==
    LET valued == {i \in DOMAIN part : part[i].arg # NoArg} IN
    IF valued = {Len(part)} THEN part[Len(part)].arg ELSE 0

\* The parts that the default branch takes for a setting of name: those that
\* mention it and none of the names tried before it.
Settings(header, name, before) ==
    LET parts == Parts(header) IN
    {i \in DOMAIN parts :
        Mentions(parts[i], name) /\ \A other \in before : ~Mentions(parts[i], other)}

\* A later part overwrites what an earlier one has set.
Setting(header, name, before) == Number(Parts(header)[Max(Settings(header, name, before))])

IsSet(header, name, before) == Settings(header, name, before) # {}

-----------------------------------------------------------------------------
(* loadRequestDirectives at time t.  A max-stale is kept as a number of    *)
(* nanoseconds, the ticks of time.Duration.  MaxAge, NoCache, NoTransform  *)
(* are read and used nowhere.                                              *)
RequestDirectives(header, t) == [
    onlyIfCached |-> Says(header, "only-if-cached"),
    noStore      |-> Says(header, "no-store"),
    maxStale     |-> IF IsSet(header, "max-stale", {"max-age"})
                     THEN Setting(header, "max-stale", {"max-age"}) ELSE 0,
    minFresh     |-> IF IsSet(header, "min-fresh", {"max-age", "max-stale"})
                     THEN t + Second * Setting(header, "min-fresh", {"max-age", "max-stale"})
                     ELSE NullTime ]

(* loadResponseDirectives at time t.  A max-age of 0 lasts for ever and an *)
(* s-maxage of 0 counts as absent.                                         *)
ResponseDirectives(header, t) ==
    LET age  == IF IsSet(header, "max-age", {}) THEN Setting(header, "max-age", {}) ELSE 0
        sage == IF IsSet(header, "s-maxage", {"max-age"})
                THEN Setting(header, "s-maxage", {"max-age"}) ELSE 0
    IN [mustRevalidate |-> Says(header, "must-revalidate"),
        noStore        |-> Says(header, "no-store"),
        private        |-> Says(header, "private"),
        maxAge         |-> IF age = 0 THEN Infinity ELSE t + Second * age,
        sMaxAge        |-> IF sage = 0 THEN NullTime ELSE t + Second * sage]

\* Until when a page may be served from the cache
Deadline(info) == IF info.sMaxAge # NullTime THEN info.sMaxAge ELSE info.maxAge

(* The test of GetPageFromCache at time t: the page is served past its     *)
(* deadline for max-stale ticks, unless it must be revalidated.            *)
IsFresh(info, ask, t) ==
    LET afterDeath == IF info.mustRevalidate THEN 0 ELSE ask.maxStale IN
    /\ t <= Deadline(info) + afterDeath
    /\ t > ask.minFresh

\* Faulty variant: what is private is not told from what is not.
StorablePrivate(method, ask, offer, status) ==
    /\ 200 <= status /\ status < 400
    /\ ~ask.noStore
    /\ ~offer.noStore
    /\ method = "GET"

\* What may be stored: the test of InsertPageInCache and, before it, that of
\* SaveToCache
Storable(method, ask, offer, status) ==
    /\ 200 <= status /\ status < 400
    /\ ~ask.noStore
    /\ ~offer.noStore
    /\ method = "GET"
    /\ ~offer.private
=============================================================================

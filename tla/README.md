# BDUTS in TLA+

BDUTS is an HTTP load balancer with a page cache, written in Go. This directory
holds TLA+ models of it, translated from the source, the TLC configurations that
check them, and proofs checked by TLAPS.

- [The system](#the-system): its components, their state, what is hard about them
- [The modules](#the-modules): what models what
- [What is checked](#what-is-checked): runs, bounds, fairness
- [What is proved](#what-is-proved)
- [Disagreements found](#disagreements-found)
- [Known to fail](#known-to-fail)
- [What is not modelled](#what-is-not-modelled)
- [Plan](#plan)

## The system

| component | source | state | operations |
|---|---|---|---|
| Backend | `backend/backend.go` | address, a buffered channel whose length is the number of requests assigned, a liveness flag with a mutex | `NewBackend`, `AssignRequest` (waits 100 ms for a place), `Free`, `SetAlive`, `CheckIfAlive` |
| Server pool | `backend/serverPool.go` | slice of backends, round-robin pointer, mutex | `GetNextPeer`, `AddServer`, `RemoveServerByUrl` under the mutex; `Servers`, `FindServerByUrl` without it |
| Request dispatch | `lb/lbHandlers.go`, `backend.go` | one goroutine per request | cache lookup, then choose, assign, send, free, and relay, retry or give up |
| Health checker | `lb/loadBalancer.go`, `main.go` | a `WaitGroup`, one goroutine per check | every period: check each server, set its flag |
| Server administration | `lb/adminHandlers.go` | none of its own | add, remove, list servers; clear the cache |
| Page cache | `cache/*.go`, `lb/saveToCache.go` | bolt database of metadata, files of pages, the counter `Size` | look up, store, remove, clear, recount at startup |
| Cache directives | `cache/cache.go`, `read.go`, `insert.go` | none; what they decide is kept in the metadata | read the Cache-Control of a request and of an answer, test freshness, test whether an answer may be stored |
| Cache cleaner | `cache/cacheCleaner.go` | none of its own | every period, if the counter exceeds the fill limit: remove expired pages, then evict |
| Startup | `main.go` | a `WaitGroup` for the first round | configuration, first round of checks, the checker and the cleaner started, default user, `http.Serve`, `metrics.Init` |
| Metrics, timer | `metrics`, `timer` | `GlobalMetrics`, nil until `Init`: gauges, counters, histograms | updated by the handlers and by whoever changes the cache |
| Authentication, users, mail | `auth`, `db`, `email` | users in a second bolt database, signed tokens | sign up, sign in, change password, delete |
| Configuration | `config` | JSON files | read once |
| Admin CLI, admin panel | `admin_app`, `frontend` | client state | requests to the administration handlers |

How they interact. Every request, every call of an administrator and every check
is a goroutine of its own. They share the pool, the backends' channels and flags,
and the cache. The pool's mutex covers a whole `GetNextPeer` and the two changes of
the slice, and nothing else: flags are read under the pool's mutex and written under
the backend's, the slice is ranged over with no mutex by the checker, by
`FindServerByUrl` and by the listing, and a removal works in place on the array they
range over. In the cache each bolt transaction is atomic; the counter, the
directories and the file are changed by separate steps before and after it.

What is hard, and what makes each part correct:

- *Backend, dispatch.* A slot taken must be given back exactly once on every path of a
  loop built with `goto`; a retry uses the same request again; the loop has no bound.
  Correct means: a backend never has more requests than its limit, no slot is lost,
  every request ends.
- *Pool.* The pointer survives additions and removals; flags change during a scan.
  Correct means: no server that stays alive is starved or overlooked.
- *Health checker.* It reads the pool twice per round without the mutex. Correct
  means: rounds go on for ever, a check is counted exactly once, flags end up right
  although a check's verdict may be old when it is written.
- *Administration.* Check-then-act on the pool; listing under concurrent removal.
- *Cache.* Metadata, file and counter are three stores that several goroutines change
  in several steps, and a restart may fall between any two. Correct means: the
  counter is what the database records, it is never so wrong that nothing is stored
  or nothing evicted any more. Lookups read files that others are writing or removing, and
  decide by headers that were read at another time. Correct means: what is served was
  given for that address and may be kept, and a client that wants nothing but the cache
  never causes a request to a backend.
- *Startup.* Goroutines are started one after the other and use what a later line sets.
  Correct means: the start ends, nothing is served on servers not checked, nothing that
  happens early has effects for ever.
- *Accounts.* Every handler is several transactions and a mail, with nothing around them,
  and the database is created and filled in separate steps of a start. Correct means: what
  a mail says of a password is true, no account becomes unusable to those who could use
  it, a deletion is final, a start works whatever the one before it left.

`PROJECT.json` lists every hazard at its line.

## The modules

```
Backends <- ServerPool <- RoundRobin
                       <- Dispatch      \
                       <- HealthChecker  } <- LoadBalancer --implements--> Admission
                       <- AdminHandlers /
ServerPoolProofs <- LoadBalancerProofs: theorems
                 <- RoundRobinProofs: theorems

CacheStore <- CacheCleaner <- Cache <- CacheProofs: theorems

Directives <- Proxy --implements--> SharedCache
Proxy <- ProxyProofs: theorems

Accounts <- AccountsProofs: theorems

Startup <- StartupProofs: theorems

Totals: sums, in HealthChecker and CacheStore; TotalsProofs: their laws
```

**Backends** has one value of `Backend` per object that may be allocated. `slots` is the
length of the channel and `limit` its capacity, so `AssignRequest` has a guard and `Free`
has the empty case of its `select`. The timer's branch is taken only when the channel is
full; that a goroutine sleeps over 100 ms with a place free is left out. `up` is the
environment: whether a dial succeeds.

**ServerPool** splits `GetNextPeer` into its lock, its iterations and its return, since the
flags it reads are not guarded by its mutex. `sliceCap` and `range` model Go slices as far
as a range statement without the mutex can tell: `append` within the capacity and the
removal's `append(s[:k], s[k+1:]...)` write the array that a reader's captured header
points to. Reading the three words of a slice header is taken as atomic.

**RoundRobin** drives the pool in every legal way and adds two history variables (`steady`,
`skipped`) for what a client of the pool relies on. A removal may move the pointer's successor, so
`skipped` starts anew with it: `RoundRobinFair` is a promise between two removals.

**Dispatch** is `backendHandler` with one `pc` per goroutine. `body` tells a fresh body from
one that an attempt has closed, `gone` is the cancelled context, which only `Do` looks at.
How `Do` ends is the environment's choice, within what the machine's state and the body allow: a
client that leaves while its body is being sent makes `Do` fail with its cancellation or with an error
of the body (`BodyFault`), and the backend is marked down for the latter.

**HealthChecker** has the loop and its goroutines, a check being two steps: dial, then
write the flag and `wg.Done`. A negative `WaitGroup` panics in a goroutine nobody
recovers: `crashed`.

**AdminHandlers** has the calls with a step per element they range over. An address is a
value of `Url`; `Parsed` is what `url.Parse(...).String()` makes of it. `Int32Mod` stands for
`1 << 31` and is small in the runs.

**LoadBalancer** composes the three on one pool, with the fairness and the properties.
**Admission** is the abstract promise: guests enter rooms with a free place and leave.
`A!Spec` of `LoadBalancer` maps a request to the backend it is being worked on by.

**CacheStore** has the database (`db`), the files (`disk`), the counter (`size`) and the
goroutines of lookups and stores, with one step per transaction, per change of the counter
and per system call. A page is its length; `whole` tells whether a file would parse. A removal
parses the metadata from a slice into the database after the transaction that freed it
(`remove.go:42-53`). With `PageReuse` a transaction committed in between may have written that place: `slice`
are the sizes the removal may then read, that of its own page and those of the pages recorded by then, and
`torn` tells that what it reads may also not parse.
**CacheCleaner** adds `Observe` and the two passes. **Cache** adds `ClearCache`, expiry,
and a process that dies and starts again (`CalculateSize`). `ClearCache` lowers the counter bucket by bucket
inside its transaction, so it has a step for each, and one for the commit; while it is in it, it holds bolt's lock of
writers (`Locked`) and other updates wait. `Recorded` are the pages recorded less those it has been through.

**Directives** has `loadRequestDirectives`, `loadResponseDirectives`, the freshness test and
the tests before a store. A header is a sequence of lines, of which `header.Get` reads the first
(`Parts`), a line a sequence of parts (the code splits at semicolons), a
part a sequence of directives (commas, at which it does not split); `Mentions` is
`strings.Contains`, `Number` is `Cut` and `Atoi`. The reading of a header is compared with
what its directives mean by an assumption of `MCProxy`, for every line of up to three
directives out of seven, separated by semicolons.

**Proxy** follows one request from `loadBalancerHandler` to the goroutine of `SaveToCache`,
with one step per transaction, per system call on the file and per test of the clock, and
the cleaner's two steps on a page. It complements `CacheStore`, which has sizes and the
counter and no contents: here a page is the number of the answer it came from, a file
(`Inode`) is apart from the name that leads to it (`dir`), so that a removed file is read
on by who has it open, and a page is read in `Chunks` pieces while others rewrite it. `given`
is a history variable, every answer of a backend. All pages are equally long; one write
puts a page in place, since `bufio.Writer` passes a page larger than its buffer on at once.
That pieces of two pages parse is left open (`Hit`, `PageGarbled`), and so is what a lookup reads in
a metadata slice that was written over: nothing that parses, or what is recorded of another page
(`MetadataGarbled`, `MetadataOfOther`). Headers may be any. `Plain` tells those the code reads as they
are meant, one line, semicolons between directives, words without an argument. `Has` is what a header has, however it is
written, and `Demands` what it has and is plain: that is what the promise is about.
**SharedCache** is the abstract promise: whoever asks is told a backend's answer, or pieces of
answers that were given for that address and may be kept, or an error. `SC!Spec` of `Proxy` maps
requests to what they ask and were told. It leaves open that a page may be put together
from two answers, because the code does so: TLC refutes `PagesServedWhole` (*Known to fail*).

**Startup** is `main` from the first round to `metrics.Init`, the goroutines running by then and
the counters of requests. `handler` holds what matters of a request: whose slot it has, how
many deferred calls it has piled up, and whether it came before `metrics.Init`. Any number of
panics is modelled by what a nil `GlobalMetrics` does: a handler's is recovered by
net/http and leaves the slot taken, the cleaner's ends the process.

**Accounts** has the administrators. Each function of `db.go` is one step; a handler is the
steps between them with the goroutine's `call`, and an answer of any status sets it free.
An account is the password that opens it, a token the name it was given to. `Random` are
the generated passwords and `Chosen` what a user may change to; they are disjoint because
a generated one has 36 characters and validation allows 25. `process` is the part of
`main.go` from `isFileExist` to `http.Serve`; `Crash` is a death, or a `logger.Fatal` over a
missing setting, at any step. `stale` and `deleted` are history variables.

**Totals** has the sum of the values of a function, which the `WaitGroup` and the counter of
the cache are compared with. It is the cardinality of a set with `f[x]` elements for each `x`
rather than a fold, so that the theorems on finite sets apply to it.

Some definitions have a *faulty variant* before them, a plausible mistake in the
code. With the variant in place of the definition the property it is paired with
(`mutants` in `PROJECT.json`) fails, which shows that the property depends on the code.

## What is checked

Runs are in `PROJECT.json`; `tlc -config <cfg> <module>`.

| cfg | instance | holds |
|---|---|---|
| `RoundRobin` | 4 objects, 3 configured, 2 addresses, 2 callers, any addition, removal and flag | `IInv`, `RoundRobinFair`, `NoFalseRefusal` |
| `Balancer` | 3 objects, 2 configured with limit 1, 2 requests (one with a body) whose clients may leave, 1 faulty backend, the checker, 1 call of any kind | `TypeOK`, `SlotAccounting`, `IInv`, `AdmitsWithinLimits` |
| `Health` | 2 servers, one of which stops and starts, 2 requests, the checker, 1 call that removes | `ChecksCounted`, `EveryRequestEnds`, `RevivedEventually`, `DownDetected`, `RemovedServerDrains` |
| `Cache` | 3 pages of size 2, maximum 3, fill limit 0, 2 visitors, the cleaner | `NeverUndercounts`, `RoomInv`, `OvershootBounded` |
| `CacheClear` | 2 pages of one size, maximum 2, fill limit 1, 1 visitor, the cleaner, 1 clear, 1 restart | `TypeOK`, `NeverOvercounts`, `PagesStayCounted`, `CleanerKeepsUp` |
| `Proxy` | 3 requests, 2 addresses, 2 files, pages of 2 pieces, 2 answers, 2 ticks, 3 kinds of request, 2 of answer | `IInv`, `ServesOnlyWhatItMay` |
| `Startup` | 2 servers with limit 1, 2 requests of up to 2 attempts, a cache above its fill limit | `TypeOK`, `IInv`, `ServedOnlyChecked`, `OnlyEarlyRequestsLoseSlots`, `AttemptsCounted`, `ComesUp` |
| `Accounts` | the default user and one more name, 2 callers, 2 generated passwords and 1 chosen, 2 deaths | `IInv`, `StartNeverRefused`, `WelcomeIsTrue`, `StaysWithinReach`, `DeletionSticks` |

*Bounds.* With limit 1 two requests already compete for a slot, time out, retry and
overtake each other. Three objects leave room for one addition to two configured
servers; the slice starts full, so the addition reallocates it, and full after a removal,
so it does not. The round-robin run has more servers because starvation needs a third
party. In the cache two visitors suffice for every race of two steps on one page, and make the size
check of one fall between the check and the count of the other; for an overshoot to be seen in the
database the maximum must be less than two pages, and a third page lets the cleaner and a store go on
meanwhile. One visitor suffices beside a clear and a restart, whose partners are the cleaner and the
state left on disk, and beside the cleaner for a slice to be written over. Where metadata stays readable
until it is parsed (`PageReuse = FALSE`) a removal cannot mistake one size for another, so one size
does; the run `StaleSlice` has two, to tell the page that was removed from the one whose metadata
is read, and `CacheProofs` has any.
For the proxy, three requests are one
that stores a page, one that rewrites it and one that reads it meanwhile, so two answers
suffice; a second address tells whose file it is, a second file is needed to make one anew
while the old one is open; a page of two pieces can be torn. A tick is a second, so two ticks
pass a max-age of 1; max-stale, which the code counts in nanoseconds, is then 0. For the start, two
attempts make one retry, and with two servers one request can lose its slot while the
other is served. For accounts, two callers give every
race of two handlers on one name; the second name lets one account be deleted by the other,
and the second death falls into the start after the first.
A run that may stop says so: `Balancer` and `ChangeDuringRound` disable the deadlock check
because a negative `WaitGroup` ends the process in them; `Proxy` and `Startup` because the
requests of the instance come to an end, and a start may end the process.

*Fairness.* `LoadBalancer!FairSpec`: weak fairness of each goroutine, which the Go scheduler
gives; of the end of a dial, which has a timeout; and of the backend's answer, which is an
assumption, since `http.DefaultClient` has no timeout. Strong fairness of taking the pool's
mutex: `sync.Mutex` hands itself to a waiter of more than 1 ms. No fairness for requests that
arrive or leave, calls that are made, or machines that change. `EveryRequestEnds` assumes
that machines settle: as long as one keeps flapping, a request may meet it down each time.
`Cache!FairSpec`: weak fairness of each goroutine; the cleaner's includes its ticker.
`CleanerKeepsUp` assumes that stores stop at some time, since nothing keeps them from
refilling the cache.
`Startup!Spec`: weak fairness of `main` and of each goroutine of the first round, whose dials have a
timeout. None for the requests: `ComesUp` is about the start alone.

## What is proved

For every pool, number of requests, calls and limits (any values of the constants
that satisfy the named assumptions):

- `Invariance`: `Spec => []IInv`
- `TypeCorrect`: `Spec => []TypeOK`
- `SlotsAccounted`: `Spec => []SlotAccounting`
- `ImplementsAdmission`: `Spec => AdmitsWithinLimits`
- `EveryCheckCounted`: `Spec => []ChecksCounted`

`SlotAccounting` says that `slots[b]` is the number of requests at `b` and at most
`limit[b]`. It is not inductive by itself. That a step of a request changes the slot of
the backend it stands at needs to know that it stands at one (`PeerKnown`); that creating an
object leaves the equation alone needs that an object without address has no capacity, so no
request is at it (the last conjunct of `SlotInv`); counting needs that the set of requests
at a backend is finite, though the set of all requests need not be. `CallsKnown` is what
types need of the calls. `IInv` is the conjunction. The proof of type correctness goes
through the lemmas of `ServerPoolProofs`: what a removal, an addition and a scan do to the
slice and to the views readers hold of it. The refinement proof uses `IInv` twice: a step
that assigns finds the room not full because `slots` is the cardinality of those inside, and
a step that creates finds its room empty.

`ChecksCounted` speaks of a pool nobody has changed (`PoolUntouched`): on another one it is false,
which the run `ChangeDuringRound` shows. It needs two things more (`RoundInv`). The position of the
checker's range loop never goes beyond what it ranges over. And a pool that has been changed does not
look untouched again: an addition allocates an object for good, and without one a removal leaves the
slice shorter than the configured one. The set of running checks is finite though
that of all objects need not be, so the checks outstanding are a `Total`.

For every pool, number of choosers and sequence of additions, removals and flags, in
`RoundRobinProofs`:

- `Invariance`: `Spec => []IInv`
- `NobodyStarved`: `Spec => []RoundRobinFair`
- `NobodyOverlooked`: `Spec => []NoFalseRefusal`

The argument is about `Distance(i)`, how many iterations it takes the loop of `GetNextPeer` to get to
place `i`. An iteration brings the pointer one nearer to every place but the one it moves to; a
removal may leave it beyond the pool, where the next increment is the first place. `FairInv` adds
that nobody is owed anything who is down or not in the pool, so who comes up or is added starts from
nothing, and that an added server is one the pool does not have yet. `ScanInv` says that who has been alive
since the running scan began is still ahead of the pointer by no more iterations than the
scan has left; when it has none left, there is no such server. What an addition and a removal do to
the slice is told by the lemmas of `ServerPoolProofs`, which `LoadBalancerProofs` uses too.

For every finite set of pages, visitors and clears, any sizes of pages of which one is the
largest, any maximum and fill limit, in `CacheProofs`:

- `Invariance`: `Spec => []IInv`
- `TypeCorrect`: `Spec => []TypeOK`
- `StayCounted`: `Spec => PagesStayCounted`
- `CounterNeverOver`: if `PageReuse = FALSE`, `Spec => []NeverOvercounts`
- `CounterNeverUnder`: if `PageReuse = FALSE`, `Clearer = {}` and `Restarts = 0`,
  `Spec => []NeverUndercounts`
- `RoomKept`, `OvershootAtMost`: if moreover there is a visitor, `Spec => []RoomInv` and
  `Spec => []OvershootBounded`

`Excess` is the counter, with the changes that goroutines are about to make, less the bytes that the
database records. The proof has one lemma per kind of step on how it may move `Excess`: most steps shift an
amount from the database to the goroutine that will count it, or from there to the counter, and leave it
alone. `IInv` says what a goroutine knows of the page it deals with and of the slice it is about to parse
(`Fits`), and that what a clear has yet to go through is recorded (`ClearInv`): without it a page
of no size might be recorded, and a clear might take a page off twice. The hypotheses name what does move
`Excess`. A slice of bolt that is written over before it is parsed (`PageReuse`) makes a removal take off
nothing, and `Excess` grows, or the size of another page, and it may grow or shrink; a `ClearCache` that
fails halfway and a start that finds metadata without a file leave pages uncounted, so it shrinks.
`StayCounted` has no such hypothesis: it names these three and says that nothing else does. TLC
refutes each of the other conclusions without its hypotheses (the run `StaleSlice`, *Known to fail*): they are
limits of the code, not of the proof. `IInv` of `Cache` holds in every state by `Invariance`; no run lists
it, since what it says beyond types is of use to the proofs only.
`RoomInv` counts a page from the size check on: when a check finds room, what the counter does not
have yet is at most one page for each of the other visitors, so what is recorded and let in
exceeds the maximum by no more than that.

For every set of names, passwords and callers and any number of deaths, in `AccountsProofs`:

- `Invariance`: `Spec => []IInv`
- `RestartNeverRefused`: `Spec => []StartNeverRefused`
- `WelcomeAlwaysTrue`: `Spec => []WelcomeIsTrue`
- `NeverOutOfReach`: `Spec => StaysWithinReach`
- `DeletedStaysDeleted`: `Spec => DeletionSticks`

`WelcomeIsTrue` speaks of mails that have been sent; that the next one will be true too
needs the same of every call that stands at its mail (`WelcomeInv`). `StartNeverRefused`
needs that a database without a file is unused, and that it stays so up to the step that
adds the user, since nothing is served until then (`StartInv`). That a change written late keeps the
account within reach needs that what it writes was chosen by somebody (`ChangeInv`). The
lemmas on `InsertUser`, `ChangePassword` and `DeleteUser` say what each transaction may do
to the accounts, and the steps cite them.

For every set of requests, addresses, files, kinds of request and of answer, any size of a page
and any time, in `ProxyProofs`:

- `Invariance`: `Spec => []IInv`
- `ImplementsSharedCache`: `Spec => ServesOnlyWhatItMay`

The assumptions say what the constants are and of what type, `HeadersAssumption` among them: a header
may be any. What the theorems say of headers is in `Demands`. An answer or a request with `no-store`, an answer
with `private`, a request with `only-if-cached` is promised to be heeded where the header is plain;
`WordsAreRead` proves that the code reads such a header as it is meant. Of a header that is not plain, as
with directives joined by commas, nothing is promised (`OnlyIfCachedHeeded` in *Known to fail*), but what is
served is still an answer given for the address asked for, to a GET and with a status below 400. `IInv` is needed because what is
served was read earlier, from a file written earlier, for an answer that came earlier.
`FilesOwned`: a file belongs to the address it lies at and to those who opened it there, though
it may have been removed and another one made since. `FilesKept`: what a file holds, or is
about to be written to it, may be kept; `Storable` gives it for the answer, and
`WordsAreRead` that reading a plain header finds what it has. `ReadKept` carries it over to the pieces read;
since `given` only grows, `Kept` does. `Unserved` is that nobody is told twice, and that every way a
lookup fails comes by `Miss`. The refinement proof then has each step of a request either
stutter, or be `Ask`, `Fetch`, `Reuse` or `Refuse`.

For every number of servers, requests and attempts, any limit and either state of the cache on
the disk, in `StartupProofs`:

- `Invariance`: `Spec => []IInv`
- `TypeCorrect`: `Spec => []TypeOK`
- `CheckedBeforeServed`: `Spec => []ServedOnlyChecked`
- `LaterRequestsKeepSlots`: `Spec => []OnlyEarlyRequestsLoseSlots`
- `EveryAttemptCounted`: `Spec => []AttemptsCounted`

The parts of `IInv`: `FirstRoundCounted`, since what `wg.Wait` waits for is the number of checks that have not
ended; `SlotsHeld` and `HoldersKnown`, which make each slot the slot of one handler between
`AssignRequest` and `Free`, or panicked there; `EarlyKnown`, since a handler only panics on nil metrics,
and as long as they are nil nobody gets as far as an attempt. That a gauge stays a natural number
is no property of its type: it is that what a return subtracts was added before, so `TypeOK` rests on
`AttemptsCounted`. The attempts are a set of pairs, so a step's difference is the cardinality
of what it adds or removes.

Only model-checked are the liveness properties, `EveryRequestEnds`, `RevivedEventually`, `DownDetected`,
`RemovedServerDrains`, `CleanerKeepsUp` and `ComesUp`: they rest on fairness, and so on `ENABLED`,
which the provers here do not handle. What the reading of a header computes (`Directives`) is compared
with its meaning by TLC for headers of bounded length, since induction over data is out of reach
too; the words of a plain header are proved to be read (`WordsAreRead`). The invariants that passing runs
check are all proved.

## Disagreements found

Each is a run that ends in a counterexample to a line of the repository; `findings` in
`PROJECT.json` quotes them.

| cfg | property | what happens |
|---|---|---|
| `SpentBody` | `FailedByBackend` | the retry of a request with a body marks healthy backends as not alive, one after the other |
| `ChangeDuringRound` | `RoundsGoOn` | a server added or removed between two lines of the checker ends the process, or blocks the checker for ever |
| `StaleSlice` | `RecordedWithinMaximum` | a removal takes the size of another, larger page off the counter, which then lets in more than the maximum, with a single visitor and no two stores at once |
| `FirstStart` | `FirstStartAddsAdmin` | a first start that stops after opening the users database (a missing setting is enough) leaves it without the admin user for ever |

## Known to fail

These are stated in the modules, or follow from a trace, and TLC refutes them in instances as small as
those above; they have no run of their own.

- `ExpiredDeleted` (`Cache`): the pass that removes expired pages removes none, since it copies
  their names into slices of length zero (`cacheCleaner.go:89`); `isExpired`, which it uses, looks
  at max-age alone and not at s-maxage.
- `NeverUndercounts` and `OvershootBounded` (`Cache`) once a `ClearCache` has failed halfway, or after
  a restart: the counter was lowered for pages whose deletion is rolled back (`cache.go:245`), and
  `CalculateSize` leaves out metadata without a file, so the cache may grow beyond its maximum by
  as much. `PagesStayCounted` has what is true.
- `NeverOvercounts` (`Cache`) with `PageReuse`: the metadata of a page is parsed after the transaction
  that deletes it (`remove.go:50`); if it no longer parses, the size is never taken off the counter.
  `NeverUndercounts`, `RoomInv` and `OvershootBounded` with `PageReuse`: if it parses as the metadata
  of a larger page, too much is taken off.
- `EveryErrorIsAMiss` (`Cache`): a lookup panics when its page is removed between its two
  transactions (`read.go:81`).
- `MetadataOfItsPage` (`Proxy`): a page stored again lies beside the directives of the old one; once
  it has expired it is fetched and rewritten by every request and never served again.
- `AnswersAreBackends` (`Proxy`, one request): the status is not passed on (`backend.go:166`,
  `lbHandlers.go:77`), so an answer of any status reaches the client as a 200, and so does everyone served
  it from the cache; the 304 to one client's conditional request becomes an empty page.
- `PagesServedWhole` (`Proxy`, three requests): a page of more than one piece that is rewritten while it is
  read is served with pieces of two answers, if they parse together (`read.go:112`).
- `OnlyIfCachedHeeded` (`Proxy`, one request that asks with "max-stale, only-if-cached"): of directives
  joined by commas, the usual form, none is seen (`cache.go:338`), so a request that wants only the cache
  goes to a backend; `no-store` and `private` are overlooked in the same way (`cache.go:390`).
- The cache's key is the address alone (`cache.go:319`): a POST is looked up like a GET, and may be
  answered by a stored page.
- `RequestsNow` counts attempts, not requests, until the handler returns; `AttemptsCounted` has what
  is true.
- The gauge of the cache's size may be left at an older value by two changes at once
  (`cache.go:173-174`).
- A request served before `metrics.Init` panics with its slot taken, and the slot is never
  given back; a page removed by the cleaner before then ends the process
  (`OnlyEarlyRequestsLoseSlots`). `ComesUp` accepts that as an end, so it is not a promise that the start serves.
- A client that leaves while its body is being sent may have the backend marked down, if `Do` reports the
  body rather than the cancellation: the same `FailedByBackend`.
- `LimitOfWork` (`LoadBalancer`): a slot is free as soon as the headers of the answer are
  there, so a backend is given a request more than `maximalRequests` while it sends a body.
- `NoServerTwice` (`LoadBalancer`): two calls that add the same server both find it missing.
- `PositiveLimits` (`LoadBalancer`): a maximum of 2^31 wraps to a limit of 0 after the
  check, and the server never gets a request.
- `ListShowsEveryServer` (`LoadBalancer`): a listing overlooks a server that stays, because
  another was removed meanwhile.
- `FilesWithinMaximum` (`Cache`): the cleaner removes the metadata of a page whose writer has
  not yet created the file; the file stays and nobody counts it.
- `RewriteTakesEffect` (`Cache`): a page stored again keeps the metadata, and the age, of the
  old one, since `ErrBucketExists` rolls the transaction back.
- A removal leaves the round-robin pointer beyond the pool until the next increment
  wraps it; harmless, as `RoundRobinFair` and `NoFalseRefusal` show.
- "All backends are turned down" may be answered while a server scanned early is up
  again; `NoFalseRefusal` has what is true.
- An account whose mail failed is open to nobody, and its name is taken until it is
  deleted; `StaysWithinReach` has what is true.
- Two changes of one password may both be accepted for the same old one; the later write
  wins.

## What is not modelled

JSON, TLS, HTTP itself and logging. Headers beyond Cache-Control, and directives the code reads and
uses nowhere. A slice header read while it is written. Pages of different lengths that are
read in pieces while one replaces the other. Disk errors other than a full device at the
write. `PagesCount` and the gauges of the cache, which change where `Size` does. The counter of
uses: its order is any order here. Histograms. Salts, hashes and signatures, the address and the
text of a mail. The configuration files, which are read once. The admin command line, which
sends one request and ends, and the admin panel, a client without state the balancer relies on;
the handlers they call are modelled.

## Plan

Done, in the order of their importance:

1. *Core*: Backends, ServerPool, RoundRobin, Dispatch, HealthChecker, AdminHandlers,
   LoadBalancer, Admission; the first theorems.
2. *Cache*: CacheStore, CacheCleaner, Cache.
3. *Accounts*: Accounts, AccountsProofs.
4. *Directives and Proxy*: a request from lookup to store with the contents of the files,
   SharedCache, ProxyProofs.
5. *Startup*: the first round, `http.Serve` and `metrics.Init`, the counters of requests;
   StartupProofs.

6. *Proofs of the counters and of the pool*: Totals, TotalsProofs, RoundRobinProofs, CacheProofs,
   and the checks of a round in LoadBalancerProofs.

To come: an abstract specification of the pool that `RoundRobin` implements (whoever is chosen was
alive when it was looked at, in an order that starves nobody), and of the accounts (a name is free or
has one password); the action properties of `Proxy` on what a file may hold, proved apart from the
refinement; `Configuration`, as far as what it reads decides whether a start succeeds.

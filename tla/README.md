# Verification of vintagestory-go

TLA+ models of the Go clients for the Vintage Story services, model-checked
with TLC on small instances and, for the properties that matter most, proved
with TLAPS for every instance. Line numbers refer to the sources beside this
directory (`src/`).

## 1. The system

The library is a set of packages over one HTTP layer. It stores nothing on
disk; its state is the caches inside the clients, which goroutines share.

| part | state | operations | shared with |
|---|---|---|---|
| `vshttp` (`do.go`, `vshttp.go`) | none between calls; a call has its attempt counter, last error and pause | `Do`, `FetchJSON`, `CheckStatus`, `DecodeJSON`, `RetryPolicy.normalize` | every client calls it |
| `moddb` catalog (`client.go` 121-357) | `catalog`, `catalogAt`, `catalogByGV` under an RWMutex; a `singleflight.Group` | `List`, `ListTags`, the lookup of `Search` | all goroutines that use the client |
| `moddb` search (`client.go` 134-205, 461-528) | per call: two channels, up to 8 workers, a feeding goroutine | `Search`, `enrichPage` | calls the catalog, then `Get` per item |
| `moddb` details (`client.go` 359-441) | `details`, keyed by ID, slug and spelling; the same `singleflight.Group` | `Get` | search workers, callers |
| `versions` (`versions.go`) | `cached`, `cachedAt` under a mutex | `List` | callers |
| `servers` (`client.go`) | `servers`, `fetchedAt` under a mutex | `List`, `Get` | callers |
| `modpack` (`modpack.go`) | per call: the report | `Analyze`, `IsUpgradeTarget`, `CompareVersions`, `VersionEquals` | a `Catalog` interface, usually over `moddb` |
| `news` (`client.go`) | per call: which of two feeds is asked | `List` | calls `vshttp.Do` once or twice |
| `auth` (`client.go`) | none; the TOTP conversation is the caller's | `Login`, `Validate` | call `vshttp.Do` with one attempt |
| the list builders (`versions.fetch`, `servers/parser.go`, `news/parser.go`, the filters of `Search`) | per call: the list under construction | decode, refuse entries, drop duplicates, sort | called by the clients above |
| `modinfo` (`modinfo.go`) | per call: the entry chosen | `ReadArchive`, `Parse` | callers |
| error sentinels (`*/errors.go`) | none | `legacy`, `apiStatusError` | label every error that leaves a package |

What is hard:

- **Concurrency.** `moddb` looks a cache up under a read lock, releases it,
  and joins or starts a shared request later: every lookup may be stale when it
  is used. `versions` and `servers` hold a mutex over the whole request
  instead. `enrichPage` closes two channels that workers use.
- **Leaving.** Each call has a context that may end between any two steps. A
  caller that leaves must get its call back, must not take the others with it
  and must leave nothing behind.
- **Failure.** The upstream may fail at every point of an exchange, answer
  late, answer with an older state than another request got, ask for a pause,
  or never answer.
- **Ordering.** Flights of different keys overlap and write the same cache
  names; releases arrive in any order.
- **Numbers.** A shifted delay, a jitter and a server's hint are added in 63
  bits; a page number is multiplied in an `int`; a version may not fit one.
- **Bad input.** Replies come from pages and feeds nobody controls: entries are
  incomplete, repeated, in any order, and a Go map shuffles the rest.

What makes each part correct is stated as properties, listed with the runs in
section 3. `PROJECT.json` lists the hazards at the line where they bite, with
the properties that would catch them.

## 2. The modules

| module | models | state and actions |
|---|---|---|
| `Vshttp` | the pure part of `vshttp` | operators: `classify`, `statusError`, `parseRetryAfter`, `normalize`, `backoff` (the set of delays the jitter allows; empty where `rand.Int64N` panics), `decodeError` |
| `RetryContract` | what `Do` promises | calls used and allowed, calls begun late, how it ended |
| `HttpDo` | one `FetchJSON` call | `Send` is `client.Do`; `TransportFail`, `Headers`, `BodyFail`, `BodyTooLarge`, `BodyRead` are the ways an exchange goes on, each with what the loop does about it; `Wake` and `SleepCancelled` are the two arms of `sleep`'s select; `CtxDone` may come between any two |
| `CatalogPromise` | what a cached catalog promises | versions held per key, calls with the version held when they began, answers, and the versions a catalog refuses to hold (`Refused`: for `servers`, pages without listings) |
| `ModdbCatalog` | `list`, `listForGameVersion`, `fetchCatalog`, `fetchMods` | `Lookup` (one critical section), `Join` (`DoChan`), `Receive` and `GiveUp` (the select), `Answer`/`Fail` (the upstream), `Store`, `End` (the flight leaves the group and its result is sent) |
| `ModdbSearch` | `Search` and `enrichPage` | the page arithmetic in an `int` of `MaxInt`, `SlicePanics` where it leaves the list; `Feed`, `FeedEnd`, `FeedStop`, `CloseResults` (feeder), `LookedUp`, `WorkerExit` (workers), `Collect`, `Finish` (Search's goroutine) |
| `ModdbDetails` | `Get` and `fetchDetails` | as `ModdbCatalog`, with an entry stored under the name asked for, its ID and its slug (two names at most, since the upstream resolves a name to a mod that carries it), and an upstream where mods are added, renamed and take each other's slugs |
| `LockedCatalog` | `versions.Catalog.List` and `servers.Client.List` | `Call` (in line for the mutex), `LockHit`, `LockMiss`, then `Store`/`Deliver`, `Reject` or `FetchFail`, each of which unlocks |
| `Modpack` | `modpack.Analyze` | `Ask`, `Found`, `LookupFails`, `SkipLocal`, `Stop`, `Finish`; version choice and dependency diff as operators |
| `ApiClients` | one call of `news`, `auth`, `servers.Get`, or of the requests behind the catalogs | extends `HttpDo`: `Http` is any step of `Do`; `Fail` records a failure and asks the second feed or returns (`AskSecond` starts `Do` again); `Refuse`, `RequestFails`, `PageFails`, `PayloadFails` are the failures; `Deliver`, `LoginReply`, `ValidateReply` the ways a reply is used; `legacy` the sentinels of the five packages |
| `Versions` | `splitVersion`, `compareVersions` | operators, and the order `Newer` they are compared with |
| `ServerParser` | `parseServer`, `parseServerDetail` | recursions over the elements of a page |
| `Listings` | from the entries of a reply to the list a caller gets | `Read` takes the next entry (any, where the code ranges over a map), `Unsupported`, `Invalid`, `Sort` |
| `ModInfo` | `ReadArchive`, `Parse` | `Open`, `Scan` (one entry), `StatedTooLarge`, `Read`, `ParseContent` and the error exits |
| `MC*` | instances for TLC | the constants of the runs |
| `*Proofs` | theorems | see section 5 |

How they fit together: every client reaches the network through `Do`, and
`HttpDo` implements `RetryContract`; the catalogs see of it only that a request
is answered, fails or hangs (`Answer`, `Fail`, neither). `ModdbCatalog` and
`LockedCatalog` are two implementations of one abstract specification,
`CatalogPromise`. `ModdbSearch` uses the outcomes of `ModdbCatalog` (a list,
fresh or stale, or an error) and of `ModdbDetails` (`LookedUp`), each as one
step. `Modpack` sees a catalog as any answers to `Get`.

Abstractions that all share: a list or an answer is the number of the upstream
version it was built from, which is all that "older", "newer" and "lost" need.
Texts, endpoints, headers and logging are left out. `singleflight.Group`,
`context.Context`, `net/http` and the upstreams are external and modelled from
how the code uses them; in the map they are marked so. `singleflight` drops a
key and fills the channels of a flight under one lock, so `End` is one step.
`sort.SliceStable` is taken by its contract: any permutation in which nothing
comes after what it should precede and what ties keeps its order (there is
one, section 5). A context is done at any time after a call begins; a request begun under a
finished context fails at once, and one in progress may still be answered.

Operators marked `Mutant:` are plausible bugs. No specification uses them; they
document, for each property, a change of the code that it catches.

## 3. The runs

Each run of `PROJECT.json` is one `.cfg`; `tlc -config MCX.cfg MCX` repeats it.

| run | asks | distinct states |
|---|---|---|
| `http_do` | Does the retry loop keep its contract and its arithmetic its limits, and does every call come back? | 90 037 |
| `moddb_catalog` | Does the catalog survive overlapping calls, failures, expirations and departures? | 82 422 |
| `moddb_search` | Is the page the one asked for, and does the pool of `enrichPage` close, count and end correctly? | 29 296 |
| `moddb_details` | Is a name ever answered with the wrong mod? | 157 831 |
| `locked_catalog` | Does holding the mutex over the request keep the promise and let everybody out? | 15 176 |
| `modpack` | Is the offered version right for every order of releases? | 904 402 |
| `clients` | What does one call of a client cost, and what may its errors say? | 50 549 |
| `listings` | Do lists come out whole, in order and once, whatever the entries? | 4 855 |
| `modinfo` | Is the right `modinfo.json` read, and how much of it? | 5 911 |
| `http_do_cancel`, `moddb_one_request`, `moddb_search_items` | three statements of the repository that the code does not keep (section 4) | |

What the passing runs show:

- **`http_do`.** `ImplementsContract`: the loop refines `RetryContract`: no mix
  of transport failures, broken bodies and retried statuses costs more requests
  than the policy has attempts, a POST is sent once, at most one request is
  begun after the caller left (the select in `sleep` may pick the timer), and a
  transient failure is returned to a live caller only after the last attempt.
  `WaitBudget`: the total pause is bounded by `MaxWait` and by `MaxDelay` plus
  a quarter (the jitter comes after the cap), and no retry goes out without a
  pause, though a Retry-After may wrap to a negative number. `PanicOnlyWhenDegenerate`:
  `rand.Int64N` panics only for a delay below two nanoseconds or shifted out of
  range. `CancelledCallEnds`, `EveryCallEnds`: a call ends.
- **`moddb_catalog`.** `KeepsPromise` (refinement of `CatalogPromise`): data
  handed out is no older than what was cached when the call looked, what is
  cached never goes back, a context error goes only to its own caller.
  `CancelledCallReturns` and `EveryCallReturns`: no waiter is lost. The
  interesting fact is that a caller may join a flight that began before its own
  lookup and still gets data no older than what it saw: a flight ends before
  another of its key begins.
- **`moddb_search`.** `PageAsked`: as long as the first place of a page is an
  `int`, the search does not panic, the page holds the mods its number stands
  for, and `HasNext` agrees with `TotalPages`; beyond that the code panics, or
  shows another page (`SlicePanics`, `Wrap`). No send on a closed channel and
  no goroutine left behind, whatever the context does; items are looked up once
  and the failure count is exact. `WarningFits`: over a fresh list the warning
  says exactly whether lookups failed or the deadline cost the page; a stale
  list always shows, and hides the other two (section 4).
- **`moddb_details`.** `RightMod` holds although one answer is stored under
  names that other flights own, in any order: an entry carries the name it is
  stored under, whoever stores it. What does not hold, and is not claimed, is
  that details never go back in time: a late flight under another spelling may
  overwrite a newer answer.
- **`locked_catalog`.** The same promise as `moddb_catalog`, and
  `NoFetchWhileFresh`, which `moddb` lacks. The price is that a caller whose
  context is done stays in line for the mutex, and leaves once the requests
  before it have ended (`EveryCallReturns`). The promise of `servers` is
  stronger by one clause: a page without listings is never held or returned.
- **`modpack`.** `OffersAreUpgrades`, `NothingMissed`, `BestOffered` over every
  order of up to three of six releases that mix stable, untyped, beta and
  prerelease, one of them typed stable against its version, with three kinds of
  latest version and five builds. What an update is, is restated from the
  comment of `IsUpgradeTarget` (`Documented`), and the one place where the code
  is stricter is named (`TypedStable`, section 4). `DiffSuffices`: whoever
  follows the dependency diff has what the new version needs and keeps nothing
  that only the old one needed. `WholeReport`, entries and summary, through cancellations and failed lookups.
- **`clients`.** `UpstreamBudget` and `OneLateCall` over both feeds together:
  the look at the context between them is enough, although the context may end
  right after it. `BothFeedsAsked`: no caller who waits is told that the news
  are unavailable while a feed was not asked, or a feed whose failure is worth a
  retry had an attempt left. `VerdictNeedsReply`:
  `auth` judges an account only on a reply that was read to its end, and
  `ErrNetwork` means that no reply was seen, except for a 408, which counts as
  a timeout.
- **`listings`.** `Ordered`: whatever order the map gives, a release comes
  before its prereleases and after every newer one, and only versions that
  compare as equal (`1.2` and `1.2.0`, or two that do not fit an `int`) may
  swap places. The expected order reads the digits themselves (`Reading`) and
  does not use the code's `Atoi`. Posts, servers and mods are determined by the reply, so that
  pages fit together. `BadEntriesCostThemselves`: an unusable post does not
  hide a good one for the same article. `HeadingNames`: in the current layout a
  server has the name of its heading wherever labels stand.
- **`modinfo`.** `OwnEntryParsed`: the `modinfo.json` at the root is read if there
  is one, otherwise the first below it, and never more than `MaxBytes` whatever the header states.
  `FallbackKeepsExact`: the second parse loses no scalar under its exact key.

Properties that a refinement implies (`RequestBudget`, `LateCallBound`,
`GivesUpOnlyWhenSpent` in `HttpDo`; `OkIsCurrent`, `CacheMonotone`,
`CancelIsolated` in the catalogs), the type invariants of `HttpDo`,
`ModdbSearch` and `LockedCatalog` and `NoLostWaiter`, which
`EveryCallReturns` needs, are not checked again by a run of their own: they are
proved for every instance (section 5).

### Bounds

- `http_do`: durations have 8 bits (`Half = 128`) instead of 64, so that the
  shift, the capped delay and a Retry-After overflow in a few steps. Four
  policies: the normal one, one whose fields are all zero, one whose shifted
  base leaves the width before the attempts are spent, one whose delay is too
  small for the jitter. Five statuses, one of each kind that `Do` or
  `statusError` tells apart for retrying, and five headers.
- `moddb_catalog`: two callers, who call again and again, two versions of the
  upstream, the second of them empty. Keys do not touch each other's state, so
  all callers of a behaviour use one key, plain or filtered, in two initial
  states. Two callers suffice for every race of a leader and a joiner; a third
  adds waiters who behave as the second.
- `locked_catalog`: two callers, three versions, the second empty; one key as
  above.
- `moddb_search`: lists of 0, 1 and 4 mods, five queries (a page of three, a
  page past the end or in the middle, a size out of range, two page numbers
  whose product with the size leaves an `int`, one for a negative place and one
  for a place of the list), two workers:
  more items than workers, as many, and fewer. `MaxInt` is 15.
- `moddb_details`: one mod that is renamed and one that takes its slug; two
  callers. To keep the graph small one caller has an unlimited context and asks
  for the slug only, and names nobody asks for do not expire.
- `modpack`: see above; versions have one number for major.minor.patch.

- `clients`: a policy of two attempts and the one of `auth`; a hint or none;
  three ways a request fails, of which one is transient. Two attempts are
  enough to tell "retried" from "given up", on each feed.
- `listings`: every three of nine versions (numbers, words, a `v` in front,
  zeros at the end, numbers past `MaxInt`), in every order of a map; every
  arrangement of up to three of six posts, two of twenty cards, four mods.
- `modinfo`: archives of three entries of every name, with a size and a stated size
  on either side of the limit (`MaxBytes` is 2), and archives of one entry with
  contents of every syntax.

The bounds are TLC's only. The theorems of section 5 hold for every set of
callers, keys, policies and headers, every number of versions and every width.

### Fairness

Weak fairness is given to steps that a running goroutine takes by itself:
storing an answer, sending a result, receiving it, the select arm of a finished
context. `net/http` aborts an exchange whose context is done, which is the
fairness of `HttpDo` and of `LockedCatalog` for such exchanges. In
`LockedCatalog` the mutex is strongly fair: `sync.Mutex` hands the lock to a
waiter that has starved for a millisecond. That the upstream answers, that a
live exchange ends and that a timer fires are never part of a specification;
the properties that need them (`EveryCallEnds`, `EveryCallReturns`,
`EverySearchEnds`) say so in their premise. The premise is justified by the
timeouts of the default client and transport (`vshttp.go` 164-196).

`ApiClients`, `Listings`, `ModInfo` and `Modpack` state no fairness: nothing in
them waits for another goroutine, and the liveness of a run of `Do` is
`http_do`'s.

Deadlock is checked in every passing run; a finished call of the modules that
model one call stutters in an explicit `Done` step.

## 4. Where the code and the repository's words differ

| run | the words | the code |
|---|---|---|
| `http_do_cancel` | "cancellation must not be retryable" (`vshttp_test.go` 292-293) | a body read broken off by a cancellation returns `Retryable: true` (`do.go` 49-54, 110); the test cancels before the call |
| `moddb_one_request` | "a cache miss under load causes exactly one upstream request" (`README.md` 83-85) | a caller that missed before a flight ended starts another one without a second look at the cache (`client.go` 244-256) |
| `moddb_search_items` | failed lookups "degrade the enrichment, not the result set" (`client_test.go` 194-195) | a deadline during the enrichment empties the page and Search succeeds (`client.go` 196-202, 521-523) |

Seen while modelling, without a run of their own:

- "concurrent calls for the same mod share a single upstream request"
  (`client.go` 360-362): flights are keyed by spelling; an ID and a slug make
  two (375). `RightMod` covers what follows.
- "concurrent callers share a single fetch" (`versions.go` 68-69,
  `servers/client.go` 56-57): nothing is cached after a failed fetch, and every
  caller in line fetches again (`versions.go` 72-79).
- Prerelease status of a target comes from the type "when it is provided and
  otherwise from the semantic version" (`modpack.go` 142-143). The choice looks
  at the version even when the type is given: a prerelease typed `stable` is not
  offered to a stable installation (157-162). The report's `Prerelease` looks at
  the type only (112): an untyped prerelease is reported as none.
- "Partial failures of those detail lookups are reported via
  SearchResult.Warning" (`client.go` 138-140): not over a stale catalog, whose
  warning is kept in their place (199-201).
- `dependencyDiff` (`modpack.go` 222-246) asks only the mod itself: a dependency
  that another mod of the build needs is listed for removal, and so are all of
  them when the latest version is missing from the list and is offered without
  a description (122-123). No text says otherwise.
- "An empty Info with a nil error is returned when the archive contains no
  modinfo.json" (`modinfo.go` 85-87): `ErrNoModInfo` is returned (110-112).
- "Keep the core fields" (`modinfo.go` 63-67): a field whose key is not in
  lower case is found by the strict parse and lost by the lenient one (68-70).

## 5. The proofs

`tlapm M.tla` checks each of these; `PROJECT.json` lists the theorems.

**`ApiClientsProofs`**, first part, proves all safety properties of `http_do` and
that `HttpDo` implements `RetryContract`. Assumptions: the default policy is positive,
`MaxDelay` leaves room for its jitter, headers and chains have their types. The
inductive invariant adds to the types the count of requests against the attempt
counter at each point of the loop (`CallCount`) and that a late request is the
last (`LateIsLast`): neither the budget nor the late bound is inductive alone,
because a step that sends looks only at the program counter. The delay bound
rests on a lemma about `backoff` for any width of duration, which holds because
truncation is applied before the cap.

Its second part proves all properties of `clients` for any policies and
upstream. It rests on the invariant of the first: a step of `Do` keeps it
by the lemmas there, and a second feed starts `Do` again. `Budgeted` carries
the cost of the first run over to the second, `FeedsAsked` its failures, and
`Judged` and `ReplyFits` tie a verdict and a sentinel to the reply that was
read.

**`ModdbCatalogProofs`** proves all safety properties of `moddb_catalog` and the
refinement of `CatalogPromise`. The invariant adds `Answered` (a flight that
has an answer has a version), `FlightData` (what a flight carries compared with
the cache: the answer is no older than what is cached until it is stored, and
equal to it afterwards), `SnapHeld` (what a caller saw is no newer than the
cache) and `RepliesFit`. `FlightData` is inductive because a key has one flight
at a time.

**`LockedCatalogProofs`** proves the same promise for the mutex, with
`Held` (a caller that fetches or has stored is the holder), `HolderData`,
`StoredFound` and `RepliesFit`; `NoFetchWhileFresh` follows because only the
holder writes the cache. That `servers` holds no page without listings
(`NoneRefused`) is kept by the guard of `Store` (`Acceptable`).

**`ModdbDetailsProofs`** proves all safety properties of `moddb_details` for any
directory and any renaming. The invariant `Holds` says that what a flight found
and what is cached carries the name it is held under; it is inductive although
flights write each other's names, since a write is checked against the answer
and never against the flight that made it.

**`ModdbSearchProofs`** proves all safety properties of `moddb_search`, for any
list, query, pool and width of `int` in which the longest list and one more
page have room (`SearchAssumption`). The invariant says which stages of the
feeder, the workers, the channels and Search's goroutine go together
(`Stages`), that an item taken lies before the feeder's next (`Taken`), that no
two places hold the same item (`Distinct`) and that the items before the next
one are those under way plus those collected (`Counted`). None of
`LookedUpOnce`'s parts is inductive: that the count is exact when the results
end needs that the feeder had offered everything. `PageAsked` needs no
concurrency but the laws of division (`DivUnique`) and that what fits is not
wrapped (`WrapFits`), proved from the axioms of integer arithmetic, and `Cut`,
which says what the result was cut from. `WarningIsExact` rests on `Counted`:
no failure is left uncounted when the results end, and on `ToEnrich`: only a
page with something to look up is enriched.

**`ModpackProofs`** proves all properties of `modpack`, for any build, any
catalog and lists of any length in any order. The heart is the loop of
`newestVersion`: after `n` releases, `BestOf` says that what was kept is an
update and that none of the first `n` beats it (`NotBeaten`), or that none of
them is one. Keeping the better of two is enough because precedence is a strict
total order of versions (`PrecedesLaws`) and "stable before the rest" is
compared first. `UpgradeIsUpdate` ties the code's `IsUpgradeTarget` to the
restated `Update`. `SelectKeepsPromise` carries this over to the choice between
the latest version and the newest, and the invariant `Inv` says of every entry
what its status means (`EntryMeans`), so that `UpgradesOnly`, `NoUpdateMissed`
and `BestIsOffered` are read off the entries. For `WholeReport` the entries are
split by status into sets whose sizes add up (`SummaryAdds`). Assumed of the
catalog: its lists are finite sequences of releases with versions of the three
classes.

**`ListingsProofs`** proves all properties of `listings`, for payloads of any
length and entries of any shape.

- Versions: `compareVersions` says newer of exactly the versions that are newer
  part by part (`CompareIsExpected`): the first place where two padded versions
  differ decides both, and `SplitType` shows that what `Atoi` makes of the digits
is what they read as. "Newest first" is strict and transitive, and so are its
  ties.
- Sorting: on all entries of a payload each comparison is a strict weak order
  (`SortsByStrictWeakOrder`), which is what `sort.SliceStable` requires, and the
  one a reader expects (`BeforeIsAhead`). `SortAlwaysEnds` shows that the
  contract taken for the sort can be met: the place of an entry is one more
  than the number of entries that must go before it, two entries have different
  places, and the inverse of that function is a sorted permutation.
- Reading: the invariant `Inv` says that what was kept is exactly what is wanted
  of the entries read so far, each once (`Collected`). That alone is not
  inductive: whether a post is a duplicate is decided by what is in the list,
  and only because entries are read in their order (`InOrder`) is an earlier
  post for the same article known to be in it (`KeptIsWanted`). `Increasing`
  carries the places up to the sort, where ties are settled by them.
- Pages: after `n` elements of a card, `ReadSoFar` says that the name is the
  last heading's and that no restriction was missed; `CardIsRead` is the loop.

**`ModInfoProofs`** proves all properties of `modinfo`, for any archive and any
contents. `Chosen` says of the entries looked at so far that none is better than
the one kept; `Returned` ties an info to the content it was parsed from, and
`ParseKeeps` compares the two readers on it: a file that fails the strict one
loses nothing unless the lenient one finds no field at all, which is an error.

Loops over a list are recursive functions of the number of rounds
(`best[n]`, `read[n]`, `out[n]`). The induction over the rounds is a lemma:
a set that holds 0, and with each round the next, holds them all
(`EveryRound`), since otherwise it would miss a smallest one. That such a
function exists, which the definition by `CHOOSE` leaves open, is `LoopExists`:
it is extended round by round, and `IsLoop` is what the proofs use of it. The two
modules with such loops each hold these lemmas, so that either can be checked
alone.

With these, every safety property that a run checks, invariant, action property
or refinement, is proved for every instance. What stays with TLC is liveness
(`Every...`, `Cancelled...`), since the prover has no rule for
fairness, and the three statements of section 4, which do not hold. The
theorems speak of the external parts as they are modelled (section 2): the
contracts of `singleflight`, `sort.SliceStable`, `net/http` and the JSON
readers are assumed by the models, not proved of those libraries.

## 6. What is not modelled

- The texts themselves: HTML, RSS and JSON, URLs (`canonicalArticleURL`,
  `resolveURLs`, `sanitizeURL` only by their effect or not at all), dates,
  summaries and their truncation, images, categories, file sizes, the spelling
  of `gameVersionParam`, `normalizeSemver`. They are local, sequential and
  unit-tested, and no other state depends on them.
- What `mapDetails` and the parsers copy from a reply into fields that decide
  nothing.
- Data races on configuration (`SetRetryPolicy` writes without a lock) and
  slices shared between the waiters of a stale flight: below the level of these
  models.
- Memory: the details cache is never trimmed.
- The text of errors, and `errors.Is`/`errors.As` over a chain: `news` joins two
  errors, of which `errors.As` finds the first; the model keeps both.
- The construction of default clients and transports.

## 7. What could follow

`ModdbSearch` composed with `ModdbDetails` (the workers of a page as callers of
`Get`) multiplies two of the largest graphs; each of the two properties it
would join, one lookup per item and the right mod per name, is proved for every
instance on its own, so the composition was left. `normalizeSemver` could have a
model of spellings, so that `VersionEquals` and `CompareVersions` can be
compared on them.

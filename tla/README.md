# looking-glass: TLA+ models and proofs

A verification project for the master of looking-glass, one Go process that runs
network diagnostics for visitors, streams the results to their browsers, and keeps the
results they ask to keep. The modules are written from `src/`; this file says which part
of the program each one models, what TLC checks, what TLAPS proves, and what is left out.

    tlc -config RateLimiter.cfg MCRateLimiter.tla      # any run below
    tlapm RateLimiterProofs.tla                        # any *Proofs module

`PROJECT.json` lists runs, the source lines of every definition (`map`), the hazards of
the code with the properties that cover them, the findings, the main theorems, and for
each property a *mutant*: an operator, kept in the modules next to the definition it
spoils and marked `fault:`, under which the property is violated. Mutants show that a
property depends on the code; no run uses them otherwise.

## 1. Inventory of the system

| Part (source) | State | Operations | Interacts with | Hard behaviour | What makes it right |
|---|---|---|---|---|---|
| Report store (`report/store.go`, `id.go`) | directory of `<id>.json`, counter `active`, mutex `mu` | `Promote`, `Get`, `sweepLoop`, `NewStore` | promote and read handlers | cap test, increment, write and rename interleave with a sweep that overwrites the counter; disk errors, crashes | a returned link opens for 24 hours, no half-written report is ever read, slots neither leak nor vanish, at most 2000 active |
| Ephemeral cache (`report/ephemeral.go`) | map id -> result, mutex | `Put` (evicts the oldest), `Get`, `sweepLoop` | every capture, `Promote` | a full cache; clock read before the lock; equal timestamps | bounded; a result is promotable for 30 minutes unless crowded out by newer ones; everything is forgotten |
| Permanent-link handlers (`handler/report.go`) | none of their own | `Promote`, `ReportRead` | limiter, cache, store | entry evicted or swept between read and write; lost answers and retries | a link opens the result asked for; "not available" has a reason |
| Rate limiter (`ratelimit/limit.go`) | map address -> bucket, lock `l.mu`, lock per bucket | `Allow`, `cleanup` | every handler; a second one for promotions | lookup and use under different locks, deletion of a stale bucket in between | a lazily refilled bucket behaves as a token bucket; no starvation |
| Admission (`handler/handler.go`) | 30-slot channel, `ipSem` sync.Map of capacity-1 channels | select, `acquireIP`, `releaseIP`, `cleanupIPSem` | ping, traceroute, dig, proxy, port check | entries deleted while requests use them; release through a fresh lookup | no slot lost, nobody locked out, one request per address |
| Streaming probes and capture (`handler.go`, `proxy.go`) | scanner position, capture, response | `Ping`, `Traceroute`, `Proxy`, `beginCapture`, `finishCapture` | admission, cache, subprocess or agent, browser | client leaves, probe hangs, agent's stream breaks, in any order | what is cached is what was shown, whole, and promised results are kept; streams end |
| Fan-out (`proxy.go`, `handler.go`) | results slice, WaitGroup, 8 tokens | `PingAll`, `HTTPCheckAll`, `PortCheck`, `Dig`, `Nodes` | agents or resolvers, liveness, cache | join of bounded goroutines, no client context; shared slice and, in Dig, shared response | each node's answer in its own place, written by nobody when the reply is; the join ends |
| Agent registry and liveness (`nodes/`) | `live`, `misses` | `StartHealthChecker`, `checkOne`, `recordFailure`, `recordSuccess`, `IsLive`, `LiveNodes` | fan-out, proxy | results out of order, nodes sharing an ID, stale reads | dead after 2 consecutive misses, alive after one answer |
| BGP table, reload (`bgp/store.go`) | table pointer | `NewStore`, `Start`, `load`, lookups | file replaced by cron | poll by mtime, open, stat and a long read in pieces while the file changes | a table once there is never lost; the newest file is loaded in the end; a table is one whole file if the writer renames |
| BGP table, trie (`bgp/trie.go`) | binary trie | insert, lookup | reload, handlers | v4-mapped prefixes, several routes of a prefix | longest-prefix match |
| GeoIP (`geoip/geoip.go`) | tries and tables, immutable once loaded | `Open`, `csvLineReader`, lookups | handlers | quotes and newlines across buffer ends, file that breaks off | all or nothing; longest-prefix match |
| Lookup handlers (`handler.go`) | none | `BGP`, `IPInfo`, `Info`, `SSLCheck` | tables, cache | the table swapped during one answer | every answer right for a table in use meanwhile; the pages agree |
| Process (`main.go`) | - | wiring, 30 s shutdown | all | streams outlive shutdown | what must be up is up before serving |
| Validation, client address (`validator/`, `handler.go`) | none | pure functions | all handlers | DNS answers | - |
| Web front end (`web/`) | current result ids, EventSources, timers | one function per tab | HTTP API | answers of an older run arriving in a newer one, EventSource reconnects | a link belongs to the result on screen |
| Agents, offline data tools, nginx, CDN | - | - | - | - | not in this repository |

## 2. Modules

A component has a module `X` (state, `Init`, one action per step of the code, `Next`,
`Spec`, properties), an `MCX` that TLC runs unless a composition runs it, and mostly an
`XProofs` with the theorems. Three modules compose others:

    LookupService      = BgpTable (on PrefixTrie) + GeoDatabase (on PrefixTrie) + IPInfo, BGP, Info
    FanOut             = AgentLiveness + the handlers that ask agents or resolvers
    PermanentLinkFlow  = EphemeralCache + Promote + PermanentLinks, which ReportStore implements

### Links and results

**ReportStore** models `Promote` in its real steps. `CheckCap` and `Reserve` are the test
and the increment under `s.mu` (the sweeper's unlocked `Store` can come between them);
`NameReport`, `BeginWrite`, `EndWrite`, `Rename` and `Return` the way to a published file;
`NameFails`, `WriteFails`, `RenameFails` and `Undo` every error path. The sweeper is
`SweepBegin` (cutoff and `ReadDir`), one `SweepKeep`, `SweepRemove` or `SweepSkip` per
file, and `SweepStore`, the blind overwrite of `active`. `Crash` loses memory and keeps
the directory, `Restart` is `NewStore`. `blurred` and `drifted` are history variables:
whether a count overlapped a promotion or a read error, and whether that count is the one
in use. **PermanentLinks** is the abstract specification: a link appears whole, opens
until it is `TTL` old, then never again. ReportStore implements it with `shown` as the
set of ids for which `Get` succeeds.

**EphemeralCache** models `Put` with its eviction, the sweep in its two steps (cutoff
from the clock, then the lock), and time. Entries put within one tick have equal
timestamps and any of the oldest may be evicted, as Go's map order decides. `since` and
`lost` are history variables.

**PermanentLinkFlow** is the way of a result to a link. `Ask`, `Refuse`, `Find` or
`NotFound`, `Reserve`, `PromoteFails`, `Publish` and `Return` are `Handler.Promote`;
between any two of them the cache entry may be evicted or swept (`Capture`, `CacheSweep`),
other requests run, and time passes. Any id may be asked for, also one that was announced
and is not put yet, and the same again after an answer, which is the retry of a lost one.
The store is what PermanentLinks promises, plus what each report holds.

### Admission

**Admission** models a request's way through both semaphores: `TakeSlot`; `LoadEntry` or
`StoreEntry` (`LoadOrStore`); `Touch`; `Acquire` or `Refuse`; then `Release` (the fresh
`Load`), `Drain`, `FreeSlot`. The cleaner tests and deletes in two steps. The entry of an
address has *generations*, so that a request can hold one the map has dropped. `raced`
is a history variable: addresses whose entry was deleted under a request still around.

**RateLimiter** models `Allow` as `Lookup` (read lock), then `LookAgain` or `Create`
(write lock), then `Grant` or `Deny` (bucket lock), and `cleanup` under `l.mu` with its
test and its deletion apart. Tokens are integers of a small unit, so that 20 a minute and
10 an hour have no fractions. `ideal` is a history variable: the token bucket of the
documentation, against which the lazily refilled one is compared part for part.

### Checks

**ProbeStream** models one streaming check with three parties that move independently:
the probe (`WriteLine`, `End`, `Close`, `Cut`), the handler (`Begin` to `Finish`), and
the client (`Disconnect`, and net/http's `Notice`). `proxied` says at the start whether
the probe is a subprocess or an agent; an agent's stream has a blank item after every
event and a final `[DONE]` or `[ERROR]`. `Cut` is every premature end: the request's
context, the 60, 120 or 130 s timeouts, a broken connection. `[ERROR]` and `[DONE]` of an
agent are one item, the marker, because the code treats both as the end.

**AgentLiveness** is the health checker: `StartRound` when the round before has been
waited for, `CheckOne` per entry in any order, each answer recorded by
`RecordSuccess` or `RecordFailure` *by ID*, as the code keeps it. The list as shipped has
four entries of one ID, so `idOf` is any function. `failed` is a history variable:
consecutive failures by entry, against which the marks by ID are judged.

**FanOut** adds the handlers that ask and wait: `PingAll`, `HTTPCheckAll`, `Dig` and
`PortCheck` begin; goroutines `Take` one of the tokens, are `Answered` or time out, in
Dig with `debug=1` may still write a line to the response (`telling` to `Told`), and end;
`ReplyAll`, `ReplyDig` and `ReplyPort` come after the join. Six kinds of answer are told
apart because the handlers do, each in its own way (`PingStatus`, `HTTPStatus`,
`PortStatus`, `DigStatus`). Agents fail and recover and the checker runs meanwhile.

### Tables and lookups

**PrefixTrie** holds insertion and lookup of both tries as functions of a trie, which is
itself a function from nodes (bit strings) to what they hold.

**BgpTable** is the poll (`Poll`) and the load (`Open`, `Stat`, `FirstRead`, `Decode` or
`DecodeMixed`, `LoadFails`) against a writer that may, at any moment, rename a file over
the old one, remove it, or truncate and rewrite it in place. A descriptor follows the
file it opened and not the path (`fd`, `old`). The decoder reads some 260 MB in pieces,
from `FirstRead` on; if the file was written in place since then (`mixed`), what it
decodes is any table of `Decodable`, of which whole files (`Contents`) are some, or
nothing. The documented converter renames (`bgp-data.md:91`), but the code does not
depend on it: `BgpSpec` has both writers, `RenameSpec` only the one. `newest` and
`backdated` are history variables. The table itself is a function of what was decoded;
`LookupIP`, `LookupPrefix`, `LookupASN` and `RouteCount` are the
lookups.

**GeoDatabase** reads a file symbol by symbol: `Read` hands `csvLineReader` a buffer of
any size, `Consume` and `Blank` are its state machine, `Row`, `LastRow`, `StreamError`
and `EndOfFile` what encoding/csv and `loadFile` make of the bytes it passes on, `Break`
an error of disk or gzip. A file is a sequence of kinds of lines, each ended by LF or by
CRLF, the last perhaps not (`LastLines`); csv goes by whether the quotes so far are
even or odd (`InQuotes`), csvLineReader by a state of its own. `GeoTrie`, `AsnIdx`,
`Lookup` and `LookupASNRecord` are the database.

**LookupService** boots them in `main`'s order, then serves: `Ask`, `DescribeNext` per
address and `Reply` are `IPInfo`, which reads the table anew for each address while
`Reload` runs. `BGPReply` and `InfoCount` read it once and are operators.

### How they meet

A request passes RateLimiter, then Admission, then is a ProbeStream or a FanOut, whose end
is a `Capture` of PermanentLinkFlow; a promotion of that enters ReportStore. Where two
are not composed, each is modelled with an environment that may do anything at that
point, so that what holds of a component holds beside the others. Admission assumes of
the checks that a running request ends long before half an hour (its entry cannot become
stale meanwhile, and `BusyClears`): a check times out after at most 130 seconds, and
`WriteTimeout` (`main.go:82`) ends a write that its client stalls. `StreamEnds` and `FanOutEnds` are that assumption's liveness
part.

## 3. Runs

| Run | Instance | Shows |
|---|---|---|
| `store` | 2 promoters, 2 ids, cap 1, lifetime 1 tick, read errors, crashes | the counter covers reports (`CounterCoversReports`), no slot leaks, returned links open, PermanentLinks is implemented, a full store has room again without a restart |
| `store_cap` | 3 ids, cap 2, no read errors | **violation**: more reports than the cap |
| `links` | 3 results, cache of 2, 2 promotions at once, 1 report | an answered id opens what was asked for (`LinkOpensResult`), "no longer available" has a reason, the cache does not notice promotions, loses results only to a crowd and forgets them all |
| `admission` | 3 requests, 1 address, 2 slots | slots match requests, nobody is locked out, one at a time unless raced, busy ends |
| `admission_per_ip` | 3 requests | **violation**: two active requests of one address |
| `limiter` | 2 callers, 1 address, burst 2, half a token a tick | never overdrawn, exact bucket unless raced; a poller is served |
| `limiter_burst` | 2 callers | **violation**: more than the burst |
| `stream` | subprocess or agent, up to 4 lines | cached as shown, agent's results whole, a subprocess's result kept, streams end |
| `stream_cut` | up to 2 lines | **violation**: a disconnect's torso is cached |
| `stream_dropped` | up to 2 lines | **violation**: a complete agent result is dropped |
| `tables` | addresses of 2 bits, 2 tables and one mixed of them, GeoIP files of up to 3 lines, 3 addresses asked | a new file never looks old to the poll, nor a mixed table new; one table always served and the newest in the end; routes and records against reference definitions; all or nothing of a GeoIP file; IPInfo right for a table in use meanwhile; the pages agree |
| `agents` | 2 entries of one ID or two, 1 token, 6 answers | marks follow the misses and in the end the agents, replies are whole, tokens come back, requests end |

*Why the bounds are enough.* Two promoters and a sweeper give every pair of races in
`Promote`; a third adds no step, only more of the same. A cap of one is met by the second
of two; the violation needs a third id. One address is enough for admission and limiter,
because addresses share only the slots and the locks. A new generation must be free of
callers, each of whom holds at most one bucket, or two entries: with as many buckets as
callers, and one entry less than twice the slots (`GenAssumption`), there always is one,
which `NeverShortOfBuckets` and `NeverShortOfEntries` prove. Three requests for two slots meet
both a full semaphore and a busy address. A staleness of four ticks fills the bucket of
four parts exactly, the tightest case the code has (below). Four lines put the cut, the
marker and the disconnect before, between and after lines. Three results for two places
evict, and let the wrong one be evicted. One report serves both promotions in turn, so
that ids expire and are used again; two being written at once are left to the proof. Two
entries with one ID, or two, are every way of sharing; one token for two goroutines makes one wait. Two clock
values tell an older mtime from an equal and from a newer one, two tables the old from the
new, and a third, of pieces of both, one that no file held. Two
bits have all relations between prefixes (default, nested, disjoint, host).
Buffers of one to four symbols end at every place within a CRLF, a doubled quote and a
quoted newline. The proofs remove the bounds for the safety properties they cover.

*Bounds in the models.* `age` stops one past the largest age the code tests (`TTL + 1`,
`LinkTTL + 1`, `StaleAfter + 1`); `since` stops at `MaxSize`; `misses` and `failed` stop at
`DeadAfter`; `size` in `csvLineReader` stops at 2, where the code tests 0 and 1; `ideal`
stops at minus one burst (`Charge`, only reached by raced addresses); `MaxLines` bounds a
probe's output, `MaxTime` the writer's clock, `ReadMax` a buffer, `MaxTargets` and
`MaxRoutes` are the code's own caps; `Id`, `Gen`, `Request`, `Caller`, `Promoter`,
`Client`, `Link` bound what is alive at once, and ids and generations are used again once
nothing refers to them. The BGP file is not replaced before serving begins, when nothing
yet reads the table twice. In the `tables` run the file at
start is the first table or none, and a GeoIP file is a header with up to two lines of any
kind, of two records only the pairs that share a network or are nested, or one of three
files that do not begin with a header.

*Deadlock* is checked everywhere but in ProbeStream, whose handler returns.

*Fairness.*
- Store: a promotion that has begun goes on (disk calls return, with a result or an
  error), the sweeper's ticker fires and its `ReadDir` sometimes succeeds, time passes,
  the service is restarted. Clients owe nothing: nobody need ever promote again.
- Links: time passes, the ticker fires, the mutex is handed over.
- Admission: a request that got in runs on. No semaphore blocks (all are tried with
  `default`), and the probe between `Acquire` and `Release` ends by its timeout.
- Limiter: time passes, the cleaner's loop, which holds `l.mu`, finishes, and
  `sync.RWMutex` hands the lock to those who wait. `l.mu` is taken and freed again and
  again, so a waiting call is enabled infinitely often but not always: strong fairness.
  `PollerServed` also assumes the client whose property it is, one that keeps asking.
- Stream: the handler runs on and the timeout fires. Nothing of probe, agent or client.
- Tables: the boot goes on and the ticker fires. A disk that now and then refuses an
  open, a stat or a read does not refuse each time: strong fairness of those steps.
  `NewestServed` itself assumes a file that stays.
- Agents: the checker's goroutine runs and every check and request has a timeout; some
  goroutine of a request that can run does. Agents and clients owe nothing.

## 4. Findings

Each is the counterexample of a violation run.

1. `store_cap`: the sweeper stores the count of what it listed, and thereby forgets
   promotions reserved or published since. Later promotions pass the cap test. The docs
   say 2000 active reports, never more (`store.go:176`). `CounterCoversReports` says how
   far it can go wrong: only by what overlapped the last count.
2. `admission_per_ip`: the cleaner deletes an entry between a request's lookup of it and
   its use; a brand-new entry counts as unused since 1970 until `Touch`
   (`handler.go:107`). A second request of that address gets a channel of its own.
   `ExclusiveUnlessRaced` and `NoStrandedToken` say that nothing worse follows: the
   exception ends with the requests concerned, and nobody stays locked out.
3. `limiter_burst`: a bucket tested as stale is charged and then deleted; the next call
   makes a full one (`limit.go:86`).
4. `stream_cut`: for local probes a disconnect kills the subprocess through its context,
   `Scan` sees the end of the output, and what there is gets cached as a result, which
   the comment at `handler.go:215-217` excludes. Dig does likewise: its queries are killed
   and what came so far is cached (`ReplyDig`).
5. `stream_dropped`: the agent's `[DONE]` is followed by a blank line, and the handler
   tests the context before it has cached the result (`proxy.go:176-178`). The page
   closes its EventSource on `[DONE]`, so the window is open in every proxied traceroute.

Noted while modelling, without a run of their own:

- A client learns `[DONE]` before the result is in the cache (`handler.go:354-355`): a
  promotion sent at once can be told the result is no longer available. In
  PermanentLinkFlow this is an `Ask` before the `Capture`.
- Entries that share an ID share its counter, so one dead agent of two makes the mark
  come and go; `DeadWhenMissed` and `Recovered` say how far this goes: again and again,
  never for good.
- PingAll takes JSON without an `error` for an answer, whatever else is in it
  (`PingStatus`).
- `ARCHITECTURE.md:32` says the table is reloaded "whenever its mtime changes"; the code
  asks for a *later* one, so that a file with an older mtime is not picked up. That is
  `backdated`, and the only way a whole file is overlooked (`NothingHidden`).

## 5. Proofs

Theorems hold for all values of the constants that meet the assumptions in the modules:
`Nat \ {0}` for caps, lifetimes and rates, finite sets where the code counts, `None`
outside the sets it is added to. One assumption is about the deployment: `StaleIsFull`,
half an hour refills any bucket. `main.go` makes limiters of burst 5 at 20 a minute and of
burst 3 at 10 an hour, which refill in 15 seconds and 18 minutes; with a limiter that
refills slower, deletion of a stale bucket would forgive debt.

| Module | Theorems | Inductive invariant, and why it is needed |
|---|---|---|
| ReportStoreProofs | `TypeCorrect`, `NeverTorn`, `AckedStaysReadable`, `CounterCovers`, `GrantsHaveRoom`, `SlotsNeverLeak`, `StoreImplementsLinks` | `FileInv`: what each promoter knows of its files (fresh id, complete `.tmp` before the rename), that ids in use differ, that the sweeper's list is of files and its stale ones have expired. Without it a rename could publish a part, or a removal hit a young report. `CountInv`: the set counted so far lies within the files, and if the count is not blurred nothing is in flight and every live report is counted or listed; so the number stored is neither too low nor too high |
| AdmissionProofs | `TypesCorrect`, `SlotsCorrect`, `NeverLockedOut`, `OneAtATimeUnlessRaced`, `RunningRefuses`, `NeverShortOfEntries` | `TypeInv` counts the slots with the types, and thereby the entries requests refer to (`EntryLeft`). `RaceInv`: at an address without a race every request holds the entry in the map (`SameEntry`), so that the channel's single token decides between them |
| RateLimiterProofs | `TypeCorrect`, `LimiterIsExact`, `NoOverdraft`, `DenialsAreDue` (an action property), `NeverShortOfBuckets` | `BucketInv`: without a race callers hold the bucket in the map and its level equals the ideal one. `CleanDelete` keeps this because a stale bucket is full, which is where `StaleIsFull` enters |
| ProbeStreamProofs | `TypeCorrect`, `CachedIsShown`, `AgentResultsWhole`, `LocalDoneIsKept` | `ShownInv`; `AgentInv`: the position in an agent's stream determines the lines captured (half of it, rounded up, before the marker; all of them after), so the marker proves completeness; `DoneInv` |
| PermanentLinkFlowProofs, the cache alone | `CrowdCorrect`, `CacheTypes`, `CacheBounded`, `YoungLostOnlyToACrowd` | `CrowdInv`: every young entry has counted the entries not older than it. When the oldest of a full cache is evicted, all others are such entries |
| PermanentLinkFlowProofs, the composition | `PromoteIsAStutter`, `FlowLosesOnlyToACrowd`, `FlowTypesCorrect`, `LinksOpen`, `NotFoundIsTrue` (an action property) | `FlowInv`: a request's copy is of what it asked for, its report holds that copy, and no two requests make one report (`OwnReport`); without the last, a failure of one would empty the other's. `Remembered`: a young result is in the cache or was evicted. Everything proved of the cache alone is carried over by `PromoteIsAStutter` |
| FanOutProofs | `CheckerUndisturbed`, `MarksCorrect`, `DeadOnlyWhenMissed`, `FanOutCorrect`, `TokensComeBack`, `RepliesWhole` | `MissesCount`: the misses of an ID lie between what its entries' failures account for, which is all that can be said when they share it. `TokensAccounted`: tokens taken are goroutines asking or telling. For replies: who is done has its answer in its own element |
| BgpTableProofs | `BgpTypeCorrect`, `OnlyWholeTables` (of `RenameSpec`), `PollSeesNewFiles`, `NeverWithout` (an action property), `LongestPrefixMatch` | `MtimesGrow`: the mtimes of whole files grow along the path but for backdated ones; what is open was whole before its successor; the mtime taken of it is no later than its last; and that of a file written while it was read is earlier than that of the file when it is whole. So a table, whole or mixed, is never recorded with a later mtime than its file's, and a successor is newer. `OnlyWholeTables` adds that without a writer in place no file is `mixed`. `LongestPrefixMatch` needs of the behaviour only that a table is a sequence of routes; the rest is about data, see below |
| LookupServiceProofs, the file | `WholeFiles` | `ReadSoFar`: until a blank line is reported or the stream breaks, what csv holds and what is left of the file are together its last lines, the rows are the lines before them, and csvLineReader is where it would be had it begun with csv's buffer (`InStep`); of a sound file it reports no blank line. `AllOrNothing` says nothing of a load under way, and both readers could be anywhere |
| LookupServiceProofs, the service | `TableUndisturbed`, `TableServed`, `ServiceTypes`, `NearestRecord`, `RightWhenSaid`, `OneAnswer` | `ServiceInv`: the invariant of the table, the types, and `AnsweredSoFar`: each description given so far is right for a table in `seen`, and the table in use is in `seen` while a request runs. `SaidInTime` says so of complete answers only, which no step could keep. Everything proved of the table alone is carried over by `TableUndisturbed` |

The proofs follow one pattern: `Init` implies the invariant, each action preserves it (a
step or a lemma per action), the invariant implies the property; PTL draws the temporal
conclusion. `StoreImplementsLinks` maps each step: `NameReport` to `Capture`, `Rename`
to `Publish` (or a stutter, if the report has outlived its time before it was
published), `SweepRemove` to `Expire`, `Tick` to `Tick`, all others to stutters.

*Tries and indexes.* `LongestPrefixMatch` and `NearestRecord` are about functions that
the modules define by recursion, over a sequence of routes or along the bits of an
address. The library's induction theorems take an operator as a parameter and cannot be
used; those that take a set can. `Least` (every set of naturals has a least member, from
`NatLessThanWellFounded` and `WFMin`) gives `UpTo` and `Sequences`, induction for the
members of a set, and `Recursion`, that a function which is the `CHOOSE` of a recursive
equation satisfies it, because some function does. The path through a table is then: what
`Insert` and `Overwrite` do to each node (`InsertHolds`, `OverwriteHolds`); by induction
over the routes, that a node holds the routes of its prefix in the order of the file
(`TableHolds`) and the AS index those through the AS (`ByASNHolds`); by induction over
the bits, that `LongestPrefix` ends at the longest prefix that holds something
(`LongestPrefixHolds`). A reference definition filters with `Only`, a recursive function,
where one would write `SelectSeq`, whose library definition the prover cannot expand.

*The two readers of the GeoIP file.* `WholeFiles` is the argument that csvLineReader does
not misread what encoding/csv will make of the same bytes. On a well-formed line its four
states say whether the quotes so far are odd, and if not, what came last
(`InTuneThroughout`, by induction over the line); so after the newline it is as at the
beginning (`LineRead`), wherever buffers ended, since reading two texts is reading both
together (`AfterBoth`). csv's rows are then the lines: no row ends within a line, and one
ends with it if its quotes are even (`RowIsLine`). A line that is not well-formed may run
on into the next ones, but then what csv takes is no header or record (`TakenOther`,
`KindOfLonger`), and a blank one reaches csv only as the last, without a newline
(`TakenBlank`, `TakenNothing`). `NextLine` puts these together for one step of the loader,
`SoundRead` follows the reader to the end of a sound file.

What it assumes of files is `LinesAssumption`: newlines within a line are within quotes (as
for a line to be one), header and records have quotes around whole fields or doubled, and
no line is of two kinds or the beginning of a record of several lines. Which of LF and
CRLF ends a line is up to the line.

The assumptions the other theorems about tables use: a table is a sequence of routes of a prefix (or one
that `ParseCIDR` refuses) and a path, a record's network is a prefix, and `None` is none
of a file, a record or a question.

Some theorems are about invariants that no run lists, because they follow from others or
were only steps on the way: `NeverTorn`, `GrantsHaveRoom`, `RunningRefuses`,
`DenialsAreDue`, `CacheBounded`, and the tokens in `TokensComeBack`; or because they are
about the model's bounds (`NeverShortOfEntries`, `NeverShortOfBuckets`).

Only model-checked: the liveness properties (`CapacityReclaimed`, `BusyClears`,
`PollerServed`, `StreamEnds`, `Forgotten`, `MarksFollow`, `FanOutEnds`, `NewestServed`),
which need fairness and are out of the prover's reach, and the violations. Every
invariant of the passing runs is proved, and so are their action properties.

## 6. Abstractions, and what is not modelled

- Results, lines, names and addresses are members of sets or numbers; JSON, HTML and
  wording are left out. A line of a probe is never longer than the scanner's 64 KB, and an
  agent's stream that is cut in the middle of a line gives what there is of it as a last
  line (`bufio.Scanner` does), which counts as the line: it is sent and captured alike,
  and what is cut off before its marker is not cached. Of the marker itself `[ERROR]` is
  enough.
- One program writes the BGP file at a time, and a file that has been replaced or removed
  is not written any more. What a file read while it is written in place decodes to is any
  member of `Decodable`, more than the bytes of the two contents could give.
- The five handlers that use the semaphores have the same lines for it, which are one
  path in Admission: a handler that forgot to defer its release would not be found.
- Floating-point rounding of tokens; the two locks of the limiter are otherwise exact.
- A crash is one of the process. A power failure, after which an unsynced file may be
  empty, is a hazard listed without a property: the store never syncs, and no document
  says otherwise. Nor is a `.json.tmp` that a crash leaves behind: it is never read, and
  never deleted.
- `NewID` never returns an id that is in use (160 random bits).
- Requests turned down before the semaphores (validation, the limiter) change nothing
  beyond the limiter's bucket, and do not appear in Admission. In FanOut and
  PermanentLinkFlow they are one step, `Refuse`.
- Fan-out requests are followed one at a time: they share only Admission's tokens and
  the marks, which they read once.
- Dig's goroutines write debug lines to the response without a lock. That two of these
  lines race is in the model (two goroutines in `telling`), not in a property: the code
  does nothing against it. That the handler's own lines come later is `ReplyWhole`.
- A prefix in a table is given in canonical text, so that equal networks are equal
  strings, as `LookupPrefix` compares them. IPv4-mapped prefixes, which `ParseCIDR`
  shortens to four bytes under a 128-bit mask, are a hazard without a property: the model
  has one width of addresses.
- A subprocess that is killed on an early return is never waited for (`handler.go:345`):
  the zombie left behind is the operating system's, outside the model's state.

Not modelled:

- `SSLCheck`: one TLS handshake, and a second one without verification, described to the
  client; no state but the captured result, which is a `Capture` like any other.
- The uncaptured proxied port check, which passes bytes through.
- Shutdown: `Shutdown` waits 30 s where a stream may take 130 s, and the process ends
  with its state, which is the `Crash` of ReportStore.
- Validation and client address: regular expressions, DNS and header parsing over
  strings, without state.
- The web front end: rendering, and timers and EventSources whose effect on the server
  is a client that leaves or asks again. `EventSource` reconnects of the browser begin a
  new request.
- Agents, data tools and proxies, whose code is not in the repository.

## 7. Plan

Done: every part of the server that keeps state, in the order store, admission, limiter,
streams, cache, permanent links, agents, tables, and a proof of every safety property the
passing runs check. What is left, most valuable first:

1. The composition of Admission with the checks it admits, to replace the assumption
   that a running request ends long before its entry is stale.

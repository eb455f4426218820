# TLA+ models of the order matching engine and market-data feed handler

This directory holds TLA+ specifications of the repository's own logic, TLC
configurations that check them on small instances, and TLAPS proofs of most of
their safety properties for every value of the constants. Paths below are relative to
the repository root; `README:n` is line n of the repository's `README.md`. `PROJECT.json` maps every definition
that models code to its lines.

Contents: [The system](#the-system) · [Modules](#modules) · [Runs](#runs) ·
[Fairness](#fairness) · [Proofs](#proofs) · [Disagreements](#disagreements-between-the-code-and-what-is-said-of-it) ·
[Not modelled](#what-is-not-modelled) · [Plan](#plan)

## The system

Two processes. `mdsim` is a market-data simulator; `me_pipeline` holds a live
book fed by it, a matching engine, and a validator that compares the live book
with the simulator.

```
  mdsim ──PUB/SUB (L1, L2 deltas)──▶ subscriber ──MDRing──▶ consumer ─▶ OrderBook
    ▲  ◀──REQ/REP (snapshots)──────── (LocalBook)                          │
    └───────────REQ/REP (snapshots)──────────── cross-validator ◀──────────┘
  main ──OrderRing──▶ engine worker (EngineBook) ──ExecRing──▶ main
  main ──stop flag──▶ every thread, then join
```

| Component | Source | State | Operations | What makes it correct |
|---|---|---|---|---|
| Matching engine | `engine/src/EngineBook.cpp` | `bids_`, `asks_` (price → deque of nodes), `loc_` (id → side, price, index) | `on_new`, `on_cancel`, `on_replace`; reports through a sink | never crossed; price and time priority; what is reported adds up; cancel and replace reach the order they name; no crash |
| SPSC ring | `include/trading/containers/SpscRing.hpp` | `head_`, `tail_`, slots | `try_push`, `try_pop` | no data race; a bounded FIFO; what is published is received |
| Engine worker and main thread | `engine/src/MatchingEngineWorker.cpp`, `app/src/me_pipeline_main.cpp` | rings, stop flag | pop and dispatch, push reports; submit, observe, stop, join | the main thread's picture of an order is ordered and not ahead of the engine; shutdown ends |
| Simulator | `feed/src/MDSim.cpp` | levels, `seqno`, last L1 | edits with clamp, repair, L1 conflation, snapshot server | book never crossed; one number per delta |
| Subscriber | `feed/src/ZMQFeedSubscriber.cpp` | `LocalBook`, SUB and REQ sockets | drain, two-part snapshot, apply, gap → snapshot, push to MDRing | the local book is the simulator's at the number it claims; gaps are repaired; stops |
| Consumer | `engine/src/MDToOrderBookConsumer.cpp` | metrics | apply delta twice, compare hashes, validate | the book is the simulator's at the last delta applied; no invariant failure while healthy |
| OrderBook | `include/trading/engine/OrderBook.hpp` | levels with aggregates and fifos, `l3_index_` | L2: upsert, erase; L3: add, cancel, replace; snapshot | aggregates match the orders; iterators live; repeated deltas harmless |
| Cross-validator | `app/src/BookCrossValidator.cpp` | REQ socket, `xval_*` counters | snapshot, wait, compare | it runs; a mismatch means a mismatch; it harms no other thread |
| Rest | `oi_cli`, `md_record`, `md_replay`, `md_sub`, `EngineWorker.cpp`, `MDBookConsumer.cpp`, benchmarks, tests | | | see [Not modelled](#what-is-not-modelled) |

What is hard here:

- the engine keeps *indices* into deques that shift (`pop_front`) and are
  permuted (`erase_at` swaps with the back), so long legal command sequences
  reach states no short test sees;
- the threads of `me_pipeline` share lock-free rings whose counters each side
  sees late, and every `try_push` result is thrown away;
- the feed loses messages, takes a snapshot in two parts at two different
  sequence numbers while the stream goes on, and a REQ socket whose reply did
  not come cannot be used again;
- two requesters share the snapshot server, and the thread of one of them lets
  exceptions through to `std::terminate`;
- shutdown is a relaxed flag raised at any moment.

`PROJECT.json` lists these as hazards, each at its line with the properties that
would catch it going wrong.

## Modules

Names follow the source. A module's header comment says what was abstracted.

### EngineBook, EngineSession, PriceTimeBook

`EngineBook` is class `EngineBook`. `levels` and `queue` are the two maps: keys
and deques are separate because `operator[]` creates keys with empty deques.
`loc` is `loc_`, stale indices included: no step re-indexes what the code
does not re-index. A handler is cut at each call of the sink (the places where
other threads see it move), with `pc`, `taker` and `replacing` as its locals:
`OnNew`, then one `Match` per turn of `match_buy`/`match_sell`, then `Rest`,
`Complete` or `Abandon`; `OnReplace` enters `on_new` in the same step as it takes the order out and
ends with `PublishReplaced`. `OnCancel` is one step. `Ignore` is the early
return for an id that `loc_` does not know.

Two places have undefined behaviour. (1) `erase_at` erases the victim's entry of
`loc_` (line 137) and `on_cancel`/`on_replace` erase through their iterator to
that same entry again: `Dangles` says when, and `DanglingErase` is the set of
outcomes considered, `"crash"` (the action `Crash`) and `"survive"` (nothing more
is erased). Both are taken in the invariant runs and the proof, so what holds
does so whichever the build does; with g++ 12 and libstdc++ the process was seen
to die. On a cancel, `erase_at` moreover reads on through a reference into the erased entry; `"survive"`
takes it to read the values that were there. The violation runs about the engine allow `"crash"`
only, so their counterexamples use no undefined behaviour. (2) `on_replace` reads the node at the index before any
range check: past the end it yields any member of `GarbageNode` (an
arbitrary set in the proofs) or `Crash`. Quantities are naturals: the only
subtraction that could wrap is saturated in the code, and `TypeOK` (no quantity below zero) is what
shows that the others do not.

Prices are renumbered `0 .. MaxPx` with their order kept; `kNoPrice`, the
least `int64`, is 0. Clients, accounts, instruments and time in force are never
read by the engine and are left out.

`EngineSession` adds history only: clients number their orders 1, 2, 3, ...; the
variables `accepted`, `executed` and `canceled` are computed from the
ExecReports, `asked` from the commands. `commands` is chosen at the start (NEW
only, or with cancels, replaces or both), so that properties which only hold in
some sessions are stated for those.

`PriceTimeBook` is the abstract book: a set of resting orders, the order being
matched and the last trade, with no levels, deques or index. In a session of NEW
only, `EngineSession` implements it (`ImplementsPriceTime`): `resting` is the set of
nodes in the deques, `active` the taker, `trade` the pair of Trade reports just
published; each step of a handler is a step of the abstract book. A cancel cannot be added to it:
`SwapPop` changes who is served next, which is `SessionTimePriority`.

### SpscRing, BoundedFifo

`SpscRing` is the class access by access: load, test, write (through a torn
content), release store; load, test, move out, release store. An acquire load may
return any value between the last one the thread saw and the current one
(`Loadable`), which is what C++ coherence allows; a value read through release/acquire
carries the slot contents written before it. Counters count modulo `Modulus`.
`BoundedFifo` is the abstract ring; `RingIsFifo` is the refinement, under which a value
leaves the abstract queue at the move out.

### MatchingEngineWorker

`EngineBook` (extended, not copied) run by the worker loop between two bounded
FIFOs, and the main thread of `me_pipeline`. Because the producer's view of the
consumer's counter may lag, a push can be refused when the ring is not full:
`unseen` counts the pops the producer has not seen, and each push picks how far it catches up.
The sleeps are left out; a `try_pop` that finds nothing is a pass round the loop.

### MDSim, MarketData

`MDSim` is the simulator's book and loop: `Edit` is one iteration of the
edit loop with its clamp, `Repair` is `repair_cross_and_emit` (its addition of an ask above the bid,
which leaves the crossing ones), `Quote` is the L1 conflation. The mid price is a random walk, so
an edit may aim anywhere in `Aims`. A level is its aggregate quantity.

`MarketData` composes it with PUB/SUB (`wire`: order kept, no duplicates, loss
when the high-water mark is hit or, with `Lossy`, anywhere), REQ/REP (`request`,
`reply`, `broken`), the subscriber thread, the MDRing, the consumer and the stop flag.
`ZeroMQ` itself is external; `broken` is what a REQ socket does after
a receive that timed out: the next `send` throws. The subscriber's `get_snapshot` is
four steps, so that deltas are published and time-outs happen between them.
History: `books` (the simulator's book at each number), `obSeq` (the last delta the
consumer applied), `missed` (where deltas
got lost between simulator and consumer: `"gap"`, the subscriber saw a gap in the numbers; `"ring"`, the MDRing
was full).

### OrderBook

The class by itself, driven three ways (`use`): by feed deltas (L2), as the
consumer and `md_replay` do; by single orders (L3), which no program of the
repository does; and by both. A node of a fifo is named by its `entry_time`
(`clock` numbers the adds), and so is an iterator, so that an iterator whose node is
gone can be told from one that lives. `cancelOrder` through such an iterator is
undefined behaviour: `UseFreed`, after which nothing is modelled; `wiped` is
history and records which nodes an L2 operation destroyed. `DiffLevels` is the
cross-validator's `diff_levels`. `hashL2` is left out: it only reads, it mixes 64-bit numbers, and what the
consumer's self-check asks of the book, that the second application changes nothing, is `ReplayHarmless`.

### CrossValidator

`MarketData` (extended) with the third market-data thread. The simulator answers one
request per turn, of whichever requester. `XAsk` on a socket that still awaits an
answer throws, and since nothing catches it the process ends (`up`); the subscriber's
exceptions, by contrast, end that thread only (`subPc = "dead"`). `XWait` is the wait
with what follows it: `LastApplied` is `last_l2_seq_applied`, which no code stores,
so it is 0, and snapshots are numbered from the seeded book on.

## Runs

Every passing run's properties were each seen to fail under a *mutant*: an
operator in the module, marked `Mutant:` in its comment and used nowhere in the specification, that stands for a
plausible bug of the definition after it. `PROJECT.json` pairs them.

| Run | Question | Bounds, and why they are enough |
|---|---|---|
| `EngineBook` | Is the book uncrossed, free of empty levels and sound, and are fills at the best price within the limit, after *any* commands, ids used again, with limit orders that carry `kNoPrice`? Does every handler return? | 2 ids used again and again, prices 0..2, quantities 0..2, up to 3 resting orders. Two orders at one price, two prices on one side, an index that is stale but in range and one past the end all occur with a taker in flight. The invariants here and in the other rows are also proved for all values, some under [stated hypotheses](#proofs). |
| `Session` | Is `on_new` alone a price-time priority book? Which accounts survive which commands: the reported leaves with cancels; nothing traded that was not accepted with replaces through stale indices. | 4 ids, quantity 2, market orders: three makers swept by one taker, a partial fill before a cancel or a replace, a stale index used. 2 prices with NEW only, 1 (`EditedPrices`) besides `kNoPrice` with other commands. `MaxAccepted` bounds how often a replace grows what was accepted. |
| `SpscRing` | Race freedom, FIFO, delivery. | 2 slots, 2 items, counters modulo 8: head and tail wrap round both the slots and the counters. |
| `Worker` | Is what the main thread learns in order and never ahead of the engine, with commands and reports dropped? Does shutdown end? | Four scripts of 2–4 commands (the first is the demo in `me_pipeline_main.cpp`), rings of 2 and 3: both overflow. |
| `MarketData` | Are both books parts of the simulator's at the number they claim, with losses, gaps, half-failed snapshots, full rings, a simulator killed at any moment? | 3 ticks, 6 sequence numbers, depth 1, one message on the wire and one in the ring: a gap, a snapshot that is older than the stream, one cut to `Depth`, and a full ring all happen. |
| `CrossValidator` | With nothing lost and two requesters, does the subscriber reach every number, and do all threads stop, though the simulator may be killed? | 4 sequence numbers, of which 2 are given out while the threads run; a wire of 3, at least the number of messages that the bound lets it hold unread. The simulator dies at any moment: before, during and after either snapshot. |
| `OrderBook` | Do aggregates and index follow any sequence of single orders, with ids used again? Are repeated deltas harmless? Does the diff tell books that are one delta apart? | 2 ids, 2 prices, quantities 1 and 2, 4 adds (2 when deltas come in between): an id replaced at another price, two nodes of one id, a level erased under an order and made again. Deltas with a zero quantity or count among them; both depths. |

Five runs are expected to fail; each checks one sentence of the repository against
the code, and is described [below](#disagreements-between-the-code-and-what-is-said-of-it):
`SessionTimePriority`, `SessionTradesAsRequested`, `MarketDataResumes`,
`MarketDataRecovers`, `CrossValidatorWaits`. Their bounds are the least that let the case happen.

Properties of the passing runs, in a sentence each:

- `Uncrossed`, `NoPhantomLevel`, `LocFindsLevel`, `RestingSound`, `NoTradeThrough`,
  `HandlerReturns`: see their comments in `EngineBook.tla`. `LocFindsLevel` is what is
  left of "`loc_` finds the order" once indices may be stale: the level is right, the
  slot need not be.
- `ImplementsPriceTime`, `LeavesReported`, `AcceptedCovers`: what a session
  promises, weaker as more commands are allowed.
- `NoRace`, `ViewsInStep`, `RingIsFifo`, `Delivered`: the ring.
- `PipelineTypeOK`, `CompletedIsGone`, `ViewShrinks`, `Terminates`: the order path. The first
  says besides the types that the ExecRing holds `ExecCap` reports at most, counting those the
  worker has not seen popped, and that the worker goes back to its loop only with the handler returned
  and every report pushed or dropped.
- `SimUncrossed`: the repair never has anything to do. `LocalWithinSim`,
  `QuoteIsSims`, `BookWithinSim`, `HealthyUntilLoss`: the feed.
  "Within" and not "equal", because a snapshot has only `Depth` levels a side and
  deltas never tell of the levels below. That the consumer applies deltas in order is
  not a property: the link keeps order and nothing numbers anew, so it could not fail
  before a simulator is started again (see the plan).
- `CatchesUp`, `ShutsDown`: liveness of the feed. Both count the end of the process
  as an outcome: a receive of the validator that timed out is followed by a send that throws.
- `Accounts`, `IndexLive`, `NoHollowLevel`, `ReplayHarmless`,
  `DiffShowsDelta`: the OrderBook and its reader. The last two are evaluated for every book the
  deltas reach, since that is how the program uses them.

Deadlock is not checked (`CHECK_DEADLOCK FALSE`) where a run's bounds on orders, numbers
or accepted quantities end behaviours, or the threads have stopped.

## Fairness

- `EngineBook`: weak fairness of `Handler`. A handler that was entered is
  sequential code that waits for nobody.
- `SpscRing`: weak fairness of the consumer (both consumers poll in a loop), and of
  its load returning the newest value: the standard asks that stores become visible in finite
  time. Nothing of the producer.
- `MatchingEngineWorker`: weak fairness of each thread; `RaiseStop` after five
  seconds; strong fairness of `Exit`, which is enabled each time the loop comes
  round to its test, since a relaxed load may be late but not for ever. With the
  crash of the engine everything stops.
- `CrossValidator` (`FairPipeSpec`): weak fairness of the simulator's loop, of the
  subscriber, of the consumer, of the validator and of the two stops that stay enabled; strong fairness of
  `StopSub` for the same reason as `Exit`. None of losses, kills, and `RaiseStop`.
  `GiveUp` and `XTimeout` are steps of their threads, fair because `rcvtimeo` is finite.

## Proofs

`EngineBook_proofs` proves, for every value of the constants allowed by
`ConstantsAssumption` (any ids, any number of prices, any orders and quantities, any
garbage, any subset of the two outcomes of the double erase):

| Theorem | Statement |
|---|---|
| `Invariance` | `Spec => []IInv` |
| `TypeCorrect` | `Spec => []TypeOK` |
| `NeverCrossed` | `Spec => []Uncrossed` |
| `NoEmptyLevels` | `Spec => []NoPhantomLevel` |
| `LocNamesLevel` | `Spec => []LocFindsLevel` |
| `RestingIsSound` | `Spec => []RestingSound` |
| `PricePriority` | `Spec => []NoTradeThrough` |

`IInv` is the conjunction of `TypeOK`, `Uncrossed`, `NoPhantomLevel`,
`LocFindsLevel`, `RestingSound` and `TakerSound` (the taker has no more left than
its quantity). None is inductive alone. `RestingSound` needs `TakerSound` when the
taker rests; `Uncrossed` at `Rest` needs that the loop stopped because
the best opposite price, hence (by `BestIsBest`) every opposite price, is out of reach; `NoPhantomLevel`
needs `LocFindsLevel`, because a cancel or replace uses `operator[]`
with the level `loc_` names, and would create it empty if no order rested there;
`LocFindsLevel` is kept by `erase_at` with a stale index because the entry of the order
that is *really* taken out is the one forgotten (`SwapPopKeeps`,
`LocStillFinds`, `PullOutKeeps`), and by a fill because the maker's entry goes with
it (`TailKeeps`, `FillKeeps`). `PricePriority` is not part of the invariant: it
speaks of the last report, and follows from `IInv` before a `Match`
(`MatchTradesAtBest`); no other step leaves a Trade report while in the loop.

The constant `MaxResting` guards `OnNew` and `OnReplace` (`Room`) and is a
bound of the model, not of the code. Nothing in the proofs uses it: they hold for any value
of it.

`MDSim_proofs` does the same for the simulator, for every tick range, seeded book,
number of edits and set of ticks the walk aims at (`SimAssumption`):
`SimInvariance`, `SimTypeCorrect` (`[]SimTypeOK`) and `SimNeverCrossed` (`[]SimUncrossed`). The invariant is
the conjunction of the two. An edit keeps it because a clamped price is beyond every
level of the other side (`ClampClears`, from `BestIsBest` and `NoBest`: `tob()` says `kNoPrice` of
an empty side only), and the repair because an uncrossed book is not `Crossed`
(`RepairIdle`).

`SpscRing_proofs` proves, for every set of items, capacity and counter width:

| Theorem | Statement |
|---|---|
| `RingInvariance`, `RingTypeCorrect` | `RingSpec => []RingInv`, `=> []RingTypeOK` |
| `ViewsStayInStep` | `RingSpec => []ViewsInStep` |
| `RaceFree` | `RingSpec => []NoRace` |
| `RingImplementsFifo` | `RingSpec => RingIsFifo` (each step is one of `BoundedFifo` or a stutter) |

`RingInv` adds to `ViewsInStep` that the slots from tail to head hold items (but the one just
moved out), that a producer past its test has room and a consumer past its
test has an item. `RaceFree` then is arithmetic: two counters less than `Capacity` apart are in
different slots, also when they wrap, because `Capacity` divides `Modulus`. The
proof found an assumption that the model needs and the program meets with ease:
`Capacity + 1 < Modulus`, or an over-full ring would look empty to `Sub`.

`MarketData_proofs` proves, for every `MarketDataAssumption`, that `FeedSpec` implies
`[]FeedInv` (`FeedInvariance`), `[]SimUncrossed` (`FeedNeverCrossed`), `[]LocalWithinSim` (`LocalBookIsSims`),
`[]QuoteIsSims` (`QuoteTellsTop`), `[]BookWithinSim` (`ConsumerBookIsSims`) and `[]HealthyUntilLoss`
(`NoAlarmWithoutLoss`). The messages under way are in the invariant: every delta on the wire or in the
ring tells what changed between two consecutive `books`, every L1 message the top
of the one it is numbered with, and a snapshot reply one of them cut to `Depth`. `LocalOK` says that
the subscriber's book is within `books[lastL2]`; the consumer's book is followed only
while nothing was missed (`ConsumerOK`): then no delta is missing between the last number it applied
and `lastL2` in the ring (`Linked`). The levels a book may differ in are those below the
snapshot's depth, which no later delta can contradict without naming them.

`CrossValidator_proofs` proves `ValidatorDisturbsNothing`: with the validator competing for the
snapshot server, and the process ending at any of its sends, every invariant of the feed holds as without it
(`PipeSpec => [](LocalWithinSim /\ QuoteIsSims /\ BookWithinSim /\ HealthyUntilLoss)`). A step that
answers the validator is no more to the feed than the begin of the simulator's turn (`ServingKeepsFeed`), and
all other steps are the feed's or leave it alone.

`OrderBook_proofs` proves `OrderBookInvariance`, `IteratorsLive` (`[]IndexLive`), `OrdersNeverDangle`,
`AggregatesAreTheFifos` (`[]Accounts`), `LevelsNotHollow` (`[]NoHollowLevel`), `ReplayDoesNothing`
(`[]ReplayHarmless`) and `DiffTellsDelta` (`[]DiffShowsDelta`),
for any ids, quantities and deltas and any finite set of prices (the code's are integers of fixed width). `OBInv` gives every order the time
of its entry, unique and before `clock`: what the index names is in exactly one
level, and an id added twice leaves a node behind that the index no longer names, but never an
entry without a node. A level's aggregates are the prefix sums (`Sums`) of
its fifo, so that taking one node out of the middle needs no induction over the fifo. For the
last, a level's place in the map is its *rank*, one more than the number of prices ahead of it
(`PlaceIsRank`); a delta adds or takes one price and so moves every other rank by one at most (`RankMoves`):
at a depth one level comes in and one goes out (`ShownMoves`). The proof holds whatever uses the book.

`EngineSession_proofs` is about what a client sees:

| Theorem | Statement |
|---|---|
| `SessionInvariance` | if no limit order carries `kNoPrice`: `SessionSpec => []SInv` |
| `NewImplementsPriceTime` | if no limit order carries `kNoPrice`: `SessionSpec => ImplementsPriceTime` |
| `ReportedLeavesAddUp` | `SessionSpec => []LeavesReported` |
| `NothingTradesUnaccepted` | `SessionSpec => []AcceptedCovers` |

For the first two `SInv` keeps, in sessions of NEW only, every deque in the order of arrival. The
hypothesis of both (`BidsPriced`) is needed: `isLimitCross` takes a resting `kNoPrice`
for a price that anything reaches. `ReportedLeavesAddUp` rests on `Apart`: without a replace, an order
is in one place, in the book or in the taker's hand. `NothingTradesUnaccepted` has no
hypothesis at all: whatever stale index a cancel or replace goes through,
what was executed of an id and what is still open of it are together covered by what was accepted. The
quantities resting under one id are scattered over deques of any length, so they are
counted as the cardinality of a set of *units* (place in the book, number of the unit): a fill
takes units out, a rest puts them in, and a swap with the last node is an
injection. That replaces the induction that the sums of the community modules would ask for; what is
left of it is done by least counterexample (`NatLessThanWellFounded`).

`MatchingEngineWorker_proofs` is about the order path, for any scripts, ring sizes and orders:

| Theorem | Statement |
|---|---|
| `PipelineSound` | `PipelineSpec => [](IInv /\ PipelineTypeOK)` |
| `PipelineTypeCorrect` | `PipelineSpec => []PipelineTypeOK` |
| `CompletedStaysGone` | if each script enters an id once (`OnceEach`), and this one has no replace or `GarbageNode = {}`: `PipelineSpec => []CompletedIsGone` |
| `ViewOnlyShrinks` | if each script enters an id once, and this one has no replace: `PipelineSpec => ViewShrinks` |

The first has no hypothesis: whatever is dropped at the rings, every dispatch is a step of
`EngineBook`, so `IInv` of its proofs carries over. For the other two, `WInv` takes
what was said of an order in the order in which it was said (`InStep`: the main thread's view, the
ExecRing, the reports to be pushed) and adds that each of these numbers bounds what the engine still has of the
order (`Within`), that orders at work have ids of their own, and that of an order whose
NEW is still to come nothing was said and nothing is at work (`Unheard`). Dropping a report takes
a number out of the middle, which none of this minds. "Bounds" has two strengths
(`Follows`): without replaces what is left only falls; with them only "nothing left stays nothing
left" survives, as a replace makes the leaves grow, through a stale index even of an order it does not
name. The hypotheses are the program's: the demo in `me_pipeline_main.cpp` enters each of
its ids once and replaces none. An id entered again has a new life that the main thread cannot tell from the old one, and a
replace that reads a node past the end of a deque can enter anything.

Only model-checked: `ViewShrinks` in scripts with a replace, of which the run has one. There is
no theorem for all of them: three asks at one price, a buy that takes the first, and a replace of the
second re-enter the *third* with the new quantity, because the second's index is stale, and its leaves grow.
Besides, all liveness, of which the provers know nothing (fairness, ENABLED):
`HandlerReturns`, `Delivered`, `Terminates`, `CatchesUp`, `ShutsDown`.

## Disagreements between the code and what is said of it

| Run | What is said | What the code does |
|---|---|---|
| `SessionTimePriority` | README:7 "price-time priority" | `erase_at` moves the youngest order of the level into the place of the one it takes out (`EngineBook.cpp:135`); here a stale index makes that a younger order than the canceled one. From there it is filled before an older order. |
| `SessionTradesAsRequested` | README:125 "Cancel by id" | After a fill shifted the deque, the canceled order's index points past its end: `erase_at` returns at line 131 with nothing taken out, the order is reported as Canceled, is still in the book and trades. |
| `MarketDataResumes` | README:152 "pulls snapshot, then resumes" | After a gap the snapshot stays in the subscriber's `LocalBook`; the consumer's book keeps a level that the lost delta took away. (The property asks for a gap and for no drop at the MDRing.) |
| `MarketDataRecovers` | README:6 "automatically recovering from data gaps" | After one snapshot timed out, the REQ socket refuses the next request, the exception ends the subscriber thread, and the feed is dead. |
| `CrossValidatorWaits` | `BookCrossValidator.cpp:115` "Wait until our consumer has applied at least snap_seq"; README:9 "runs continuous checks" | The wait reads a counter nobody stores: the validator takes one snapshot and never compares it. |

Met on the way, and not kept as runs: the first cancel of a resting order erases
`loc_` through an iterator that is already invalid (`EngineBook.cpp:72`, the action
`Crash`); where a build survives that, `on_replace` re-enters the whole new quantity of an order that had
partly traded, and through a stale index another order than the one named (`TradesAsRequested` speaks of both, but a cancel violates
it sooner); a delta dropped at a full MDRing (`try_push`'s result is ignored, `ZMQFeedSubscriber.cpp:138`) leaves a gap that nobody
detects, since the consumer looks at no sequence number; an answer to the validator later than 500 ms brings `me_pipeline` down
(`XAsk`); the cross-validator's comparison, were it ever reached, would walk the OrderBook
without a lock while the consumer changes it, so whoever repairs `WaitEnds` needs one; the initial snapshot does not reach the
consumer either (same cause as `MarketDataResumes`), so its book holds only levels that changed since;
reports dropped at a full ExecRing are not counted or retried; a simulator that restarts numbers from the start again and its deltas
are taken for stale ones; `hashL2` does not mix the side and its mix has collisions, so equal hashes do not mean equal books (the
self-check, which applies the same delta again, asks for no more than that equal books have equal hashes).

## What is not modelled

- **A simulator that is started again**: no code handles it, and no sentence
  promises anything of it.
- **Counters** that are only printed, and `hashL2`, whose 64-bit mix an abstraction would have to take as free of collisions.
- **Wire codec**: packed structs copied between two programs built from one
  source.
- **`EngineWorker.cpp`, `MDBookConsumer.cpp`, `md_pipeline_main.cpp`**: in no
  build target, or written for interfaces that no longer exist.
- **`oi_cli`, `OrderGatewayHelpers`**: `oi_cli` pushes into a ring of its own that nothing reads; the helpers have no caller.
- **`md_record`, `md_replay`, `md_sub`**: file and console tools over the same
  subscriber.
- The random walk of the mid price, formatting, sleeps and console output.
- Memory models weaker than what release and acquire give: the ring is modelled
  at the level of which value a load may return.

## Plan

Done: EngineBook and its proofs; EngineSession against PriceTimeBook; SpscRing against
BoundedFifo; MatchingEngineWorker; MDSim and its proofs; MarketData; CrossValidator;
OrderBook.

All components that are modelled are proved about.

Every safety property and every action property of the passing runs is stated by a theorem. What could follow:
a model of `md_record` and `md_replay` feeding the same OrderBook, and a simulator that is started again.

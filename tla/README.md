# Verification of SIMD NanoRing

TLA+ models of the concurrent core of this repository and of the sequential
data structures behind it, TLC instances that check them, and TLAPS proofs of
what matters most for every size. Paths below are relative to the repository
root.

SIMD NanoRing decodes a NASDAQ ITCH feed, hands the decoded orders to
book-builder threads, and keeps one order book per symbol. There are two ways
of handing over: a broadcast ring that every thread reads in place
(`include/pipeline.h`), and one queue per thread (`include/routed_pipeline.h`).

## 1. Inventory

| Component | State | Operations | What makes it correct |
|---|---|---|---|
| `BroadcastJournal` (`include/broadcast_journal.h`) | ring of slots, published index, progress word | `publish`, `try_publish`, `get_published_index`, `get_payload`, `report_consumer_progress`, `backlog` | a payload is whole when its index is visible; the producer does not lap a reader it is throttled by; racing reports never take the progress word back |
| `Pipeline` (`include/pipeline.h`) | producer, N threads with a cursor and books each, done flag, publish times | `run` | each thread applies its own shard, all of it, in order; the threads leave only at the end; the join returns |
| `LatencyTracker` (`include/pipeline.h`) | samples, count | `record`, `sort_samples`, `percentile` | a percentile that is printed is one, of the samples that were kept |
| `RoutedPipeline` | producer, per-shard batches, queues, N threads | `run` | as `Pipeline`, through batch boundaries and full queues |
| `SpscQueue` (`include/spsc_queue.h`) | slots, head, tail | `try_push`, `push`, `try_pop`, `available`, `free_slots` | a bounded FIFO; no slot is written while it is read |
| `OrderBook` (`include/order_book.h`) | live orders, sorted level arrays, best prices | `apply`: add, execute, delete, replace; accessors | levels and best prices are those of the live orders |
| `FlatOrderMap` | open-addressing table, capacity, size | `find`, `insert`, `erase`, `rehash` | it is a map; every live order stays reachable |
| `ShardedBookManager` | symbol table, array of books | `apply`, `get_book`, `total_messages` | one book per symbol, which sees the messages of its symbol and no others; a symbol is served from its first message or never |
| `SimdDecoder` (`include/simd_decoder.h`) | none (functions) | `decode_stream`, `decode_add_orders_simd`, `filter_tickers_simd` | reads in bounds, decodes every whole frame, terminates; vector code agrees with scalar code |
| Experiments (`src/experiments.cpp`) | readers of a journal; generated data | 1 decodes and scans; 2 and 4 read a journal without books; 3 and 6 run the pipelines; 5 applies one feed to a single book and to a manager | a reader reads every message, unless it is lapped; every layout and build counts the same orders; sharding changes the fate of no order; an Execute, Delete or Replace reaches the order it names |
| Demonstration (`src/main.cpp`) | | generates, decodes, runs `Pipeline`, prints percentiles | |
| Generator, scripts, reports | | | not modelled: they write files |

How they interact. The producer and the book-builder threads share the ring,
the published index, the progress word, a done flag and an array of publish
times; or, in the routed pipeline, the queues, the flag and the array. Each
thread owns a `ShardedBookManager`, whose books it alone uses, so the book
classes are sequential. A book owns a `FlatOrderMap`. The decoder runs before
the threads start.

Hard behaviours. The slots are plain memory read in place while the producer may
be writing them again. The exit of a thread reads three shared words one after
the other. Several threads race on one progress word with compare-and-exchange.
The producer spins on full queues, and everybody spins on something. In the
books: tombstones and growth under linear probing, cached best prices beside
arrays of limited length, a limited number of books, symbols that collide in a
small table. Before the books: messages whose ticker key or order reference is
not that of their order. In the decoder: lengths taken from the buffer, and
three builds of each vector loop. `PROJECT.json` lists each with its line under
`hazards`.

## 2. The modules

| Module | Models | State and steps |
|---|---|---|
| `BroadcastJournal` | the journal object | its shared words, and one operator per atomic access. A slot holds the sequence number of its order, `Blank`, or `Torn` while a `memcpy` is under way |
| `BackpressuredJournal` | the journal with the protocol its comments describe: `try_publish`, poll, read, report | one action per access of the producer and of each consumer |
| `RingsAndSequences` | facts about `sequence & Mask` and multiples, about sequences in ascending order, about least elements, and about sums over finite sets | lemmas, proved |
| `*_proofs` | | the theorems about a module, and about those it takes as instances, with their proofs (section 4) |
| `ShardedDelivery` | abstract: what a pipeline promises | send, close, deliver, leave |
| `Pipeline` | `Pipeline::run`; `measure_latency`, chosen initially, says with which configuration | the producer's stamp, copy, store, flag and join; a thread's poll, exit test, shard test, apply, report |
| `JournalReaders` | experiments 2 and 4; `rechecks`, chosen initially, says which | the same without books: a thread's poll, exit test, read in place, end of batch |
| `LatencyTracker` | the samples and their percentiles | operators on sequences |
| `BoundedFifo` | abstract: a queue with a limit | push, pop |
| `SpscQueue` | the queue access by access | a call loads, copies in two steps, stores |
| `RoutedPipeline` | `RoutedPipeline::run` | the producer's batches, flushes and spins; a thread's pop, apply, sample, exit test |
| `BookHandlers` | a book, and what each handler makes of it | one operator per handler, giving the book after the call. The arrays are sequences and `BinaryFind` is the binary search with its negative insertion points |
| `OrderBook` | one book under its feed | the book is one variable, `apply` the step |
| `LiveOrderMap` | abstract: a map | insert, change, erase |
| `FlatOrderMap` | the hash table | one action per operation; growth is part of `insert` |
| `SymbolBooks` | abstract: a book for each of so many symbols | serve, ignore |
| `ShardedBookManager` | the symbol table and the array of books | one action per outcome of `apply()` |
| `BookFeeds` | the manager, and a single book beside it, under the feeds the code produces | one action per kind of message; `source`, chosen initially, says which feed |
| `DecodeStream` | `decode_stream` | one action per way through the loop |
| `DecodeBatch` | `decode_add_orders_simd`, `filter_tickers_simd`, the scans of experiment 1 | operators; bytes are symbols that say which byte of which message they are |
| `MC_*` | | inputs for TLC |

Composition. `BackpressuredJournal`, `Pipeline` and `JournalReaders` extend
`BroadcastJournal`. `RoutedPipeline` uses queues whose `push` and `try_pop` are
one step: that is what the refinement of `BoundedFifo` by `SpscQueue`
establishes. `Pipeline` (until it laps a thread) and `RoutedPipeline` both
implement `ShardedDelivery`. Likewise a book of `BookHandlers` uses a map, which
`FlatOrderMap` implements (`LiveOrderMap`). `OrderBook` and
`ShardedBookManager` extend `BookHandlers`, the one with a book, the other with
an array of them; `BookFeeds` extends the manager with the feed and a single
book beside it, the two halves of experiment 5.

The three feeds of `BookFeeds`. `"itch"`: each message carries the symbol of its
order. `"decoded"`: what `decode_stream` makes of such a feed, in which only an
Add has a symbol and the others carry key 0. `"test"`: the data of
`generate_test_data()`, in which every message has an order reference of its own.

Atomicity. Each access to a shared atomic word is a step. Loads are acquire
loads and stores release stores, except that of the progress word, which is only
raised; so interleaving whole accesses is sound. A `memcpy` into a slot is a
begin and an end. A book-builder thread uses a *reference* to the slot, so the
shard test and `apply()` read it separately and a read during a copy may return
fields of either content. In `BackpressuredJournal` the load of the progress
word and the beginning of the copy are one step; consumers can only raise that
word in between, so room seen is still there.

Histories. `Pipeline!lapped` says that a slot was overwritten that a thread had
not finished with. `JournalReaders!seen` is what `get_payload` referred to at each
read, and its `lapped` the readers that lost a slot they had not read. `OrderBook` keeps `complete` (no level was dropped) and, per
level, `partials` (executions that left a part of an order). They guard no step.

Names ending in `_Something` beside a definition (`HasRoom_OffByOne`) are the
mistakes the properties were tried against; no specification uses them.

## 3. Runs

| Run | Instance | States | What it shows |
|---|---|---|---|
| `journal` | ring of 2, 2 consumers; the protocol with 6 orders, the readers with 4 | 153,669 | *the protocol*: the ring never loses an order for everyone; the progress word is monotone and never ahead of the index; everything is read. *The readers*: those of experiment 4 leave after a read for each message, and have found every one of them unless they were lapped; what any reader finds in place of a message is never older |
| `backpressure_slowest_lapped` | the protocol of `journal` | violation | the *slowest* consumer is lapped (see 6) |
| `pipeline` | ring of 2, 3 orders, 2 threads | 174,165 | until a slot is overwritten that a thread needs, `run` implements `ShardedDelivery`; after that too, threads leave at the end, times are written before they are read, nothing older than the cursor is applied, and `run` returns |
| `pipeline_foreign_symbol` | the same | violation | a lapped thread applies an order of another shard (see 6) |
| `journal_readers_leave` | ring of 2, 2 orders, 2 readers | violation | a reader of experiment 2 leaves before the last messages, which the ring still holds (see 6) |
| `routed_pipeline` | 3 threads, 8 orders, queues of 1, batches of 2; the queue by itself with capacity 2, 2 items, 6 pushes | 12,733 | *the pipeline*: refinement of `ShardedDelivery`; nothing lost, repeated or overtaken on the way; `run` returns. *The queue*: refinement of `BoundedFifo`, in which a call pushes the item it was given; no slot shared; every call returns and every item is popped |
| `order_book` | 3 references, 3 prices, 2 shares, 2 levels a side | 202,574 | levels, counts and best prices against the live orders, before and after a level is dropped |
| `order_book_bbo` | the same with 1 share | violation | the best price need not be the first level (see 6) |
| `flat_map` | 4 colliding references, table of 4 growing to 8 | 888 | refinement of `LiveOrderMap` through collisions, tombstones and growth |
| `book_feeds` | 3 colliding symbols and key 0, 2 books, table of 3, 4 messages of each feed | 28,608 | refinement of `SymbolBooks`; one book per symbol; sharding against the single book |
| `decoded_removals` | the same | violation | a decoded Execute, Delete or Replace does not reach its order (see 6) |
| `decoder` | every buffer of up to 8 bytes over 3 byte values, output limits 0, 1, 3; the same as batches, prices and latencies | 67,398 | `decode_stream`, the vector functions, the scans and the percentiles |

Two of the runs check a module together with one that its proofs take as an
instance: `MC_Journal` the backpressure protocol and the readers, and
`MC_RoutedPipeline` the pipeline and the queue it stands on. A variable chosen
initially says which of the two runs; the other one stays in its initial state.
Fairness is assumed of the one that runs, and of the readers, of which no liveness
property is checked, none.

Why the bounds are enough. The ring is lapped at least once whenever the input
is longer than the capacity, and with capacity 2 and 6 orders twice; the copy of
one slot can then overlap every position of a reader's cursor. In `pipeline` the
behaviours in which nobody is lapped are those in which the threads keep up, and
they reach the end of the input too. The readers are lapped with 4 orders;
`journal_readers_leave` has 2, so that nothing is overwritten and only the exit
test is to blame. Two threads are what the exit test, the compare-and-exchange and
a shard boundary need; the routed instance has three so that one shard has nothing
left for the last flush, one has a rest after a full batch, and one never fills a
batch. The queues of the pipeline have one slot, fewer than a batch, so a flush
always blocks half way; the one that runs by itself has two and is filled three
times over. Three prices on two levels reach the dropped level; three references put
two orders on a level beside a third on another. In
`flat_map` two pairs collide, one pair still collides after growth, and the
table is at times without any EMPTY slot. In `book_feeds` the probes start on the
last slot and wrap, the keys outnumber the books, and four messages are two
Adds of different symbols with what happens to both, or three symbols for two
books; every order has one price, since levels are the subject of `order_book`.
Eight bytes hold two of the longest messages, or two messages and a frame that is
unknown, empty, too short or cut off, and as a batch they are two whole groups,
or one and every length of tail. Bounds are named constants: `MaxSequence`,
`NumOrders`, `MaxPushes`, `MaxCapacity`, `MaxMessages`, `MaxStream`. `Word` (2^32
in the code) is 8 in the books.

Fairness. Liveness is checked under weak fairness of each thread. The code pins
every thread to a core and none blocks in the operating system except the
joining one, so a step that stays possible is eventually taken. Sequential
functions (`decode_stream`) are assumed to run on. Nothing is assumed about who
wins a race: no strong fairness is used.

Deadlock is checked in every run of a program that ends; final states (`returned`,
`joined`, an input used up) have an explicit stuttering action. `BookFeeds` stops
when its feed has had `MaxMessages` messages, so its two runs do not check it.

## 4. Proofs

`BroadcastJournal_proofs` proves, for every capacity, number of orders and
non-empty set of consumers:

- `TypeCorrect`: the type invariant.
- `Invariance`: the inductive invariant `Inv`, which is `TypeOK`, `Bounds` and
  `Ring`. `Bounds`: no cursor and no progress report is ahead of the published
  index, some consumer has really read as far as the progress word says, and the
  producer has begun no copy more than `Capacity` beyond that word. `Ring`: a
  published sequence is in its slot until the copy of the sequence `Capacity`
  further has begun.
- `NeverLostForAll` (`FastestNotLapped`), `SingleConsumerNeverLapped`
  (`SlowestNotLapped` when there is one consumer), `ProgressNeverAhead`
  (`ProgressNotAhead`) and `ProgressOnlyGrows` (`ProgressMonotone`).

None of the properties is inductive: they say nothing of a copy under way, nor
of who stands behind the progress word. The argument: a slot is overwritten only
`Capacity` sequences after the one it holds, the producer begins that copy only
when the progress word is past the old sequence, and the consumer that put the
word there has read it; so that consumer misses nothing. Two sequences less than
`Capacity` apart never share a slot (`RingsAndSequences`), so no other slot changes.
Assumptions: `Capacity` is a positive natural number (the code wants a power of
two, which only makes `& Mask` a remainder), there is a consumer, the markers are
no sequence numbers.

The readers of experiments 2 and 4 are an instance there (`Readers`), for every
number of readers and orders and every capacity:

- `ReadersInvariance`, the inductive invariant. `ReadersBounds` and `ReadersDone`:
  a cursor never passes the index, and the flag goes up after the last publish, so
  an index loaded after it is the last one. `ReadersRing`: the slot of a sequence
  never goes back to an older one, and holds it until the copy of the sequence
  `Capacity` further has begun. `ReadersSeen`: a reader that has lost nothing has
  all it has not read in the ring, and has found all it has read.
- `ReadersReadEverything` (`ReadsEverythingUntilLapped`): a reader that loads the
  index after it has seen the flag leaves after a read for each message, and has
  found each, once and in order, unless `publish()` lapped it.
- `ReadersNeverGoBack` (`ReadsAreNotOlder`): what a lapped one finds instead is a
  newer message, or one that is being copied.

`Pipeline_proofs` proves, for every number of threads and orders, sharding,
ring size and sampling rate, from `PipelineInvariance`:

- `ThreadsLeaveAtTheEnd` (`LeavesAtTheEnd`), the same argument as above; it holds
  for a lapped thread too.
- `TimesReadAreWritten` (`StampedBeforeApplied`): what is published, or about to
  be, is stamped (`Stamped`), and a thread reads only below the index.
- `NothingOlderApplied` (`NeverOlderThanCursor`): no slot goes back to an older
  sequence, and what a thread found in the slot of its cursor is not older than
  the cursor (`Newer`). This is what is left of the order of application once a
  thread was lapped.
- `ImplementsDelivery` (`DeliversUntilLapped`): as long as no thread is lapped,
  the ring holds all that the threads still need and each has applied exactly
  the orders of its shard below its cursor (`Exact`), so that its next order is
  the next one of its shard.

`RoutedPipeline_proofs` proves, for every number of threads and orders,
sharding, queue capacity, batch size and sampling rate, `RoutedTypeCorrect`
(`TypeOK`), `LinesAreWhole` (`NothingLostOrReordered`) and `ImplementsDelivery`
(`DeliversOwnOrders`). The invariant: the applied, popped, queued, and batched
but unflushed orders of a thread, put one after the other, are the orders of its
shard that were routed so far, in ascending order (`Lines`). Every step moves an
order from one place of that line to the next, or appends the next one; `Control`
says that what a flush has pushed stays within its batch and that a thread which
has seen the flag sees a queue that nobody adds to any more.

Its queues are there as an instance of `SpscQueue` (`Queue`), for every capacity,
set of items and number of pushes:

- `QueueInvariance`: the inductive invariant, `TypeOK`, `QueuePositions` and
  `QueueCopies`. `QueuePositions`: the two positions are at most `Capacity` apart,
  less while a push that saw room is under way, and apart while a pop that saw an
  item is. `QueueCopies`: every position between them holds an item.
- `SlotsNotShared` (`NoSlotShared`): the strict bounds of `QueuePositions`, with
  the lemma that positions less than `Capacity` apart have different slots.
- `ImplementsFifo` (`IsBoundedFifo`): each access is a push of the item the call was
  given, a pop, a refusal or a stutter of `BoundedFifo`. Nothing is said of what a thread knows of the other
  one: that it may be out of date is why `QueuePositions` is an inequality.

`BookFeeds_proofs` proves, for every hash, table size, number of books, set of
symbols, references, prices and shares, and feeds of every length:

- `FeedsInvariance`, the inductive invariant; TLC finds it true of the instance
  of `book_feeds` as well. `Table`: the probe for the key of a taken slot passes
  only slots taken by other keys; no two taken slots have the same book, and the
  books given out are the first ones. Nothing is erased, so a passed slot stays
  passed. `OneBookPerSymbol` alone is not inductive: that every known key is found
  does not say that a new key, put where its probe ends, shortens no other probe.
  `Owned`: an order that is live is in the book of its symbol and in no other.
- `BooksAreFound` (`OneBookPerSymbol`), `ShardingIsTransparent`
  (`ShardingKeepsEveryOrder`).
- `ImplementsSymbolBooks` (`IsSymbolBooks`): a known symbol is served; a new one
  is served while books are left and ignored for good after that. A probe that
  turns all the way round has passed every slot, each with a book of its own, so
  it ends without a slot only when the books are used up. This needs the one
  assumption the sizes of the code justify, `MAX_SYMBOLS_PER_SHARD <=
  SYMBOL_MAP_CAPACITY` (512 and 1024).

What a message does to the price levels plays no part in them: the lemma
`LiveOfApplied` says what each handler does to the live orders, whatever the
levels are.

`OrderBook_proofs` proves, for every set of references and prices, number of
levels and width of a word:

- `BookTypeCorrect` (`TypeOK`) and `BookStaysSorted` (`LevelsSorted`), of every
  behaviour. The search is right on a sorted array: an interval for which it was
  not, taken as short as possible, would contain a shorter one. The place it
  gives keeps the array sorted through the two shifts.
- `BookInvariance`: the inductive invariant, `Shape` and `Right`. `Shape`: fields
  typed, arrays sorted. `Right`: an array and a best price are what the live
  orders of their side add up to, exactly while no level was dropped and from
  below afterwards. From it follow `LevelsAreLiveOrders`
  (`LevelsMirrorLiveOrders`), `CountIsBehind` (`CountBehindByPartials`),
  `BestIsTop` (`BestIsFirstLevel`), `NoSharesInvented` (`LevelsNeverOverstate`) and
  `BestHasAnOrder` (`BestIsLive`). None of these is inductive: `LevelsMirrorLiveOrders`
  says nothing of a book that lost a level, and `BestIsLive` needs the levels.
- `Right` and what follows from it are proved under `[]NoOverflow`: the live
  shares at one price fit the total of a level, 32 bits wide. The code does not
  check that, and a total that has wrapped makes it remove a level that still has
  orders. `FewOrdersFit` says when it is so: `MaxShares` times the number of
  references is below `Word` (in the code, four million orders of 1000 shares at one
  price). The run `order_book` is such an instance, and TLC finds the candidate of
  the invariant true of its 202,574 states.

`FlatOrderMap_proofs` proves, for every hash, set of references and initial
capacity of at least 4 (2^20 in the code):

- `MapInvariance`: the inductive invariant. `Sound`: the probe for a live
  reference passes no `EMPTY` slot before its own, and no reference has two
  slots. With it, `size_` counts the taken slots and is below `capacity_`, so that
  `insert()` always meets a free slot. A tombstone is not `EMPTY`, so an erase
  shortens no probe. `rehash()` starts from a table that is `EMPTY` and keeps
  `Sound` from entry to entry: a first entry after which it failed would be a
  contradiction.
- `SizeCountsOrders` (`SizeIsExact`), `OrdersAreReachable` (`OneReachableSlot`) and
  `ImplementsMap` (`IsLiveOrderMap`): growth is a stutter of `LiveOrderMap`.
  `OneReachableSlot` alone is not inductive: it does not say which slots a probe
  passes, and the next insert may put an entry behind a gap.

`DecodeStream_proofs` proves, for every set of byte values, every buffer,
`max_output` and table of minimum sizes of at least one byte:

- `DecoderTypeCorrect` (`TypeOK`) and `DecoderReadsInBounds` (`ReadsInBounds`);
  the conjunction of the two is inductive.
- `WholeFramesDecoded` (`DecodesWholeFrames`). The invariant `Walk`: the offset is
  where a frame starts, and what was decoded are the decodable frames before it.
  Frame starts are the least set with 0 and the end of every whole frame; so no
  frame starts inside the one that is stepped over.

and for inputs of every length:

- `BatchDecodesAsScalar` (`BatchIsScalar`): the starts of the groups are the
  multiples of four below the tail, the mask reverses each lane of four bytes.
- `BuildsFilterTheSame` (`FilterSameOnEveryBuild`): a group's bits stay together
  in the mask when its width is a multiple of four, as 32 is (`WidthAssumption`).
- `ScansCountTheSame` (`ScansAgree`): a count is a sum over the orders, and taken
  group by group it is the same sum.
- `PlaceIsPercentile`: the place `percentile()` reads, in any sorted rearrangement
  of the samples, holds that percentile of them.

The other assumptions are of the kind named above: sizes are positive, markers
are not data, a sharding gives every order a thread, hashes are numbers.

Checked by TLC only:

- Liveness (`ProtocolGetsThrough`, `EveryPushIsPopped`, `PipelineReturns`, every `Termination`): it rests
  on fairness, out of the prover's reach.
- `PercentileIsRank`, in so far as it is about `sort_samples` and about the choice
  of the samples of experiment 4: the operators of the standard modules that sort
  and select (`SortSeq`, `SelectSeq`) have no definition for the provers. `PlaceIsPercentile` is the rest of it.

## 5. Assumptions about inputs, and what is not modelled

- Feed: an Add or Replace brings a reference that is not live, and at least one
  share. All programs here number references upwards and draw shares from
  1 to 1000. An Execute may ask for more than is left; Execute, Delete and
  Replace of unknown references change nothing. A thread of `Pipeline` that was
  lapped breaks this (it can apply an Add twice), so what is shown of the books
  holds for it only until then.
- The clock is a choice whether a sample is taken.
- `SpscQueue` counters do not wrap at 2^64.
- `stats_` of a book, timing, `pin_to_core`, `cpu_pause`, printing, the
  generator: no property depends on them.
- `backlog()`, `free_slots()` and the spread accessor change nothing and are not
  called. `backlog()` subtracts two words loaded separately.
- Only the decoder reads bytes. A decoded order is kept as the bytes its handler
  reads; in the books a message has its fields.
- Experiment 5 also applies partitions of the data in parallel: its threads share
  nothing, so each is a manager of `BookFeeds` on a part of the symbols.
- No program feeds `decode_stream` into a pipeline; the `"decoded"` feed is the
  composition its interface invites.

## 6. Divergences seen

Five are kept as runs that end in a violation:

- `backpressure_slowest_lapped`: the progress word follows the *fastest*
  consumer, against the comments at `include/broadcast_journal.h:25` and `:37`.
- `pipeline_foreign_symbol`: an order overwritten between the shard test and
  `apply()` puts another shard's symbol into a thread's books
  (`include/pipeline.h:143`-`146`), against `README.md:74`.
- `journal_readers_leave`: the reader of experiment 2 leaves on the flag without
  looking at the index again (`src/experiments.cpp:325`) and can miss the last
  messages, against `README.md:126`. That of experiment 4 does look again
  (`ReadsEverythingUntilLapped`). The producers of both use `publish()` too, in
  a ring shorter than their input, so a slow reader of either is lapped and finds
  newer messages in place of its own.
- `order_book_bbo`: an Add that is better than every level of a full side raises
  the best price (`include/order_book.h:181`) after its level was dropped
  (`:286`), against `README.md:188`. `BestIsLive` is what remains: the best price
  is that of a live order, at or ahead of the first level.
- `decoded_removals`: the `ticker_key` of a decoded Execute, Delete or Replace is 0
  (`include/simd_decoder.h:295`), so the manager gives it to the book of symbol 0
  and its order stays as it was, against `README.md:167`. `ShardingKeepsEveryOrder`
  is therefore about the other two feeds.

Others were met while modelling and bound what the passing properties say:

- `Pipeline::run` uses `publish()`, which never waits (`include/pipeline.h:182`),
  against `README.md:193`; a lapped thread skips orders and may apply one early,
  and again at its own sequence. What remains is `DeliversUntilLapped` and, after
  the lap, `NeverOlderThanCursor`, which allows the second application.
- `order_count` goes down with every partial execution
  (`include/order_book.h:312`) while its order stays live, against
  `README.md:165`. It is behind by exactly these executions
  (`CountBehindByPartials`), and wraps below 0.
- The generated Executes, Deletes and Replaces name references of their own
  (`src/experiments.cpp:74`), which are never live, so all but the Adds change no
  book in experiment 5 (`src/experiments.cpp:477` speaks of the four operations).
- The AVX2 scan of experiment 1 compares prices as signed words
  (`src/experiments.cpp:273`): it misses prices from 2^31 on, which no generated
  price reaches (`ScansAgree`).
- The vector builds of `filter_tickers_simd` do not look at the orders after the
  last group of four (`include/simd_decoder.h:218`-`247`); the plain build does.
- `insert()` stops at a tombstone before it reaches a live entry of the same
  reference (`include/order_book.h:53`); the feed never inserts one.
- The latency sample of the routed pipeline can read a time not written yet
  (`include/routed_pipeline.h:88`-`89`); the comment calls it a rough estimate.
- The comments of `include/itch_messages.h:25`, `:36` and `:45` give sizes one
  byte short of the packed structures, 31, 19 and 35.

## 7. Plan

All components with state are modelled, and every safety property, action
property and refinement that a run checks is proved for every size, but for
`PercentileIsRank` (section 4). What is left:

1. A bound on how far the cursor of a lapped thread is behind, from `Newer` of
   `Pipeline_proofs`.
2. Books fed by a lapped thread: what is left of `LevelsNeverOverstate` when an
   order is added twice.
3. The percentiles with a sort of its own in place of `SortSeq`, to prove
   `PercentileIsRank` as it stands.

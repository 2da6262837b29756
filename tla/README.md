# Market Data Fabric: formal models

TLA+ models of the concurrent and stateful parts of this repository, the TLC runs
that check them on small instances and the TLAPS proofs of what matters most for
every instance. The source files named below are relative to
`src/include/marketdata/` unless they start with `src/`. `PROJECT.json` maps every
definition to the lines it models, and lists the hazards the properties are for.

To check: `tlc -config X.cfg M` for the pairs in the table of runs, `tlapm M.tla`
for the eight modules with proofs.

## 1. The system

Market Data Fabric is a header-only C++ library with one gateway program. Raw
provider messages come in over websocket feeds or vendor rows; a mapper turns them
into normalized events; events go over in-process queues to handlers, to a message
log and to an event journal, from which a restarted process replays.

```
 vendor rows --> CsmarMapper / TonglianMapper --(SequenceGate)--> markets --> events
                                          events --> order book, TradingPhaseTracker
 command line --> run_binance_live --> run_feed_session --> FeedMessagePipeline
                      websocket client, feed client -^      payload log, mapper handler
 raw messages --> MessageLogWriter --> file --> MessageLogReader
 events --> AsyncEventJournalQueue (SpscRing) --> writer thread --> file --> reader
                          CheckpointCoordinator --> restart, replay -^
```

| Component | State | Operations | Talks to | What is hard, and what makes it correct |
|---|---|---|---|---|
| `SequenceGate` (`mappers/sequence_gate.hpp`, `mappers/map_outcome.hpp`) | continuity state, partition, last accepted and last received sequence, seven counters | `observe`, `begin_recovery`, `observe_recovery`, `complete_recovery`, `reset` | called by a mapper for every row | calls in any order, wrap of `uint64`; nothing is accepted across a hole, a break sticks until it is repaired |
| `TonglianMapper`, `CsmarMapper` (`providers/cn/stock/*/mapper.hpp`) | one gate per channel, a context | `map`, `begin_recovery`, `complete_recovery`, `reset`; `establish_baseline` | gate and market mappers below, service above | rows lost, repeated, late, misrouted, not mappable; the book is exactly the rows up to the cursor, and the exchange's |
| Market mappers (`markets/cn/sse/mapper.hpp`, `markets/cn/szse/mapper.hpp`) | none | `map` of orders, cancels, trades, phases | views from the vendors, events to consumers | which order a trade reduces depends on market, time and flag |
| `SpscRing` (`runtime/spsc_ring.hpp`) | two atomic indices, slots | `try_push`, `try_pop`, observers | one producer thread, one consumer thread | acquire/release without a lock, stale loads, index wrap; it is a bounded FIFO without data races |
| `run_feed_session` (`service/feed_session.hpp`) | statistics, retry policy, backoff, callback flags, stop reason | the retry loop, the message callback, the sleep | feed client below, stop flag set by a signal handler | a stop at any moment, two message limits, every way a connection can end; budget, honest reason, it ends when asked to |
| `WebSocketClient`, `BinanceWebSocketFeedClient` (`net/beast/websocket_client.hpp`, `providers/crypto/binance/websocket_feed_client.hpp`) | one connection; its own message count | `run`, `on_message` | Boost.Beast below, the session above | blocking calls, a close that fails after the peer has closed |
| Event journal (`replay/event_journal.hpp`) | queue, `ofstream`, read position | `try_enqueue`, `drain_one`, `flush`, `next` | market thread, writer thread, reader of a live or an abandoned file | write errors, a crash between any two steps; losses at the tail only, and the reader can tell |
| Checkpoint (`replay/checkpoint.hpp`) | committed partition, sequence and journal offset | `commit`, `replay_from_sequence` | journal, restart | a checkpoint ahead of the durable journal, or one that goes back |
| Message log (`replay/message_log.hpp`) | bytes and frames written, limit policy, stream; read position | `open`, `append`, `flush`, `close`; `read_next` | the gateway's raw messages (nothing in `src/` calls it yet) | the byte limit at its boundary, a torn frame behind an error, a cut file |
| Trading phase tracker (`markets/trading_phase_tracker.hpp`) | last phase and sequence of one instrument | `apply` | events of the CN mappers | updates that come again or late must not take it back |
| Fixed point (`codecs/fixed_point.hpp`) | none | `parse_decimal_to_fixed` | Binance mappers | the overflow boundary, which differs by one between the signs |
| Message handlers (`service/feed_message_handler.hpp`, `service/feed_payload_log_handler.hpp`, `src/apps/gateway/src/binance_mapper_handlers.cpp`) | what each has seen, mapped, failed, logged | `on_message` of a pipeline of handlers | called by the session | they outlive the attempts; one refuses after others have counted |
| Gateway (`src/apps/gateway/`) | parsed options, stop flag | `parse_binance_live_args`, `run_binance_live`, signal handler | session and handlers | which option becomes which limit, at which width |
| transport, cluster, client, reference, codegen | - | - | - | named in `src/docs/` only, no code |

`PROJECT.json` says for each of them whether it is modelled and, where not, why.

## 2. The modules

| Module | Models | Depends on |
|---|---|---|
| `SequenceGate` | the gate: one action per outcome of `observe`, one per other method | |
| `TonglianChannel` | composition: vendor stream, mapper, gate, book, service | extends `SequenceGate` |
| `CnMarkets` | pure operators: what a row of either vendor becomes in either market | |
| `BookRebuild` | composition: exchange, vendor, mapper with its gate, book and phase tracker | extends `SequenceGate`, `CnMarkets` |
| `BoundedFifo` | abstract specification: what the ring promises | |
| `SpscRing` | the ring, one memory access per step | instantiates `BoundedFifo` |
| `FeedSession` | session loop, one attempt of the feed client, signal handler | |
| `Gateway` | composition: command line, session, handler pipeline over all attempts | extends `FeedSession` |
| `EventJournal` | composition: queue, writer thread, stream, file, crash, reader | instantiates `BoundedFifo` as its queue |
| `Recovery` | composition: journal, checkpoint coordinator, crash, replay | extends `EventJournal` |
| `MessageLog` | writer, stream, file, crash, file opened again, reader | |
| `FixedPoint` | the decimal parser, a character at a time, and the number the text writes | |
| `SequenceGateProofs`, `TonglianChannelProofs`, `BookRebuildProofs`, `SpscRingProofs`, `MessageLogProofs`, `FixedPointProofs` | theorems | the module they are about |
| `GatewayProofs`, `RecoveryProofs` | theorems about `FeedSession` and `Gateway`, and about `EventJournal` and `Recovery` | the composition |
| `MCSequenceGate`, `MCTonglianChannel`, `MCBookRebuild`, `MCGateway` | sets of partitions and command lines for TLC | |

An operator named `Slip...` is a plausible bug, written down before the definition
it would replace. It is used by nothing: each property in the runs has one that
breaks it, which is how one knows that the property can fail.

### SequenceGate

The variables are the fields of the class; `obs` is the observation returned last,
`feed` and `observed` are history. `observe` tests its conditions in the order
invalid, no baseline, wrong partition, stale, follows, duplicate, break, and each
outcome is an action whose guard is the conjunction of the tests before it. Both
`SequenceMode`s are there: `Follows` is the acceptance rule that `observe` and
`observe_recovery` share. The caller is arbitrary: every method with every argument
in every state, because the class promises something to all callers. Note what the
model found about the interface: `begin_recovery` is allowed in a gate that never
had a baseline, and such a gate can be brought back by `reset` only
(`DeadEndNeedsReset`).

Sequence numbers are `0 .. MaxSeq` and the successor of `MaxSeq` is 0; statistics
count modulo `StatsModulus`.

### TonglianChannel

Adds the world around one mapper. `MapRow` is `TonglianMapper::map`: every row is
observed once, and its fields are mapped only if the gate accepts it. Whether the
fields of row *s* can be mapped is the arbitrary function `rows`. The vendor
(`Produce`, `LiveRow`: any produced row, any number of times, in any order, on any
channel) and the service (stop publishing at a break, `begin_recovery`, rebuild the
book from its own replay, `complete_recovery`, and `reset` when that is refused) are
external: they are what `src/docs/components/service.md` asks for and what the
mapper's interface allows. The replay does not go through `map`: a row observed
while the gate is `Recovering` is rejected (`mappers/sequence_gate.hpp:48`), and the
mapper has no `observe_recovery`.

### SpscRing and BoundedFifo

`push_impl` is three steps (load and check, assign the slot, release store) and
`try_pop` four (load and check, move out, reset the slot, release store). A thread
reads its own index exactly, and the other thread's index as any value between the
one it saw last and the current one (`Visible`): that is what acquire loads of an
index with a single writer may return. Indices wrap at `IndexSpan`, a multiple of
`Capacity` as 2^64 is. The order of the stores is that of the source; release and
acquire forbid others, so an item is never visible before its slot is written.
The refinement maps the slots between the indices to the queue; while a value is
being moved out, its place in the queue is the consumer's output.

### FeedSession

One thread that walks through `pc`: the checks at the top of the loop, the attempt
(`Connect`, `ReadEnds`, `ReadMessage`, `CheckStop`, `Deliver`, `CloseConnection`),
the checks after it (`CheckAfter`, in the order of the source), the backoff in
chunks of the poll interval. `RequestStop`, the signal handler, may come between
any two steps. An attempt is the whole chain down to the websocket client: its
outcomes are the statuses this chain can produce, and the client's own message limit
(`clientLimit`, `clientMessages`) counts beside the session's. `flags` are the
booleans of `FeedSessionCallbackState`. `delivered` and `late` are history.
`options` carries, besides `FeedSessionOptions`, whether the endpoint can be parsed
and whether the build has Boost.Beast, which a retry cannot change.

### EventJournal

The market thread (`TryEnqueue`), the writer thread (`DrainPop`, `AppendFrame`,
`Flush`), the process's death (`Crash`) and an `EventJournalReader` (`OpenReader`,
`ReadNext`) over one file. A file is a sequence of units that stand for its bytes: two
for the file header, then two for the frame header and two for the payload of each
event, so that it can end inside each of them. The queue is `BoundedFifo`, which `SpscRing`
implements. `Stream` is what is assumed of `std::ofstream`: it keeps any suffix of
what it was given in memory, hands the rest to the file in order, and an error sets
the bad bit for good and drops what it kept. A reader may be opened while the writer
still runs, at any length of the file, or after the crash.

### Recovery

Adds to the journal a `CheckpointCoordinator` (`Commit` with its four refusals, of
which a refused call changes nothing; `ReplayFrom` with its saturation at `Top`) and
the restart: a reader of the file the crash left, whose records before `ReplayFrom`
are passed over and the others applied. Who commits is not in `src/`. It follows
`src/docs/components/replay.md`: an event is applied before it is queued, and may be
committed once the journal holds it, which is known from a `flush` that leaves the
stream good (`FlushStep`); commits come late, in any order, and for a foreign
partition. Every step of the journal is one of `EventJournal`.

### MessageLog

A file is a sequence of units as in the journal, but payloads differ in size, 0
included, because the byte limit counts them. `AppendMessage` is `append` with its
exits in order: limited already, payload too large, limit (three policies), write.
`Stream` may hand any first part of what it holds to the file, and may fail, whereupon
the counters stay and the torn frame's bytes may be there all the same. `appends` is
history: every answer, and what the writer had counted before it, which is the place a frame
begins at; with it the properties say place by place what the log holds. `Open` is
`open` on a fresh or used path. The reader takes a header, then its payload, and may be
called again after every answer. After `PayloadTooLarge` it stands inside the payload
it did not read, where the code takes any 128 bytes with the magic, version and header size
for a header: off a frame (`~AtFrame`) `HeaderNext` finds any header, which then belongs to
no message (message 0), or none. The choice is made anew at every reading, so the
same bytes may read differently twice, which the code cannot do.

### CnMarkets and BookRebuild

`CnMarkets` has one operator per mapping function: the vendor's (row to view, with
its refusals in the order of the code) and the market's (view to event). Of the fields
it keeps what decides a branch or reaches a consumer; prices are told apart by their
sign, and the clock counts half hours, which is what the 09:30 boundary and the two
vendors' time formats (UTC since the epoch, `hhmmssmmm`) need.

`BookRebuild` runs them over a trading day. The exchange, the rows a vendor writes
and the order book are external, and follow the repository's `README.md` and the
comments of the mappers: Shanghai announces its phases in the order stream, names an incoming order in
the trades it causes and publishes only what rests of it; Shenzhen publishes the order
first. The exchange goes on when its last row has arrived or is lost: an incoming order is
matched with the oldest opposite orders one step at a time, and the book is compared between
the steps, too. `MapRow` is `map` of either mapper: the gate first, then the row, then the book
and `TradingPhaseTracker::apply` (`PhaseApply`). Rows come again behind younger ones,
get lost (Tonglian, whose gate notices), or have one field damaged. The damaged row is kept as
it was (`damaged`), so that it is known which orders it was about (`Names`); the day goes on
after it.

### FixedPoint

One action per case of the loop over the characters, then the padding with zeros and the
conversion. The characters are chosen one by one; the history `text` keeps what they say: the
number as an unbounded fraction `magnitude / unit`, and whether it is well formed. It goes
on behind the place where the parser gave up (`Unread`), so that a refusal is compared with
the whole text.

### Gateway

`TakeArg` is one round of the loop of `parse_binance_live_args`, and `args` the result
for the process's command line `line`; numbers are parsed modulo 2^64 (`parse_u64` has
no overflow check), `--max-attempts` is cut to 32 bits, and a backoff becomes signed
milliseconds (`Milliseconds`), of which the session waits for a negative number as for 0. `Resolves` is where
`resolve_feeds` throws; `MapperKind` decides whether a mapper handler is added.
`PipelineDeliver` is `FeedMessagePipeline::on_message` in the place of the session's
arbitrary handler: the payload log, which refuses if writing the log throws, then the
mapper handler, which counts and never refuses. All other steps are the session's.

## 3. What is checked

| Run | Module and configuration | Shows |
|---|---|---|
| `gate` | `MCSequenceGate`, `SequenceGate.cfg` | `Continuity`: whatever is called, accepted sequences are unbroken and end at the cursor. `StaleIsSticky`: a break stays until a recovery or a reset. `DeadEndNeedsReset`. `StatsAccount`: every `observe` is counted once, by one counter. |
| `channel` | `MCTonglianChannel`, `TonglianChannel.cfg` | `BookIsExact`: while the service is live, its book is the rows up to the cursor that map, each once, in order. `BreakIsRepaired` (liveness): every break is. |
| `channel_recovery` | `MCTonglianChannel`, `TonglianRecovery.cfg` | Violated: see Findings. |
| `ring` | `SpscRing`, `SpscRing.cfg` | `NoSlotRace`: the threads never touch one slot at once. `FreeSlotsAreClear`: a popped value is not kept alive. `ImplementsFifo`: refinement of `BoundedFifo`. `HeadIsConsumed` (liveness). |
| `session` | `FeedSession`, `FeedSession.cfg` | `MessageBudget`: over all reconnects no message too many and none uncounted. `ReasonIsHonest`: the stop reason is true. `LateBound`: at most one delivery or attempt begins after a stop. `BackoffDiscipline`. `StopHonoured` and `BoundedWorkEnds` (liveness). |
| `journal` | `EventJournal`, `EventJournal.cfg` | `JournalHasNoHole`: the file is a first part of what it would be without losses, cut anywhere. `GoodLosesNothing`: `good()` means that every queued event is still somewhere. `ReaderSeesPrefix`. `VerdictIsExact`: what a reader says of a file left by a crash. |
| `recovery` | `Recovery`, `Recovery.cfg` | `CheckpointIsDurable`: what is committed is in the file, whenever the process may die. `CheckpointAdvances`. `ReplayContinues`: the replay goes on exactly where the committed state ends, nothing skipped, nothing twice, up to the end of the file. |
| `message_log` | `MessageLog`, `MessageLog.cfg` | `WithinLimit`: file and buffer never pass the byte limit. `LogIsWhatWasWritten`: the counters name what was answered `Written`, and that is what the log holds. `RefusalsAreFinal`. `ReaderVerdictIsExact`: every whole message before the first other answer, and that answer is right. `InventsOnlyPastTooLarge`: however often it is asked, recorded messages come back whole, once and in order, and one nobody recorded only after `PayloadTooLarge`. |
| `book_rebuild` | `MCBookRebuild`, `BookRebuild.cfg` | `BookFollowsExchange`: a book fed by the events is the exchange's, for both vendors and markets, in calls and in continuous trading. `PhaseFollowsExchange`. `AggressorIsIncoming`: also where the side is inferred. `CursorIsOfChannel`: the gate hears only of numbers the vendor gave to rows. `DamageIsContained`: after a row with a field missing the book is wrong at most about the orders that row was about. |
| `fixed_point` | `FixedPoint`, `FixedPoint.cfg` | `ParseIsExact`: the parser accepts exactly the texts that write a number which is whole at the scale and fits, and returns it. |
| `gateway` | `MCGateway`, `Gateway.cfg` | `CountersAgree`: session, payload log and mapper report the same messages, over all attempts. `LogsAreTheFirst`. `RefusalEndsSession`: no policy retries past a refusal. |
| `gateway_attempts` | `MCGateway`, `GatewayAttempts.cfg` | Violated: see Findings. |

The gate, the ring and the session also check their type invariant. The other modules
have none in the runs: the theorems' invariants begin with one.

### Bounds

- `gate`: `MaxSeq = 3` puts two steps and the wrap within reach; two partitions are
  enough to be wrong about one; `StatsModulus = 2` makes the counters wrap; `MaxFeed
  = 3` bounds the history only: `Accept` is disabled beyond it, that is after a baseline
  and two accepted rows, which is enough to cross the wrap (3, then 0 and 1 in a
  replay). The proofs hold for every bound.
- `channel`: three rows allow for a gap of one and of two, a repetition and a late
  row, and for a row missed while the previous recovery was running. `StatsModulus =
  1` switches the counters off.
- `ring`: four slots, two turns of the ring per turn of the indices, so both the
  slot and the index wrap occur; two values tell order.
- `session`: limits 0 (none), 1 and 2, so that a limit can be reached in one attempt
  and over two; counters saturate at 3, above every limit, which closes the infinite
  loops of a session without limits. Waits: initial 0, 1 and 5 against caps 0 and 3,
  poll interval 2, so that a wait of several chunks, a last chunk that is cut, an
  uncapped first wait and a wait of 0 all occur.
- `journal`: a queue of two and five events, so that the queue is full, wraps, and
  drains between two losses.
- `recovery`: the journal's bounds; `Top = 9` is above them, so that saturation is
  not reached: at the largest sequence the code replays an event that was applied,
  and no journal gets there.
- `message_log`: payloads of 0, 1 and 3 units and one that no frame header can name; limits
  none, smaller than the file header, and 8, which a frame of 3 reaches to the unit;
  three messages are one written, one refused and one after it; the reader's own limit
  of 2 lies between the payloads.
- `book_rebuild`: three orders of 1 or 2 shares give a partial fill, an order that
  takes two others and one that rests after a trade, in the calls and between them; a row is damaged
  while no more than two orders have arrived, and the exchange begins something new only
  until one row has followed it (`RowsAfter`), but ends what it has begun: that
  is time for a third order to enter, to trade with what the damaged row left behind, or to be
  cancelled. The theorems hold for every bound.
- `fixed_point`: a result type of 8 bits (127, -128), whose decimal boundaries ..7 and
  ..8 are those of int64 (..807, ..808); five characters pass it from every side, at scales -1 to 3
  of at most 2. Digits 0, 1, 2, 7 and 8 write both limits and their neighbours.
- `gateway`: command lines of at most two options, of every kind that reaches session or
  pipeline, so that options that switch each other on or off meet in both orders; numbers of 3 and 4 bits, and a
  backoff beyond the signed half of them.

Deadlock is checked in every run but two, where the system stops: at the end of a day
(`book_rebuild`) and of the texts (`fixed_point`). The session's signal handler and the
journal's reader can always step, so neither run could show one: that the session
reaches its end is what its liveness properties say.

### Fairness

- `ring`: the consumer polls (`WF` of a check that sees the current index, because a
  store becomes visible in finite time) and neither thread stops inside a call.
  Nothing makes the producer push.
- `session`: `WF` of the session's own steps, which block nowhere outside the
  network, and of the network's: every blocking call returns, with an outcome of its
  choice. The second is an assumption, not a fact about the code: the read is
  synchronous (`net/beast/websocket_client.hpp:206`), and while the peer is silent
  the stop flag is not looked at. `StopHonoured` is to be read with this condition.
- `channel`: `WF` of the service, which is external. The mapper does nothing by
  itself; the property says that its interface lets a diligent service succeed.

## 4. What is proved

Every safety and action property of the runs that pass is a theorem, and of each liveness
property the part that needs no fairness. The theorems hold for
every value of the constants that satisfies the `ASSUME` of the module, and assume nothing
else.

| Module | Theorems |
|---|---|
| `SequenceGateProofs` | `TypeCorrect`, `ContinuityHolds`, `StaleStepsHold`, `DeadEndStepsHold`, `StatsHold` |
| `TonglianChannelProofs` | `ChannelIsGate` (the channel implements `SequenceGate`), `BookHolds`, `RepairNearsEnd` |
| `BookRebuildProofs` | `DayHolds`, `BookFollows`, `PhaseFollows`, `AggressorFollows`, `CursorOfChannel`, `DamageHolds` |
| `SpscRingProofs` | `TypeCorrect`, `RaceFreedom`, `Refinement` (the ring implements `BoundedFifo`), `FreeSlots`, `HeadNearsRelease` |
| `GatewayProofs`, of the session | `TypeCorrect`, `BudgetHolds`, `ReasonHolds`, `LateHolds`, `BackoffHolds`, `StopNearsEnd`, `WorkIsFinite` |
| `GatewayProofs`, of the gateway | `GatewayIsSession` (the gateway implements `FeedSession`), `GatewayReasonHolds`, `CountersHold`, `LogsHold`, `RefusalHolds` |
| `RecoveryProofs`, of the journal | `JournalTypeCorrect`, `NoHoleHolds`, `GoodHolds`, `ReaderHolds`, `VerdictHolds` |
| `RecoveryProofs`, of the recovery | `RecoveryIsJournal` (the recovery implements `EventJournal`), `DurableHolds`, `AdvanceHolds`, `ReplayHolds` |
| `MessageLogProofs` | `LimitHolds`, `RefusalsHold`, `WrittenHolds`, `VerdictHolds`, `NothingIsInvented`, `LogTypeCorrect` |
| `FixedPointProofs` | `ParseHolds` |

**Gate.** `TypeOK` and `Continuity` are inductive together: accepting a sequence
needs that the cursor is the end of the run, which is why `FeedEndsAtCursor` is part
of the property. The two action properties follow from the actions and the types.
`StatsAccount` speaks of remainders; inductive is that the sum of the counters and the
history differ by whole turns (`Turns`), which a counter that wraps changes by one.

**Channel.** Every step is a step or a stutter of the gate, which brings the gate's
invariants with it. `BookInv` adds to `BookIsExact` what holds of a service that is not
live: rebuilt, it has the book up to the end of its replay; stopped, replaying or rebuilt,
its gate is not healthy, so that no row is accepted behind its back. A row that a live
contiguous gate accepts is the cursor's successor (`NextRow`), and the book of one row
more is the book with that row behind it (`BookGrows`).

**Trading day.** What a row becomes is proved mapper by mapper first: an order, a cancel, a
trade, a phase, from either vendor in either market, with the side and the resting order of a
trade as `CnMarkets` infers them (`AddOutcome`, `CancelOutcome`, `FillOutcome`, `StatusOutcome`),
and that no row at all, damaged or not, gives an event that names an order the row is
not about, except 0, which is none (`OutcomeIsSound`).
Inductive is then that the book is behind the exchange by exactly the one row on its way
(`StepInv`): delivered, it makes the book the exchange's. That needs the ids of the orders to
be unique and growing (`IdsInv`), because the number of an order decides which side of a
trade came in and a reduction must not reach a second order; and the place of the cursor among
the rows that are gone (`CursorInv`): while the gate is healthy it has accepted the last row
gone or, after a loss, an earlier one, and a row that comes again is never younger. After a
damaged row the two are in step but for the orders it named (`ContainInv`): an event leaves the orders it
does not name as they are, and two books that agree about some orders go on to agree about
them (`BookAfterWithout`), also while the damaged row's order lives on in one of them. How
the gate moves is taken from `SequenceGateProofs` (`ObserveMoves`, `FollowsIsAbove`).

**Ring.** Race freedom is not inductive. `IInv` adds where each thread's last view
of the other's index stands: the producer's view of the read index lags behind it by
no more than the free room (`ProducerWindow`), the consumer's view of the write index
lies between the indices (`ConsumerWindow`). From the windows it follows that a push
past its check has room and a pop past its check has an item. `SlotOfPlus`, that going
*k* indices on is going *k* slots round also across the wrap, needs `IndexSpan % Capacity
= 0` and is the only place that does. The refinement adds `Contents` (what the slot in
work holds) and shows that `Publish` is a push, `Release` a pop and every other step a
stutter.

**Session.** None of the four invariants is inductive. `SessionInv` adds: flags exist
only at the end of an attempt (`FlagsInv`); while more may be read the budget is not
used up (`BudgetInv`); during an attempt the client's limit and the session's leave
the same rest (`ClientInv`), which is why the client's limit never fires first; the
number of attempts against its limit (`AttemptsInv`); a transport that cannot work is
found out by the first attempt (`TransportInv`); what was begun late was begun from a
place the session does not come back to (`LateInv`). There is one lemma per action. The
backoff needs to be known below its cap before it is raised (`CapInv`): otherwise the cap
could make it smaller.

**Gateway.** Every step is a session step, so that `SessionInv` and with it the
stop reason carry over. `GatewayInv` adds which messages are counted but not delivered
(`DeliveredInv`), and what a refusal leaves behind (`RefusedInv`): the handler's flag,
without the limit's, in a place from which only the end is reached. That is why no
policy can retry past it.

**Journal.** A cut is said place by place, not as a fold over the events: units in the
order of their places, each at its place (`IsCut`, `Place`). `JournalInv` says which events the
queue holds and which frame is in hand (`QueueInv`), that file and buffer together are a
cut, as long as what was appended unless an error has come (`LogInv`), and where the
reader stands (`ReaderInv`). The verdict needs one more invariant (`VerdictInv`) about a
file that does not change any more. That a good writer has lost nothing (`NothingLost`)
follows from where the events stand: those of the log, the one in hand and those of the
queue are the numbers from 1 on without a gap. The types need what the queue holds to be
within its capacity (`HeldInv`); the rest of them follows from `JournalInv`.

**Recovery.** On top of `JournalInv`: only this partition is committed, and nothing that is
not durable (`CommittedInv`); what is durable has its whole frame in the file (`DurableInv`),
which holds because a good `flush` after the appends empties the buffer; and what the
replay has applied is what it has read less what was committed (`ReplayedInv`).

**Message log.** While no write has failed, the counter is what is kept; afterwards the
counter misses a frame that the limit had allowed (`KeptInv`). A final answer leaves the writer
limited or its stream bad (`RefusedInv`), and both last until the next `open`.
What the log holds is said of its places: each belongs to the file header or to a frame that
was begun, the frames lie in order, and each place holds the unit it should (`PlacesInv`);
the counters end where the written frames end, and these fill everything below
(`CountedInv`). A closed writer has nothing in memory (`ClosedInv`), so that the file a
reader opens is the log. Before its first answer other than a message the reader stands at the
beginning of a frame, or where one would begin, and has returned exactly the messages before
that place (`ReaderInv`); afterwards it may stand anywhere. A header it finds at the beginning of a frame is one
that `append` wrote there; anywhere else it may be anything, and the reader gets there only
past a payload it has refused: that is what `InventsOnlyPastTooLarge` says.

**Fixed point.** While digits are taken the value is the number so far times the power of
ten of the fraction digits taken, and digits are dropped only when all of the scale's are
there (`ScaledInv`, `ReadingInv`). A refusal has a reason that no further character mends
(`Wrong`, `WrongStays`): not a decimal number, no digit, larger than the limit at the scale,
or between two neighbours at the scale behind the point. The guard before a digit is exactly
the one that keeps the value within the limit (`FitsIsExact`). That the recursive
`PowerOf10` exists, is positive and grows is proved by induction over a set of numbers
(`SetInduction`), which the library's well-foundedness of `<` gives without an operator
parameter.

**Progress.** A liveness property says that steps are taken and that they lead somewhere.
That they are taken is fairness, which the provers cannot treat; that they lead somewhere
is a distance that shrinks, and is proved.

- `StopNearsEnd`: once the stop flag is set every step of the session brings it nearer to
  its end (`StopDistance`, at most 6), so that no retry policy can outlast a stop.
- `WorkIsFinite`: with both limits set every step uses up something, in this order: the one
  signal that counts, attempts, messages, places of an attempt, the wait (`UsesUp`); attempts
  and messages stay within their limits (`LimitsHold`).
- `HeadNearsRelease`: a consumer that has seen an item is at most four of its steps from
  releasing the head; no load, however stale, makes the queue look empty again
  (`NoFalseEmpty`, from the windows of `IInv`), and the producer takes nothing back.
- `RepairNearsEnd`: a stopped service is at most five of its steps from being live again
  (`RepairLeft`), no row takes it back, and where it waits it can go on (`CanGoOn`): the cursor
  is never beyond what the vendor has produced, a gate that was reset takes a baseline, and
  the rows have a book up to each of them. That last part is kept by every step
  (`RepairInv`), which is why it needs no induction over data.

Only model-checked: the liveness properties themselves (`HeadIsConsumed`, `StopHonoured`,
`BoundedWorkEnds`, `BreakIsRepaired`), which put the distances above together with fairness;
and the two violated properties of the Findings, which are not theorems.

## 5. Findings

`channel_recovery`: `src/docs/components/service.md:30-31` says that once everything is
replayed and the books are rebuilt the provider gate is told that recovery is complete.
`TonglianMapper` forwards `begin_recovery` and `complete_recovery` to its gate but not
`observe_recovery`, and `map` is refused while the gate is recovering, so the cursor
cannot move: `complete_recovery` at the end of the replay returns false. The run shows
it without anything interfering. `BreakIsRepaired` shows the way out: `reset`, then
`complete_recovery` as for a new baseline.

`gateway_attempts`: the usage text (`src/apps/gateway/src/binance_live_runner.cpp:314`)
offers `[--max-attempts=1 | --reconnect]`, a number of attempts or reconnecting without
end. `src/apps/gateway/src/binance_live_options.cpp:153` parses 64 bits and casts to
`uint32_t` without a check: 4294967296 becomes 0, which `service/feed_session.hpp:68` reads
as "0 表示无限重试" (0 means retrying without limit). The run has a narrower type.

Behaviour worth knowing that contradicts no document: a recovery begun on a gate without
a baseline is a dead end; a reader asked again after `TruncatedTail` answers `EndOfFile`;
the backoff is never reset by a successful connection, and its first value is not capped
by `max_backoff`; a torn tail of a message log is answered `InvalidHeader`, as is a
damaged file; a message log reader asked again after `PayloadTooLarge` starts inside the
payload it did not read (`replay/message_log.hpp:408-410`) and returns what looks like a frame
there; `DropNew` leaves holes; `--log-payload=0` means no limit but
`--log-normalized=0` means no event; a Csmar Shanghai trade that names only the active
order is published with resting order 0, which no book holds, so that the order it reduced at the
exchange stays in the book as it was (`DamageIsContained` says that no other is touched); `replay_from_sequence`
saturates at the largest sequence.

## 6. Not modelled

- The decoding of one record or message: a damaged byte inside a frame, magic numbers and
  versions of headers. The readers' models tell apart what a cut leaves, and `MessageLog` that a
  payload may look like a header.
- What an `ofstream` does with its buffer after an error: `Stream` assumes that it is
  dropped for good. The standard does not say so; a library that writes left-over bytes in
  `close` could append part of a frame to the file after the error.
- A wait beyond 2^53 milliseconds: `next_backoff` multiplies in `double` and casts back. Below
  that the product by the default 2.0, which nothing in `src/` changes, is exact, and
  `Multiplier` is a natural number.
- An instrument whose phase updates come from two channels, which the tracker would number together.
- Formatting, logging and reports, the JSON reader, endpoint and feed key text, the preview length
  of the payload log: pure text that decides nothing modelled here. What fails in it
  appears as an outcome (a payload that does not map, a log line that throws).
- The Boost.Beast calls below `WebSocketClient::run`: a library. Their results appear as the
  outcomes of an attempt.
- `empty`, `full` and `size_estimate` of the ring: they change no state, and no third thread calls them.
- Reopening a journal on the same path: the writer truncates, and nothing in `src/` reopens one.
- `feed/feed.hpp`, `feed/message.hpp`: plain data.
- `src/tools/bench-tonglian-mapper`: a measurement tool. transport, cluster, client, reference, codegen: no code.
- Clocks. Data are abstracted to what the properties tell apart: a message is a count, an event a
  number, a status its name.

## 7. Plan

Done, in this order, the parts that everything else trusts first: the gate; the ring, its
abstract specification and its refinement; the session; the journal on top of the queue's
abstract specification; the channel on top of the gate; recovery on top of the journal; the
message log; the market mappers over a trading day; the parser; the gateway on top of the
session. Each has its proofs.

What could come next: a service in front of `MessageLog` once the repository calls it; a
reopened journal once `src/` decides its path; several instruments on one channel of
`BookRebuild`, once `src/` has a book.

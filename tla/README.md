# A verification of the GRAPES Streamer

Streamer is a peer of a peer-to-peer live streaming overlay. A source reads a
stream, cuts it into chunks and pushes each new chunk to a few neighbours; from
there chunks spread by trading: a peer offers what it holds, the offered peer
accepts what it misses, the chunk is sent, an acknowledgement with the whole
buffer map comes back. Everything goes over UDP: any datagram may be lost, late,
reordered or repeated. This directory holds TLA+ models of that program, the TLC
configurations that check them on small instances, and machine-checked proofs
(TLAPS) of the properties that matter most. Paths below are relative to `src/`.

## 1. Inventory

| Component | State | Operations | Talks to |
|---|---|---|---|
| chunk trading (`streaming.c`, `chunk_signaling.c`, `scheduling.h`) | chunk buffer `cb`, per-neighbour `bmap` and `cb_size` | `generated_chunk`, `add_chunk`, `send_chunk`, `send_offer`, `offer_received`, `accept_received`, `received_chunk`, `ack_received`, `bmap_received` | every other component |
| chunk locks (`chunklock.c`) | array of (id, time), count, allocation | `chunk_lock`, `chunk_unlock`, `chunk_islocked`, sweep | called by trading on offers and on chunks |
| offer transactions (`transaction.c`) | list of open offers, 16-bit counter | `transaction_create`, `_reg_accept`, `_remove`, purge | called by `send_offer`, `accept_received`, `rc_reg_ack` |
| output buffer (`output-grapes.c`) | ring of chunks, `next_chunk` | `output_deliver`, `buffer_flush`, `buffer_free` | called by `received_chunk`; writes through `chunk_write` |
| topology (`topology.c`, `nodeid_set.c`) | neighbourhood (peerset), timestamps, TMan view | `update_peers`, `add_peer`, `remove_peer`, ADD/REMOVE messages | the peers that trading may use |
| ALTO topology (`topology-ALTO.c`) | as above, and the ALTO client's state | the same interface | alternative build |
| main loop (`loop.c`) | next-timer instants | dispatch of a datagram, or the timeout branch | runs every handler, one at a time |
| threaded loop (`loop-mt.c`) | two mutexes, shared buffers | one thread each for receiving, gossip, and offers or new chunks | alternative build |
| rate control (`ratecontrol.c`) | offer period, smoothed share of accepted offers | `update_period`, `update_offer_accept`, `rc_reg_ack`, `rc_reg_accept`, `rc_init` | called by the signalling handlers; paces the timer of both loops |
| measures (`measures.c`, `measures-monl.c`) | counters, instants of start and of the next report | `print_every`, the `reg_` functions, `end_measures` | called by most handlers, and by the signal handler `leave` |
| chunkstream input and output (`input-chunkstream.c`, `output-chunkstream.c`) | byte buffer, descriptor | framing, partial reads and writes, reconnection | replace the GRAPES input and output |
| file input (`input-grapes.c`) | chunk counter, start time | `input_get`, restart at the end of the file | feeds `generated_chunk` |
| configuration and start-up (`streamer.c`, `config.c`, `channel.c`) | options | parsing, wiring | run once |
| network helpers (`net_helpers.c`, ...) | none | addresses, timers | leaf |

Process model. With `loop.c` a peer is one thread: a handler runs to its end
before the next datagram or timer is looked at. All concurrency is between
peers, through datagrams, and with time (locks, transactions, timers). With
`loop-mt.c` the same handlers run in several threads under two mutexes.

Hard behaviours, the reason for the models:

- a peer decides with a *guess* of what its neighbours hold. The guess is
  overwritten by offers, acks and buffer maps that were composed earlier, in any
  order, and advanced by the peer's own sends (`chunk_signaling.c:55`);
- offers of one chunk from several holders cross; a lock with a timeout is all
  that keeps a chunk from being requested twice (`streaming.c:238`);
- the chunk buffer evicts, and nothing else remembers what was delivered: window
  arithmetic in `_needs` must keep an old chunk from coming round again;
- accepts and acks name a transaction by a bare 16-bit number that wraps;
- timed-out locks and transactions are removed lazily, some of them never;
- a peer's process may be started again, with nothing stored, among neighbours
  that remember the one before it (`transaction.c:111`);
- the offer timer advances by a period a turn, so that a stall is followed by a
  burst of offers, and its period is scaled by what the acks of others measure;
- measures are summed, reported and cleaned from whichever call comes first after
  a report is due, and once more by a signal handler;
- the output ring receives ids in any order with gaps larger than itself.

The hazards of `PROJECT.json` list these and the others at their lines, with the
properties that cover them.

What correctness means, per component: *trading* – no chunk is requested twice or
after it was had, no request is wasted, the source stays a source, beliefs are never
ahead of what was sent, acks close the transaction they belong to, every chunk
spreads, and a peer started again is taken for what it is in the end; *locks* – an
exclusive table with a timeout; *transactions* – an answer finds its own
transaction, the list is bounded; *output* – in order, each id at most once, nothing
given up too early, no fatal slot clash; *topology* – only reachable, live peers are
kept and both ends agree eventually; *rate control* – the period stays in its bounds
and recovers; *measures* – every event is in one report, and no report's rates are
inflated; *framing* – a frame is read whole whatever the read sizes; *threads* – no
deadlock, and every pair of calls that meet on the neighbourhood, the buffer or the
counters is a known one.

## 2. Modules

| Module | Models | Theorems in |
|---|---|---|
| `ChunkTrading` | all peers' trading over the network, with the local effect of neighbourhood changes | `ChunkTradingProofs` |
| `ChunkTradingHistory` | the same with two history variables (expired locks, sends) | `ChunkTradingProofs` |
| `ChunkTradingRestart` | the same with processes that end and are started again, and the liveness of trading | `ChunkTradingProofs` |
| `ChunkLock` implements `LockTable` | `chunklock.c`; the abstract exclusive lock with a timeout | `ChunkLockProofs` |
| `OfferTimer` composes `Transaction` and `RateControl` | one peer's offers in time: the timer of `loop`, `transaction.c`, `ratecontrol.c` | `OfferTimerProofs` |
| `OutputBuffer` implements `Playout` | the reordering ring of `output-grapes.c`; the abstract playout promise | `PlayoutReportsProofs` |
| `PlayoutReports` composes `OutputBuffer` and `Measures` | the output buffer with the reports of `measures.c` on what it plays and loses | `PlayoutReportsProofs` |
| `Topology` | all peers' `update_peers` (`topology.c`) and the ADD and REMOVE messages between them | `TopologyProofs` |
| `TopologySelection` | the id arrays of `nodeid_set.c` with which `update_peers` selects | `TopologyProofs` |
| `TopologyALTO` | one peer's `update_peers` of `topology-ALTO.c` and the ALTO client's thread | `TopologyALTOProofs` |
| `LoopMT` | the threads and mutexes of `loop-mt.c` | `LoopMTProofs` |
| `Chunkstream` composes `OutputChunkstream` and `InputChunkstream` over `Frames` | the chunkstream output of one streamer feeding the input of another over a byte stream | `ChunkstreamProofs` |
| `Lists` | what a walk leaves of a list: `Cleanup` of `ChunkLock`, `Purge` of `Transaction`, the filters of `TopologySelection` | |
| `MCChunkTrading`, `MCChunkTradingHistory`, `MCChunkTradingRestart`, `MCTopology`, `MCChunkstream` | overlays, symmetry and payloads for TLC | |

`ChunkTrading` and `Topology` share `nbr`: the former takes a neighbourhood change
as an input (`AddPeer`, `RemovePeer`), the latter says which changes there are.
`ChunkTrading` uses locks and transactions in their abstract form (a set, an entry
that is gone or not); `ChunkLock` and, with the clock that opens and times out
transactions, `OfferTimer` are what they are made of. `LoopMT` says which of these
handlers may overlap in the threaded build; all other modules run one handler of a
peer at a time, as `loop.c` does.

### ChunkTrading

One handler, one action. A datagram is a record (type, sender, receiver, chunk
set, transaction id) in the set `net`; `Handle` removes it, or keeps it when the
network repeats datagrams, and adds what the handler sends.

| Action or operator | Code |
|---|---|
| `Generate` | new input in `source_loop`: `generated_chunk`, `add_chunk`, then `send_chunk` for each copy |
| `SendOffer(p, q)` | `send_offer`: selection, `transaction_create`, `compose_offer_cset`, `offerChunks` |
| `ReceiveOffer` | `offer_received`: belief, `get_chunks_to_accept` (which locks), `acceptChunks` |
| `ReceiveAccept`, `Send` | `accept_received`: `transaction_reg_accept`, `send_accepted_chunks` |
| `ReceiveChunk` | `received_chunk`: unlock, deliver, store, belief, `sendAck` |
| `ReceiveAck`, `ReceiveBmap` | `ack_received` with `rc_reg_ack`; `bmap_received` |
| `LockTimeout` | a lock passes its 2 s |
| `AddPeer`, `RemovePeer`, with `Join` | the local half of `add_peer` (with the buffer map it sends) and `remove_peer` |
| `Lose` | the network |
| `Needs`, `CbAdd`, `OfferSet`, `NextTid` | `_needs`, `cb_add_chunk` (external), `compose_offer_cset`, the counter |

Abstractions: a chunk is its id, and timestamps grow with ids, so the 0.5 s of
`compose_offer_cset` is a number of ids (`Lag`). Locks and transactions may time
out at any moment, which includes the moments the clock would choose; the
refined clocks are in `ChunkLock` and `Transaction`. The random schedulers are
nondeterministic choices. `cb_add_chunk` is external (GRAPES) and modelled from
its use: it evicts the oldest id, which can be the one offered to it. A datagram
is received with the id of a live transaction or of none: `SendOffer` does not
reuse an id that is still in flight, because the 2^16 - 1 ids would have to be
spent within the life of a transaction (200 offers a second at the most, for
10 s). `Transaction` checks that arithmetic with a counter that really wraps.

### ChunkTradingRestart

Nothing of a peer is on disk. `Restart` gives it the buffer, locks, transactions,
counter and neighbourhood of a new process; the neighbours keep theirs, with what
they believe it holds, and `Rejoin` is `update_peers` finding them again. The source
does not restart: its stream would begin anew.

`Outliving` says whether datagrams sent by the old process, or to it, may still
arrive when the new one listens on its port. The new process cannot tell them from
its own, and the bare transaction numbers in them may be those it counts through
again: `former` remembers them, and `Reoffer` is `SendOffer` without the guard that
keeps an id in flight from being used, for the ids in `former`. The proofs hold for
either value (section 5). `AcksCloseAccepted` does not: an ack for the old process may
close an offer of the new one that nobody has accepted, and TLC finds it so;
`AcksCloseAcceptedOrFormer` says that nothing else does. The liveness run takes
`Outliving` to be false, and that is an assumption (a start that takes longer than
a datagram lives), which nothing in the code ensures.

`Diffusion` and `BeliefsHeal` are the two questions of liveness: whether neighbours that
remember a full buffer starve the empty one, and whether what they remember is
corrected. `send_accepted_chunks` asks once more whether the neighbour needs what
it accepts (`streaming.c:537`), and with a stale belief turns it down; the buffer
map of `add_peer` or the next ack replaces the belief.

### OfferTimer, Transaction, RateControl

`due` is `tnext - now`: a turn may come `MaxLate` late, because `loop` prefers
datagrams to the timeout, and adds one period to `tnext` whenever it comes, so that
turns that were missed follow at once. A turn makes an offer (`OfferTurn`) or finds
nobody to offer to. `Transaction` keeps the list in list order with the age of each
offer and the time since its last accept. `Purge` is the walk of
`check_neighbor_status_list` as it is written: it stops when the head has timed
out (section 4); what it leaves is `Kept` of `Lists`, the elements at given positions. A transaction that has timed out and was not purged still answers,
and its accept-to-ack time steers the rate.

`RateControl` has the two functions that assign `period` and the accepted share.
Times are whole units, as the `int64_t` of the code is a whole number of
microseconds; products with rates are integer quotients, so that a slow-down of less
than a unit is lost, as it is in the code. `1 + |log period - log initial|` is any
factor from 1 to `MaxBoost`, and the smoothed share is kept as the comparison that
uses it (`willing`). The clock does not step back.

### Measures, PlayoutReports

A `reg_` function calls `print_every` and then counts what happened. A signal may
come anywhere in it and `leave` makes a last report of what the counters then hold,
so a call is taken in the steps the signal can tell apart, and `reg` is the place:
`Call` (the chunk has left the output buffer, its `reg_chunk_playout` is entered or
about to be), then `Ignore` before the start, `NoReport`, or `PrintMeasures` with `Clean` after
it; counters are cleaned and counted in one after the other, in any order (`CleanField`,
`CountField`). `owed` is what the call has still to count. The counters kept are
those behind the playout ratio; the others are summed and cleaned with them.

`PlayoutReports` makes the call in the step of `OutputBuffer` that takes a chunk out
(`chunk_write` comes before it, and `output_deliver` goes on when it has returned), lets
other parts register their events in between (`OtherEvent`), and lets `leave` end the
program in every state. `ReportsAddUp` says what such an end costs: the chunk that
`owed` is about may have been played and be in no report, and what a report told that
had not been cleaned is told twice; everything else is in one report. A report is
the line it prints: what happens when the signal hits the `fprintf` of a report,
which the handler calls as well, and a second signal inside the handler are left out.
`reported`, `early` and `oldest` are history variables for the two properties.

### The others

`ChunkLock` keeps the array in lock order, its allocation and a clock. Each call
sweeps first, as `chunk_islocked` does, and `Unlock` releases the first entry of
the id, live or not. Under the mapping that hides timed-out entries it
implements `LockTable`, where a lock is held by an id for at most `Timeout`.

`OutputBuffer` runs `output_deliver` loop iteration by loop iteration. `pc` is
where it stands, `i` its loop variable, `c` the chunk. `exit` is the state behind
the `"Crap!"` message. Playing (`chunk_write` and `reg_chunk_playout`) is the set
`played`; the abstract `Playout` says which id may be played or given up when.

`Topology` has one action for what each call of `update_peers` can be: the timer
(`Tick`), an honoured ADD or REMOVE, a gossip message (`ReceiveGossip`), or a
request that is no request because `topo_in` is off (`IgnoreRequest`).
`topo_out`, `topo_in` (`--topo_out`, `--topo_in` or `--topo_bidir`) and whether neighbours
may fall silent are variables that `Init` chooses and no action changes, so that
one run covers the three modes. Selection is the code's arithmetic with the
choice left open: which old peers survive, which are desired and which random
ones join depends on round trip times and `rand()`, how many do not
(`Keep`, `DesiredPart`, `RestSize`, of the options in `SizeOptions`). Messages between two peers keep their order
and are not lost: the properties fail trivially otherwise, and `LinksMutual`
fails even so.

`TopologySelection` is the same selection as the code computes it: arrays of
`max_ids` entries, cut off where `nodeid_set.c` runs out of room, shuffles and
sorts as orders by any ranking. It is a pure function of the old neighbourhood and
the view. `Outcomes` is all it may yield, `Allowed` all that `MaySelect` of `Topology`
does; `SelectionIsExact` compares them under the overlay's own options (`Own`) and under
any others one names (`Sizes`; `MCTopology` names `ThreeRounds`).

`TopologyALTO` follows the single thread through `update_peers` stage by stage;
`Answer` is the ALTO client's thread, which may come in at any point. The loops
that take one element a time (`RandomPick`, `AddRanked`) take one a step.

`LoopMT` describes a thread by the call it is in (`section`), the mutexes that call
is wrapped in, and what it writes and reads of the three things that threads share:
the neighbourhood, the chunk buffer and the counters of `measures.c`. Its `Race` is
the undefined behaviour of C, so the model stops at saying which pairs of calls can
meet.

`Chunkstream`: a byte is a pair (chunk, position), so that a frame that is cut,
repeated or run into another is seen as such. Writes take any number of bytes and
may fail; reads return any number that fits. `Damage` stands for the length that
`chunk_write` adds when `encodeChunk` fails (section 4).

A definition whose comment begins with "Fault:" is a variant of the one after it
with a plausible bug (a dropped guard, an off-by-one). No action uses it; put in
the place of the original it makes a run fail, which shows that the property
depends on the code being as it is. `PROJECT.json` pairs them under "mutants".

## 3. What is checked

| Run | Instance | Shows |
|---|---|---|
| `trading_churn` | 2 peers, buffer 3, 5 chunks, ids 1 only (wrapping at once), one neighbourhood change, with and without metadata, repetition | types; `SourceNeverAccepts`, `AcksCloseAccepted`, `NeverRerequests`, `AcceptsStorable`, `NoPhantomChunks` |
| `trading_restart` | source and 2 peers in line, mutual neighbours, buffer 3, 3 chunks, one restart of the middle peer at any moment, fair timers and deliveries, no loss, `Outliving` false | `Diffusion`, `BeliefsHeal` |
| `history_pulls` | 3 peers, two holders whose offers to a third cross, loss | `SinglePull` |
| `history_sendsonce` | 3 peers, no loss | finding: `SendsOnce` is violated |
| `chunk_lock` | 4 ids, allocation step 2, clock to 6 | the array fits, unlock releases, `LockTable` is implemented |
| `offers` | 2-bit ids, lifetime 1, periods 1 to 4 from 2, stalls of 1 | own transaction found, bounded list, id 0 free, period bounded, `RecoversSpeed` |
| `output_buffer` | ring of 3, ids 0..6, reports every 2 of 6 instants, a signal anywhere | no exit, window, order, `Playout` is implemented, `ReportsAddUp`, `ReportsCoverTheirEvents` |
| `topology` | 3 peers, target 1, all modes, silence, 3 messages | `ChosenWithinTarget`, `InLinksAgree`, `SelectionDrains`; `SelectionIsExact` |
| `topology_mutual` | the same with 4 messages | finding: `LinksMutual` is violated |
| `alto` | 3 other peers, limits 0 to 3, share of 80 % | picks end, the list gets in without outgrowing the limit, every answer is used |
| `loop_mt` | peer and source, either topology module | `OnlyKnownRaces`, `BufferIsReleased`, no deadlock |
| `chunkstream_cut` | 5 chunks of 1 to 3 bytes, header 2, buffer 8 | frames are read whole, once, in order, and none is left behind |

Bounds. The trading runs need a third peer for crossing offers and for a belief about a
peer that others feed; two peers do for the rest, and let the buffer of 3 evict twice
with 5 chunks while the neighbourhood changes. Two or three datagrams in flight suffice
for every reordering of an offer-accept-chunk-ack exchange with a second exchange.
`MaxChunk`, `MaxNet`, `MaxChurn` and `MaxInFlight` are the bounds of these runs; they
appear in guards only. `MaxTid` is the width of the counter, kept small so that it
wraps. `MaxRestarts` allows one restart, at any point up to the last chunk
(`LastRestart`): a second one meets the neighbours in no state the first does not. It
may come when all three chunks are there, so that neighbours remember a full buffer {1,
2, 3} of a peer that has nothing, and must still offer it 2 and 3 (1 is the oldest,
which is never offered). The peer that is started again is the one between the other
two, so that both remember it, its offers and theirs cross, and a chunk that one turns
down is locked against the other. With a buffer smaller than `MaxChunk` a peer that
comes back late misses ids by plain eviction, so the two are equal.

The run is as large as five minutes allow. Outside the runs the same configuration was
checked with `CbSize = MaxChunk = 4` and `LastRestart = 5` (2,050,807 states, 40
minutes), where an id generated after the restart must get through while neighbours
remember older ones that they may offer, and with `Restarting = {a, b}` (271,656
states); both properties hold there too.

In `chunk_lock` the
clock (`MaxTime`) runs three timeouts and the array grows twice; `offers`, `alto` and
`loop_mt` run for ever. In `offers` a lifetime holds three offers at the shortest period
and after the longest stall, as many as there are numbers (`EnoughIds`, which the code's
65535 numbers, 10 s and 5 ms satisfy for stalls below five minutes); the initial period
is neither bound, so that both branches of `update_period` are taken; `AccCap` and
`PeriodMax` bound times since an event beyond which nothing changes. `alto` covers every
limit below, at and above the number of known peers. `output_buffer` has room for two
full turns of the ring and one id more, and `MaxTime` for a start and two reports, on
time, late, or one after a missed one. In `topology` a target of 1 with 3 peers lets
both others ask at once, which is what overcrowds a neighbourhood; `Bounded` counts
messages of the whole overlay. `SelectionIsExact` compares every old neighbourhood and
view of 3 peers, at that target and at target 3, where three rounds all take part. In
`chunkstream_cut` the buffer holds two small frames or one large one with part of
another, so that every cut of a header and of a body occurs. Runs with `CHECK_DEADLOCK
FALSE` are those in which the input ends (`MaxChunk`), so that trading or framing may
come to rest, or a signal ends the program (`output_buffer`). `PeersSymmetry` is used in
safety runs only.

Fairness.

- `trading_restart`. The loop's timers keep firing and every firing of a peer's calls
  `send_offer`, which draws the neighbour at random among those that need a chunk, so a
  neighbour that needs chunks for ever is drawn: strong fairness of `SendOffer(p, q)`.
  `Generate` follows the input. Gossip goes on until a new process has its neighbours
  (`Rejoin`). Strong rather than weak, because the bound on datagrams and the id guard
  disable the two in passing, which the code has no counterpart of. Weak fairness per
  channel, of offers, of accepts and of the datagrams that tell what a peer has
  (`chunk`, `ack`, `bmap`), says that the network delivers, and a lock's two seconds
  pass (weak fairness of `LockTimeout`). Nothing is asked of channels that carry
  nothing: the source is offered nothing and accepts nothing. `Diffusion` is stated
  without loss and churn: a datagram protocol without retransmission of pushes promises
  nothing else. It has two clauses. In the end no mutual neighbour holds a chunk it may
  offer to a peer that needs it, whatever was believed when the peer started (over
  one-way links this is false, see 4); and ids after the last start reach every peer,
  but for the first `1 + Lag` of them: `compose_offer_cset` never offers the oldest ids
  of a buffer, so these depend on the push alone.
- `offers`. No fairness: `RecoversSpeed` carries its own assumption, that acks
  keep coming in real time and in the end none is late. Whether they come is up to the other peers.
- `alto`. The timer calls `update_peers` for ever, a call that began goes on, and
  the ALTO client ends every query it accepted, with a result or an error.
- `loop_mt`. The scheduler runs every thread that can run (weak fairness per
  thread). Who gets a mutex is left open: pthread mutexes promise no order, so the
  distributor, which wants both, may starve, and no property says otherwise.
- `chunkstream_cut`. `loop` calls `input_get` when the socket is readable or the
  last call asked for another (weak fairness of `Prompted`, not of the timer).

## 4. Findings

- **SendsOnce** (`chunk_signaling.c:55`). `ack_received` replaces what the peer
  recorded of the neighbour by the acked set. The ack of an earlier chunk, composed
  before a pushed chunk arrived, so wipes the record of the chunk that is still in
  flight. The peer offers it, and since nobody holds a lock on a pushed chunk the
  neighbour accepts it: it is sent twice, with nothing lost and no timeout. "don't
  send twice ... assuming that it will actually arrive" (`streaming.c:541`, `710`)
  does not hold. (`chunk_signaling.c:55` has a TODO about chunks in flight.)
- **LinksMutual** (`topology.c:426`). In the default mode both ends of a link
  decide alone and apply each other's ADD and REMOVE as they arrive. An ADD that
  crosses a REMOVE leaves a peer that pushes to one that has dropped it, although
  nothing is lost and nothing is in flight; `topology.c:58` and `streamer.c:132`
  call the mode bidirectional. The next selections repair it by chance only.

Met while modelling, and not given a run:

- `transaction.c:94`: the purge clears the head's `forward` before it reads the
  next element from it, so it stops at the head, and a timed-out head hides the
  timed-out elements behind it until the next offers. `ListIsBounded` shows how far
  this goes.
- `transaction.c:190`: an unknown id gives -2.0 where `transaction.c:172` and
  `transaction.h:42` document -1.0. The callers treat both alike.
- `output-chunkstream.c:136`: `size` is unsigned, so the test `size <= 0` does not
  see the -1 of `encodeChunk`, and the "skipped" chunk moves `pos` back into the
  frame before. `EveryChunkIsRead` excepts streams damaged in this way.
- `loop.c:195`: `source_loop` asks the input for a chunk whenever it wakes, also when
  only an offer is due. If offers are more frequent than chunks, a file is streamed
  ahead of its time.
- `ratecontrol.c:86`: with a clock that is set back `dt` is negative, and so may the
  period be in the slow-down branch, which has an upper limit only.
- `measures.c`: a report is made by the first event after it is due and at most one
  report per event, so after a silence come reports that cover one event each, with
  windows that overlap; what `ReportsCoverTheirEvents` says is that none of them
  inflates a rate. `end_measures` before the start has a negative timespan.
  `get_receive_delay` is 0/0 after each cleaning, and `topology.c:91` puts it into
  the metadata as it is. `output-grapes.c:172` registers a lost chunk with the time
  stamp of the chunk that replaces it.
- `streamer.c:421`: `leave` prints and exits inside a signal handler. Between
  `print_measures` and `clean_measures` (`measures.c:195`) it has the last report
  repeat the one before it, and between `chunk_write` and the counting
  (`output-grapes.c:113`, `measures.c:222`) a chunk was played that no report has, or one
  that has it counted as played and not yet as a chunk. `ReportsAddUp` bounds both.
- `topology-ALTO.c:344`: the loop over `altoList` states as its "second goal : do not
  increase current peerset size". The loop does increase it whenever there is room
  below the limit, or no limit; only a full peerset keeps its size. `ListGetsIn`
  states what the loop does, and differs from the comment in that.
- `streaming.c:537`: a neighbour that a restarted peer does not have itself (a link of
  `topo_in` or `topo_out`) is not sent the buffer map of `add_peer`, and believes what
  it remembers until an ack comes. If it offers a chunk that it remembers the peer to
  have, the accept of that offer is answered with nothing while the chunk stays locked
  for its two seconds, and offers of the chunk by others, when they come in that time,
  are turned down. TLC finds an execution in which this goes on for ever once the source
  has ended (one-way link from the source, buffer 4, 4 chunks); the ack of the next
  pushed chunk ends it. `Diffusion` therefore speaks of neighbours that have each other.
- `transaction.c:111`: the counter of a process that is started again begins where
  the one before it did, so an ack of the old process may close an offer of the new one
  that was not accepted (`ChunkTradingRestart` with `Outliving`).
- `input-chunkstream.c:134`: a chunk whose encoding fits `BUFSIZE` only without its
  length, by up to four bytes, is framed (`encodeChunk` is given the room of the length
  as well) and can never be held by the reader, which then waits for ever.
  `FramesAssumption` leaves such chunks out.
- `topology-ALTO.c:375`: with room for one more, the whole gossip view is added;
  `streamer.conf:5` calls the limit the "Desired maximum number of peers". And a
  peer that was dropped while its query was under way is added again from the list.
- `loop-mt.c`: `ratecontrol.c` refers to an external `struct timeval period`, which
  `loop.c` has and `loop-mt.c` does not (its `period` is a static `int`), so the
  threaded build does not link at this commit. `LoopMT` models its source as it is.

## 5. What is proved

All theorems are for every value of the constants that satisfies the named
assumptions of the modules: any peers, any overlay, any buffer size, any bounds.

`ChunkTradingProofs`: `TypeCorrect`, `NoRerequest`, `Storable`,
`SourceStaysQuiet`, `BeliefsHold`, `AckAfterAccept`: the type invariant and every
safety property of `ChunkTrading`. None of the properties is inductive; the
invariant `IInv` adds

- `Windows`: in every peer, the ids that were had and are not stored are older
  than all that are, and then the buffer is full. This is what the buffer
  "remembers". `CbAddWindow` shows that `cb_add_chunk` keeps it for whatever id
  comes, `NeedsNothingSeen` that `_needs` with it turns down every id ever had;
- `KnownIds`: the source has had every id there is. With `Windows` it asks for
  nothing, so that its accepts are empty (`SourceQuiet`) and no chunk goes to it;
- `AcceptedBeforeAck`: a chunk under a transaction id, and the ack that follows,
  find that transaction accepted or gone, since the id of a datagram in flight
  never starts a new one;
- `Truthful`: what is announced was had, and a chunk datagram carries one id,
  from which a belief is either true or backed by a chunk in flight.

Two lemmas carry the steps: `StoreStep` (what a step does to a buffer) and
`NewMessage` (where a new datagram comes from); one lemma per conjunct of the
invariant follows from them without opening the actions again.

`OnePullAtATime` is `SinglePull` of `ChunkTradingHistory`. It needs `PullsHeld`: as
long as the lock of a chunk has not run out, a request or a copy in flight means
that the peer holds the lock or has the chunk. A second accept would need the
peer to want a chunk it holds or has, which `get_chunks_to_accept` and, by `Windows`,
`_needs` rule out.

`SafeAcrossRestarts`, `NoRerequestAcrossRestarts`, `AckAfterAcceptOrFormer` and
`SourceStaysQuietAcrossRestarts` are about `ChunkTradingRestart`, for any number of
restarts and whatever outlives the old processes. `IInv` is `BaseInv` (types, buffer
windows, the silence of the source), `AcceptedBeforeAck`, `Truthful` and `NoPhantomChunks`.
Restarts keep `BaseInv`, to whose steps `Reoffer` adds no message of another kind
(`OfferBase`). They do not keep `AcceptedBeforeAck` when old datagrams are still there:
`AcceptedOrFormer` takes its place in `RestartInv` and excepts the ids in `former`, which
`Restart` collects from the network and `Reoffer` alone may use (`StaleStep`, `ReofferKeeps`).
Nor do they keep `Truthful` and `NoPhantomChunks`: offers of the old process name
what the new one never had, and neighbours do believe in the chunks of the old
process for a while, and that this passes is `BeliefsHeal`.

`ChunkLockProofs`: `TypeCorrect`, `StaysAllocated`, `UnlockIsComplete`, and
`Implementation`: every behaviour of the array is one of `LockTable`. The invariant
`LockInv` adds the order of times (`Aged`) and one lock on a chunk, live or not
(`Exclusive`), which holds because `chunk_islocked` sweeps before `chunk_lock`
appends. By `Aged` a sweep takes the first entries only, so that it is a shift. For
the refinement, `IsTable` says by which properties a function is the table of the
live locks, and `AcquireTable`, `ReleaseTable`, `PassTable` that the abstract steps
keep them.

`PlayoutReportsProofs`, on the output buffer: `TypeCorrect`, `Survives` (the fatal exit is unreachable),
`RingCorrect`, `InOrder`, and `Implements`: every behaviour of the ring is one of
`Playout`. The argument is about `%`: ids less than a ring apart have different
slots (`SlotInjective`), so the slot of the awaited id holds it or nothing
(`HeadOfRing`) although the code tests slots and not ids, and the slot of a new
chunk is free or holds the same chunk. `CallState` says what the local variables
mean at each point of a call. On the reports: `ReportsComplete`, `ReportsHonest`, and `BufferUnaffected`,
by which the theorems on `OutputBuffer` hold with reports and a signal as well. The
invariant of the reports (`MInv`) is about instants: counting starts before what the
next report covers, that begins a period before the report is due at least, and
the oldest counted event is not before it (`Covered`). For `ReportsComplete` each step
of the buffer adds one id to `played` or `lost`, which it was not in (`Growth`,
from the proved window invariant), and to what is owed (`CallAdds`); the steps of a call
keep the sum of what was ignored, told, held and owed (`RegisterKeeps`), where counters
that a report has told and nobody has cleaned count for nothing (`Held`); and a signal
tells exactly these a second time (`LeaveRInv`).

`OfferTimerProofs`: `PeriodStaysInBounds`, for all rates, delays and boosts, from
`RateInv`: the quotients keep a positive period, and the two limits the rest. Also
`TypeCorrect`, `OwnTransaction` and `ListStaysBounded`, from the assumption `EnoughIds`
alone: a lifetime, with the longest stall, holds fewer offers at the shortest period
than there are numbers. `ListInv` ties ids to time. If n offers followed an entry
that has not timed out (`Given`, a distance of ids around the wrap), then n shortest
periods fit into its age and a stall, and n + 1 once the time to the next turn is
added (`Paced`); that second form is what a turn, the clock and a shortened period each
keep. So no id of a live entry comes round again, and an entry's place in the list
is at most the number of offers after it (`Spaced`), which bounds the list.

`ChunkstreamProofs`: `TypeCorrect`, by which the reader's buffer never overflows, and
`DecodesFrames`. `StreamInv` speaks of the whole `Stream`, which is what the reader has,
what is under way and what the writer has, one after the other: a frame that begins
in it is there to its end and is followed by the frame of the chunk framed next, by
damage, or by nothing (`Framing`), and its front is the chunk to be handed out next
(`Front`). Writes and reads move bytes along the stream and leave it as it is, whatever
they are cut into; only framing (`AppendFrame`, `AppendDamage`), decoding (`DropFrame`)
and a broken connection change it.

`TopologyProofs`: `TypeCorrect`, `InLinks`, `Drains`, `WithinTarget`, for any finite
set of peers, any target and any percentages. The invariant behind `InLinks`
(`LinksInv`) says what the messages still in flight will make of a link: if the
newest message from p to q is an ADD, p has q in `savedids`, if it is a REMOVE, it
has not, and with none in flight q pushes to p exactly when p chose q
(`NewestMessage`, `LinksStep`). The sizes come from `Percentages` and
`SelectionSize`: three rounds never add up to more than the target or the kept part.

The arrays of `TopologySelection` (`ArraysAreExact`, `Exact`, `SelectionExists`, for any
options in `SizeOptions`) need no invariant of the overlay but the types; the work is in the arrays. Each holds a
listing of a set, every element once, and each operation of `nodeid_set.c` makes
a listing of the set its name promises, when the result has room (`ComplementListing`,
`FilterListing`, `AddListing`, `AddIListing`). What these rest on is
`NthFact`: numbering the positions a filter keeps is one-to-one, and therefore, by
counting, onto. `Rounds` follows the three rounds through the arrays. One direction
(`SelectedIsAllowed`) is then immediate, and shows that a selection always exists;
for the other (`AllowedIsSelected`) an order of the old peers and a shuffle of all
that have the wanted ones in front are put together (`RankedFirst`), and the filter in
between keeps that front (`ThoseFront`). `RoomForAll` is where `max_ids` enters.

`TopologyALTOProofs`: `TypeCorrect`, `Picks`, `RankedGetIn`. `Inv` adds `Counted` (as long
as nothing is picked, `c_neigh_size` is the number of entries) and `Handled` (what is
no longer to be added is in the peerset). `Buckets` is the arithmetic by which the
two buckets together never exceed what is known; `SomebodyMayGo` shows by counting
that a full peerset always has a peer outside the list to give up.

`LoopMTProofs`: `TypeCorrect`, which contains mutual exclusion (a mutex belongs to
the thread between its lock and its unlock, and this is inductive as it stands), and
`RacesAreKnown`, which follows from it (`Exclusion`) by going through the pairs of
calls. `NoDeadlock` says by the guards of the three steps, since the prover cannot speak of
`ENABLED`, that some thread in a section can always go on: whoever holds
`cb_mutex` has all its mutexes (`BufferHolderGoesOn`, the safety half of
`BufferIsReleased`), so only `topology_mutex` can be waited for in a chain.

Every safety invariant and action property of the passing runs is stated by a theorem.
Model-checked only: what needs fairness (`Diffusion`, `BeliefsHeal`, `RecoversSpeed`,
`EveryAnswerIsUsed`, `BufferIsReleased`, `EveryChunkIsRead`), and the absence of
deadlock outside `LoopMT`, which is a statement about `ENABLED`. `Lists` defines
filters and sweeps by positions and not by recursion, because a proof about a
recursive definition would need induction over sequences, which is out of the
prover's reach. `SendsOnce` and `LinksMutual` are violated.

## 6. Not modelled

`measures-monl.c` (hands every event to the MONL library) and the counters of
`measures.c` other than those behind the playout ratio; `net_helpers.c` and the other
helpers (no protocol state); `streamer.c`, `config.c`, `channel.c` (sequential
start-up); build files; `input-grapes.c` but for the ids it hands out. In the trading
model: chunk attributes (hop count, deadline), scheduler weights, the playout limit,
the disabled `bcast_bmap` and `send_bmap_before_push`, and the ack that `ack_chunk`
leaves out when MONL measured losses (as if it were lost). With restarts: a restarted
source, and liveness with datagrams that outlive the process that sent them. With reports:
a signal inside the C library's output functions, and a second one inside the handler. In the offer timer: a
clock that is set back, and several offers a turn. In the topology models: gossip
itself, ranking, metadata, and the rounding of `double` products, by which `keep_size` or
`desired_part` may be one less than the whole percentages of `Keep` and `DesiredPart`. In the framing model: the opening of the connection,
the error exits, and chunks within the four bytes of a length of `BUFSIZE`
(`FramesAssumption`).

## 7. Plan

Done: trading with restarts, locks, transactions with the offer timer and rate
control, output ring and its reports, both topology modules and the arrays of the
first, threads, framing, and the proofs above. Next, in order:

1. `SourceLoop`: the two timers of `source_loop` and the restart of the file input.
2. `PlayoutLimit` (`CB_SIZE_TIME` and its unit), with time stamps.
3. Loss of ADD and REMOVE in `Topology`; the table walk of `config_load`.

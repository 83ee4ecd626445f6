# fpga-lpu in TLA+

This directory holds a formal model of the repository: what its serving stacks,
its KV cache, its RTL and its models of cost and time do, the properties that
make them correct, the TLC configurations that check the properties on small
instances, and proofs, checked by TLAPS, of those that hold for every size.

    tlc -workers 2 -config MCHost.cfg MCHost
    tlapm KVCacheProofs.tla

Section 1 says what the system is, 2 which module models which part, 3 what the
runs check, 4 what is proved, 5 where the code departs from what it or its
documents say, 6 what is not modelled, and 7 what comes next.

## 1. The system

The repository designs an inference appliance for a mixture-of-experts
transformer: 32 FPGAs on 8 cards, with prefill on the host CPU and decode on
the FPGAs.  Paths below are relative to `src/`.

| Part | Where | State it keeps | Operations |
|---|---|---|---|
| Serving loop | `scripts/run_serving.py` | event queue, `_busy_ids`, `_prefill_in_flight_count`, `_next_prefill_admit_us`, `_agent_sessions` | one handler per event, `_maybe_schedule`, `_execute_batch`, the drain |
| Batch scheduler | `scripts/vllm_serve/scheduler.py` | `waiting_queue`, `prefilling`, `active_decode`, each request's state | `submit_request`, `_admit_waiting`, `on_prefill_complete`, `on_decode_step`; a tick interface `schedule()` |
| Model runner | `scripts/vllm_serve/model_runner.py` | none (KV block ids of a request) | `execute_batch` |
| KV cache manager | `scripts/vllm_serve/kv_cache.py` | free lists, chip sets, reference counts, LRU lists, block lists of requests | `allocate_prefill`, `allocate_decode`, `free_request`, eviction; session calls |
| Request generator | `scripts/vllm_serve/api_server.py` | random state | draws arrivals and lengths |
| Prefill | `scripts/prefill/*.py`, `c_ref/prefill/*.c` | two KV buffers; a worker thread with its queue; layers and a weight cache in host memory | tier decision, double-buffered schedule, worker, preload and eviction |
| Second serving stack | `scripts/architecture/`, `SuperNodeScheduler` in `scripts/simulation/fpga_cloud_serving.py` | queues, KV blocks, experts in HBM, statistics, routing table | iteration scheduling, nine stages of a layer, swap, session placement |
| Analytical models | `scripts/fpga_arch/`, `scripts/simulation/` | where layers, experts and KV blocks are | placement, dispatch, times, sizes, cost |
| Reference models | `bringup/*/model`, `bringup/v2_lite/c_ref`, `c_ref/src`, `scripts/simulation/*golden*` | weights and their decoded copies | number formats, an expert, attention, top-k |
| Test programs | `scripts/*.py` that check or ship | golden packages, reports, files on a server | check, regenerate, run suites, send |
| KV transfer path | `rtl/chip/kv_*.sv` | three FSMs: PCIe to HBM, descriptor DMA, HBM to on-chip cache | request, beat, write, buffer swap |
| Decode path | `rtl/layer/`, `rtl/chip/chip_top.sv`, `rtl/cluster/cluster_top.sv` | token FIFO, layer FSM, the chain of chips | accumulate, dispatch, one token through a layer, hand over |
| Attention, MoE, DSP, activation | `rtl/attention`, `rtl/moe`, `rtl/dsp`, `rtl/activation` | KV slots, weights, pipelines | fixed-point arithmetic |
| Engram, multi-token prediction | `rtl/engram`, `rtl/head` | a cache of table entries; draft tokens | lookup and fill; verification |
| HBM arbitration | `rtl/sim/axi4_rr_arbiter.sv`, `sim_axi4_hbm_model.sv` | grants, locks, bursts in progress | grant, beat, release |
| Bring-up designs | `bringup/v2_lite`, `bringup/v4_flash`, `hw/` | weight writer and reader, register block, FFN engine | load weights, start, poll |

How they interact.  The serving loop is one thread over a time-ordered event
queue.  `REQUEST_ARRIVAL` puts a request on the scheduler's waiting queue;
`_maybe_schedule` admits waiting requests into a prefill batch and forms a
decode batch of active requests that are in no batch; `_execute_batch` has the
model runner allocate KV blocks and pushes the batch's events
(`BATCH_COMPLETE`, and `DECODE_READY` for a prefill).  Their handlers move
requests on, clear `_busy_ids`, finish turns of agent sessions, free KV blocks
and schedule again.  When the clock passes `duration_us` the loop stops and a
drain loop takes over.  In the RTL the parts are clocked FSMs joined by
valid/ready (or valid only) wires: host memory, over the DMA bridge, to HBM,
over the preloader, to the attention's KV cache; and tokens through the
accumulator, the layer and the chain of chips.

What is hard.  In the serving loop nothing runs in parallel, and yet many
batches are in flight; the state of a request is spread over its own field,
three queues, the busy set, the event queue and the KV tables, all updated by
separate statements in five handlers.  The difficult orders are: a prefill's
two events; put-backs of what a batch has no room for; a batch that fails after
some of its requests have got their blocks; the retry of such a batch; the
cut-off in the middle of all this; and sessions that live from turn to turn
through an event in the queue.  In the RTL it is the handshakes: a value that
is registered one cycle late, a valid without a ready, two always-blocks that
update one transaction.  `hazards` in `PROJECT.json` lists these at their
lines, with the property that guards each.

What makes each part correct:

- KV cache manager: the structures that track a block agree; no block belongs
  to two requests; none is lost; a call that raises has no effect; seen by its
  callers it is a counted pool.
- Serving loop and scheduler: a request is in one queue, the one its state
  names, and in one batch; its busy flag is cleared by a pending event; it only
  goes forward and is counted once; the batch caps hold; the blocks it holds
  cover its tokens and are released exactly when it, or its session, is done;
  the loop and the drain end and serve what they can.
- KV path: each entry reaches its place once, in order, before `done`; a bank
  is never read while it is written.
- Decode path: what the accumulator dispatches is what it accumulated (it is
  not, see section 5), batch marks delimit the batch, a layer gives back the token
  it took, once, and no token overtakes another in the chain.
- Arbitration: a burst is not split between masters; every master is served.
- Attention, layer, engines: each result is of this token, over the right
  entries, experts and beats, each once; and it is given to whoever asked.
- Number formats: each code stands for the value nearest to what was encoded,
  and the implementations of a format agree or differ where they are known to.
- Placement and estimates: what is placed fits and is found where it is looked
  for; what is bought holds the sessions it was bought for; models of the same
  quantity agree, or bound one another.
- Test programs: what they report is so.

## 2. The modules

| Module | Stands for | Run |
|---|---|---|
| `KVPool` | what the KV manager promises: free blocks and blocks held, per chip (abstract) | `host` |
| `KVSizes` | block arithmetic of `kv_cache.py` | `host` |
| `KVCache` | `KVCacheManager` with its blocks, lists and counts | `host`, `kv_evict` |
| `KVCacheProofs` | invariants of `KVCache`; it implements `KVPool` | proofs |
| `Serving` | the event loop, scheduler, model runner and sessions over a `KVPool` | `serving`, `sessions`, `pressure`, `drain`, `idle`, `out_of_blocks` |
| `FoldTheory` | what can be proved of any fold: its steps, and what all steps keep | proofs |
| `ServingProofs` | invariants of `Serving`, also when batches fail | proofs |
| `ServingBatchProofs` | what holds of `Serving` while no batch fails; scheduling keeps it | proofs |
| `ServingQueueProofs` | every handler keeps it; the properties of `Serving` follow | proofs |
| `TickScheduler` | the scheduler's own tick interface with mixed batches | `compute` |
| `PrefillOverlap` | the double-buffered prefill of `ConcurrentScheduler` | `compute` |
| `PrefillWorker` | the CPU worker behind vLLM's scheduler, two threads on one queue | `compute` |
| `WeightPreloader` | layers in host memory, their bridge and its callers; the CPU weight cache | `host` |
| `IterationScheduler` | the second stack's iteration-level scheduler and API server | `compute` |
| `LayerStack` | the second stack's layer of nine stages, TP group, KV blocks | `host` |
| `SuperNode` | placing of sessions on servers | `compute` |
| `KvDmaBridge` | the DMA bridge from host memory to two HBM banks | `movers`, `kv_refill` |
| `KvDmaEngine` | the descriptor engine of KV offload | `movers` |
| `KvHbmPreloader` | from the HBM bank to the attention's ring | `movers` |
| `AxiPorts` | what masters of a shared memory expect (abstract) | `movers` |
| `HbmPath` | arbiter and memory, reads and writes, three masters | `movers` |
| `HbmPathProofs` | nobody is mixed up or passed over; the reads implement `AxiPorts` | proofs |
| `WeightWriter` | the bring-up weight writer and the registers that drive it | `movers` |
| `MoverProofs` | invariants of the bridge, the engine, the preloader and the weight writer | proofs |
| `TokenPath` | batch accumulator and the chain of layers | `compute`, `stale_batch` |
| `LayerBox` | what a layer promises its chain (abstract) | `compute` |
| `TransformerLayer`, `ExpertFfn` | a layer: FSM, norms, router, expert engine | `compute` |
| `ComputeProofs` | the invariants of `TokenPath` and `TransformerLayer`; the layer is a `LayerBox` | proofs |
| `MlaAttention`, `MlaKvCache` | attention over the ring of KV entries | `compute` |
| `GemmEngine` | the GEMM engine and its grid of cells | `compute` |
| `Numerics` | FP8 encoder and decoder, SiLU, saturating accumulator of the RTL | `compute` |
| `Engram`, `Mtp` | engram lookup and cache; prediction heads and verification | `compute` |
| `V2LiteFfn`, `GemvArray` | the feed-forward engine and the GEMV array of the bring-up designs | `compute` |
| `Fp8Formats`, `References` | number formats and models of the reference code | `compute` |
| `Placement` | layers, experts, messages and KV blocks on chips | `host` |
| `PipelineTimes` | the analytic models of time over that placement | `host` |
| `Sizing` | servers, cost and service levels | `host` |
| `Harness` | golden check, suites, shipping to the board | `host` |
| `MCHost`, `MCMovers`, `MCCompute` | values, symmetry and composition for TLC | |

How they are joined.  `Serving` uses the operators of `KVPool` (`TakePrefill`,
`TakeDecode`, `Release`) on its variable `pool`, and `KVCache` is proved to
implement `KVPool`; so the serving model stands on the proved abstraction and
not on a guess about the manager.  `TokenPath` is a chain of `LayerBox`es, and
`TransformerLayer` is one (`IsALayerBox`; its safety is proved).  `TransformerLayer`
contains `ExpertFfn` whole; `MlaAttention` and `KvHbmPreloader` contain
`MlaKvCache`, with each of its two write ports; the read path of `HbmPath`
implements `AxiPorts`.  `PipelineTimes` times what `Placement` has placed.  `References`
is compared with `TransformerLayer` in `MCCompute` (`TwinsMeet`).

A step of an RTL module is a clock edge of all its blocks, each of which reads
the values before the edge, as nonblocking assignments do.  Data is named by
where it comes from (a token, a beat, a place in memory), so that a datum in
the wrong place shows.  A module of formulas is a state machine too where the
code has one (calls in any order on one object), and otherwise sweeps its
inputs, one question per state.

### KVCache

| Model | Code |
|---|---|
| `chip[c].free`, `.used`, `.ref`, `.lru` | `_free_blocks[c]`, `_chip_blocks[c]`, `ref_count`, `_lru[c]` |
| `seqBlocks[r]` | `_seq_blocks[r]`, split by chip (a block id determines its chip) |
| `raised` | the `RuntimeError` the last call ended with |
| `AllocatePrefill`, `AllocatePrefillRaises` | `allocate_prefill`, 77-108, returning or raising after its rollback |
| `AllocateDecode`, `AllocateDecodeRaises` | `allocate_decode`, 110-137, on a block boundary |
| `FreeRequest` | `free_request`, 259-266 |
| `Take`, `Give`, `Grab` | `_allocate_block`, `_free_blocks_chip`, and `_allocate_block` after `_evict_lru` |

A call is one action: the manager is called from one thread and never calls
out.  Free lists are counts of copies, so that a double free would show.  Which
free block is popped, and the order of the LRU list, are left open.  The two
rounding steps of `allocate_prefill` are kept as they are.  Calls may come in
any order: the callers re-run a failed batch, so a request that holds blocks
may be prefilled again, and a decode step may come for one that holds none.

### Serving

| Model | Code |
|---|---|
| `state`, `prompt`, `session`, `tokens` | fields of `Request` |
| `waiting`, `prefilling`, `active`, `finishedCnt` | the scheduler's lists and `stats.total_finished` |
| `busy`, `inFlight`, `admitOpen` | `_busy_ids`, `_prefill_in_flight_count`, `now >= _next_prefill_admit_us` |
| `events`, `nextTurns` | `DECODE_READY` and `BATCH_COMPLETE` events; `AGENT_NEXT_TURN` events |
| `pool`, `sess` | the KV manager as a pool; `_agent_sessions` and `turns_completed` |
| `phase`, `ticks` | the main loop, the head and the inner loop of the drain, the end; `drain_count` |
| `Arrive`, `DecodeReady`, `BatchComplete`, `AgentNextTurn` | the handlers of `run`, 424-476 |
| `EndRun` | the cut-off, 419-422, which drops the event it has popped |
| `DrainTurn`, `AgentNextTurnDrain`, `DrainTurnEnds`, `DrainEnds` | the drain, 491-541 |
| `OpenAdmission` | time reaches `_next_prefill_admit_us` |

A handler with everything it calls (`_maybe_schedule`, `_schedule_prefill`,
`_admit_waiting`, `_execute_batch`, ...) is one action.  Each callee is an
operator from a record of the simulation's fields to the next such record, in
the order of the code; `Becomes` gives the variables the last record.

Time is abstracted to what orders events.  Any pending event may be next, with
one exception that the code's numbers force: `decide_prefill_tier`
(`scripts/prefill/coordinator.py:149`) returns `ttft_us = 0`, so the
`BATCH_COMPLETE` of a prefill follows after twice the KV transfer
(microseconds), and its `DECODE_READY` after the prefill on the CPU
(milliseconds): the first comes first (`Fireable`).  "50 ms have passed" and
"`MAX_DECODE_WAIT_US` have passed" are open choices at each step; the drain's
clock is behind that of the events it handles, so admission may be closed again
at a turn of the drain.

### KvDmaBridge

| Model | Code (`rtl/chip/kv_dma_bridge.sv`) |
|---|---|
| `state`, `hostAddr`, `remaining`, `tokensDone` | `state`, `host_addr_r`, `tokens_remaining`, `tokens_done` |
| `bank`, `slot` | `hbm_addr_r`, as a bank and an entry in it |
| `beat`, `write` | `beat_idx` and the registered write port |
| `reqValid`, `reqAddr` | `pcie_req_valid`, `pcie_req_addr` |
| `readBank`, `fresh` | `buf_a_active`, `buf_b_ready` |
| `Request`, `WritePort`, `Buffers` | the request block, the write block, the swap in the FSM block |
| `Idle`, `Start`, `Ask`, `Transfer`, `EndOfEntry`, `Flush`, `Finish` | the branches of the FSM's `case` |
| `Host`, `Memory`, and the first four conjuncts of `Edge` | what is outside: host, HBM, and the FPGA that swaps |

A step is a clock edge: `Edge` joins all blocks, each of which reads the values
before the edge, as nonblocking assignments do.  The inputs of a cycle are
chosen freely within what `rtl/sim/tb_kv_dma_bridge.sv` and
`docs/eng/02_architecture_overview.md:566` show of their use: the host takes a
request when it likes, answers it with the beats of one entry at any pace and
marks the last; the FPGA swaps only when `buf_b_ready` is up; a transfer goes to
the bank that is not being read.  The bridge itself does not know which bank it
writes, so `ReadBankStable` is a property of the bridge and this discipline
together.  `WaitsForSwap` says whether the host also waits for `buf_b_ready` to
fall before it starts the next transfer.  The data of a beat is the host address
it came from, so a beat in the wrong place shows.

### The other RTL modules

`KvDmaEngine` asks the host for a beat, writes its words and goes on until the
descriptor's length is reached; its host is that of `tb_kv_dma.sv`, always
ready, because the request is a pulse that another host could miss.
`KvHbmPreloader` has the engine's FSM, its entry buffer and the ring it fills.
`entry_idx` advances a cycle after the beat count has restarted, so beat 0 of
each entry is read from the entry before: the property says what is delivered.
With entries of one beat (`PreBeats = 1`, the size of its testbench) the first
entry is all that is sure to be right, and all that is claimed.
`HbmPath` is the arbiter (priority, grant, lock) between three masters and the
memory model, a specification for reads (`ReadSpec`) and one for writes
(`WriteSpec`), with the FIFO of response IDs on the write side.  `WeightWriter` joins the register block, the
packer of four pairs to a word, and the burst writer.  Its host writes a pair in
any cycle but two in a row: `v2_lite_bar0_regs.sv:125-149` has no register for
`wdata_rdy`, so nothing holds it back while a word is pending.  The histories
`wtInTime` (no pair came in that time) and `wtSteady` (no burst was broken off)
say how far the words can be trusted.

`TokenPath` has the FIFO, timer and latched batch marks of the accumulator.
`pipeline_busy` is tied to 0, so a token that comes while the layer is busy is
dropped: what the chain keeps is order.  The write pointer is not reset between
batches and two blocks drive it: either may win, and the history `pathAligned`
says whether every batch so far began at slot 0, as its dispatch does.
`TransformerLayer` is the layer at the
clock: norms with their start pulses, the router with its scan and tie-break,
the softmax table with its unsigned comparison, and `TOP_K` experts one after
the other in one `ExpertFfn`.  Widths are kept where the code cuts them: a score
to 32 bits when it is picked (`ScoreKept`), an expert's index to those the engine
has (`EngineOf`, `SelLimit`).  `MlaAttention` has projection, rotation, ring and
two passes over the window, and the preload port beside the decode path.
`GemmEngine` keeps a weight in each cell from pass to pass, as the code does.
`Engram` has the hash pipeline, the direct-mapped cache and an LPDDR that
answers when it likes; `Mtp` the scan for the best word and the verification.

`V2LiteFfn` and `GemvArray` are the two engines of the bring-up designs, each
with every driver the repository has for it (a testbench, a self-test, a
controller, a tied input); several of them do not work together, and the
properties say exactly which do.

### The other host modules

| Module | State | Actions |
|---|---|---|
| `TickScheduler` | queues, states, batches in flight, how often each was put back | `schedule()` (admit, form prefill, decode and mixed batches), completion of each kind |
| `PrefillOverlap` | two buffers, the active one, what is left | a pass of the loop: prefill a chunk, swap, decode |
| `PrefillWorker` | vLLM's queue, the worker's deque, the place of each thread in `_run` | `patched_schedule_prefills`, `submit`, `start`, `stop` (which may leave a thread), look, pop, chunk |
| `WeightPreloader` | data of each layer, `total_memory`, the bridge's list, whether the directory's name still lives; the CPU cache | `init`, `load_layer` with its eviction, `close`, the callers' loops; cache load, unload, layer |
| `IterationScheduler` | `running`, `completed`, each request's state | submit, `schedule`, run, `mark_step_complete`, poll |
| `SuperNode` | sessions on servers, routing table, pending queue | a visit arrives, `complete_session` |
| `LayerStack` | a TP group's expert table, last record and counters; KV blocks on the chip and swapped out | `execute_layer`, reset; allocate, fill, swap out, swap in |
| `Placement` | replicas planned and placed; the layout under way; KV blocks of a chip | plan, place an expert; start a layout, lay out an expert, validate; allocate, free, access a block |
| `PipelineTimes` | the stages timed so far in both models; engines and the K they share | time the next stage of a layer, old model and new; make an engine |
| `Sizing` | the question asked | ask another |
| `References` | weights, decoded copies, the caches, vectors | load, route, run, append, sum |
| `Harness` | generators and packages, reports, files on the server | edit, check, regenerate, commit, run a suite, put, remove |

Unit by unit, `PipelineTimes`, `Sizing`, `Fp8Formats` and `Numerics` are mostly
functions.  What is checked of them is never that they compute what they
compute: each property relates two pieces of code that were written apart (two
models of one quantity, a format's encoder and its decoder, a sizing and the
capacity it sizes), or a formula and a simulation of what it stands for (the
chunked prefill formula and chunks that really move through the chips).
Numbers are scaled to small integers, rates are fractions compared by cross
multiplication, and roundings are kept where the code has them.

## 3. The runs

| Run | Question | Instance |
|---|---|---|
| `host` | does what the host keeps, places and tells stay true, the KV cache manager first? | twelve units; the manager with 3 chips, 2 with KV, 4 blocks each, 3 requests |
| `kv_evict` | does eviction relieve a full chip? no | the manager of `host` |
| `serving` | regular requests with blocks to spare | 3 requests of lengths 2, 4, 6, cap 4 tokens, 2 in prefill, decode batches of 2, 3 tokens each |
| `sessions` | agent sessions, and that the simulation ends | 2 sessions of 2 turns with a regular request, both modes, 2 drain turns |
| `pressure` | too few blocks | 4 blocks for 3 requests |
| `drain` | are active requests drained? not all | 2 requests |
| `idle` | is a free active request scheduled at once? no | 2 requests |
| `out_of_blocks` | does a decoding request stay out of the waiting queue? no | 2 requests |
| `movers` | does what moves data move what it was asked to, and only that? | six units |
| `kv_refill` | may the next transfer start before the swap? no | the bridge without `WaitsForSwap` |
| `compute` | does each stage of a token's way give what it stands for, and do the other schedulers keep what they are given? | nineteen units |
| `stale_batch` | does the accumulator dispatch what it accumulated? no | 6 slots, batches of at least 2, at most 5 tokens |

The runs `kv_evict`, `drain`, `idle`, `out_of_blocks`, `kv_refill` and
`stale_batch` state what a comment or a document promises and find it broken; `findings` in
`PROJECT.json` quotes the lines.  All the others pass.

`MCMovers` (six units), `MCHost` (twelve) and `MCCompute` (nineteen) put
components that share no state side by side: the variable `unit` says which one a behaviour is of, and the others stay at a fixed
initial state.  So the state space is the sum of theirs and not the product, one
run checks them all, and each temporal property is that of its own unit, since a
unit that does not move keeps its initial state, in which the others' properties
hold trivially.  Nothing is lost by it: there is no interaction to miss.  Their
views (`HostView`, `MoversView`, `ComputeView`) tell states apart by the unit and its
own variables, which are all that vary (of the writer's words only how many words
ago each was, as their numbers count modulo 3 and are only compared); `MCHost` checks a unit's invariants while
that unit runs, and takes blocks as interchangeable (no module orders them).

What the passing properties say, beside one type invariant per module:

- `Bookkeeping`, `Isolation`, `LockStep`: see section 4.
- `RaisingTakesNothing`: `allocate_decode` has no rollback, and needs none.
- `LeakOnlyByPrefillAgain`: the only way to lose a block is line 107.
- `QueuesAgree`: three queues and the state field never disagree.
- `OneBatchEach`: no request is in two batches; depends on the order of a
  prefill's events and on the busy set.
- `InFlightAgrees`, `BusyIsServed`: flags and counters are what the pending
  events will undo.
- `PrefillBudget`: the token cap, with its exception for one long prompt.
- `KVCoversTokens`: a decoding request holds exactly the blocks of its prompt
  and one per started block of generated tokens.
- `KVAccounted`, `TurnsAccounted`: blocks belong to a live request or session;
  a session has exactly one thing that keeps it going.
- `OnlyForward`: no step takes a request back or counts it twice.
- `DrainLeavesNoneHalfway`: a completed turn of the drain has served every
  request that is not in a lost batch.
- `KVNeverOverdrawn`: also when batches fail and are run again.
- `Terminates`: the simulation ends.
- `ReadyMeansCopied`: `dma_done` and `buf_b_ready` come after the last write,
  which is one cycle behind the last beat; the `S_FLUSH` cycle makes it so.
- `ReadBankStable`, `OnlyTheJob`: nothing is written but the entries asked for,
  and not into the bank being read, up to the cycle of a swap.
- `TransferEnds`: request register and FSM agree on the handshake, so the bridge
  never waits for an answer to a request that was not taken.
- `EngineCorrect`: words of the descriptor are copied each to its place, none
  beyond its end but the tail of a short last beat.
- `PreloaderCorrect`: entries reach the ring in order, all of one transfer before
  it is done; and of which beats each consists (of entries of one beat, only the
  first).
- `ReadsCorrect`, `WritesCorrect`: bursts of three masters are not mixed, none
  starves, everyone's reads are their own; a write's answer reaches its writer
  when one writes at a time (with several it need not, see 5).
- `WriterCorrect`: with a host that writes whenever it likes, done means that
  every burst was answered at its own address, and no burst is answered before
  the memory took as many beats as it has words.  Words on the port are whole as
  long as the host never was too early, and none is skipped or overtaken until a
  burst is broken off by an abort or a timeout.  That a beat is not taken twice is
  not claimed: it is (section 5).
- `AttentionCorrect`: while preloads, decode writes and the wrap of the ring
  interleave, the scores and sums of a token are over its window, each entry
  once, in both passes the same; and every token ends.
- `LayerCorrect`, `IsALayerBox`: the result is of this token, over what the
  engine finds under the indices of the experts of the best scores (in the run
  three experts and an engine of two, so that two picks may coincide), each
  product once and with the weight of its pick; and the layer keeps the contract
  the chain relies on.
- `ProductsWhole`: rows of the three multiplying engines are whole sums, each
  once, and the prediction head answers with the first best word.
- `NumbersAgree`: the RTL's and the references' formats, and the reference
  models against the hardware's.
- `LookupsAnswered`: each n-gram gets its own embedding, hit or miss, whatever
  shares its line; and gets it.
- `PathCorrect`: a batch is as long as what was accumulated for it, and its marks
  are up at its ends; while every batch since the reset began at slot 0 it is
  those tokens, in order, and order survives the chain.
- `SchedulersAgree`: the other three schedulers keep their queues, with batches
  that overlap, requests that never fit, sessions that come again.
- `PrefillsWhole`: no entry is lost between two buffers; no prompt between two
  threads.
- `WeightsPlaced`: every allocation of weight memory is owned by a layer or was
  leaked by a reload or a second `init`, never freed twice, and a layer's data is
  what was loaded last, for any order of loads and evictions; experts are placed within budget and found by dispatch;
  KV blocks.
- `EstimatesHold`: chunk formulas against chunks that move; the K the engines
  share; admission; sizings carry what they were made for, and four tellings of
  one size agree; a card of four chips keeps every expert; the routing of a TP group and the counters of its cards; what the
  golden check and the suites tell, and what was sent to the board.
- `WaitersServed`: liveness of the units whose clients wait.

The properties of `compute`, `movers` and `host` are conjunctions of named parts, each
with its own comment in its module; one cfg entry stands for a unit's promises.

Bounds.  `MaxRequests`, `MaxSessions`, `MaxDrain` (2000 in the code) and the
finite sets of lengths bound the runs.  The lengths are chosen so that a prompt
takes less than a block, a whole number of blocks, or more than the token cap
alone; the caps so that requests are put back and decode batches leave some
behind; output lengths so that a block boundary is crossed.  Three requests are
enough for a batch, a request beside it and one behind it.  In `serving` and
`sessions` the pool is large enough that no batch fails: `KVAccounted`,
`QueuesAgree` and `OnlyForward` do not hold otherwise, which is what
`out_of_blocks` shows and `pressure` delimits.

In the bridge two entries of two beats have a first and a last of each, source
and destination differ, and transfers of one and two entries follow each other
in both banks; `CountLimit` (2^16 in the code) is just above the bank size, so
that a count too many wraps.  The theorems say the same for every size.

In `movers`, `host` and `compute` every counter's last value, and the one before it,
occurs: two beats make a first and a last one, three slots make a ring wrap
within a run, two experts of three make a choice, three masters make someone
wait while two alternate, two threads are the most `stop` and `start` leave, a
table of costs has values on both sides of each `max`.  Bounds that only limit a
run are named so in the modules (`MaxTokens`, `MaxLoads`, `MaxSubmits`,
`MaxStarts`, `MaxCalls`, `MaxAllocs`, `MaxGenerator`).  Widths that wrap in the
code are constants (`AddrSpace`, `MacLimit`, `CntLimit`, `RowLimit`, `AccWidth`)
just above what a run needs, so that one too many wraps.  The sweeps of
`Numerics` and `Fp8Formats` take every input there is: all bytes, all Q12 values
up to beyond saturation.

Fairness.  Safety runs need none.  `sessions` assumes that the loop takes
its next step as long as it has one, which is all a single-threaded program
needs, with arrivals bounded as `duration_us` bounds them.  It is written as
`[]<>(phase = "done") \/ []<><<TRUE>>_vars`, which for this next-state
relation (enabled in every state, stuttering only when done) is
`WF_vars(Next)`.  For the bridge, `movers` assumes that the clock runs and that the host
takes a request that stays up and sends the beats of one it has taken; it does
not assume that the FPGA swaps.  For the other RTL units the clock runs and
the surroundings answer: `ReadReadily` and `WriteReadily` (a memory master that
has asked takes its beats), `AttReadily`, `EngramReadily`, `V2Readily` and
`GvReadily` (an edge on which LPDDR, memory or reader is ready), which is what the
testbenches do.  On the host: `IterFairness` (the loop around the scheduler goes
on), `WorkerRuns` (a started thread is scheduled; that nobody stops it is not
assumed), `NodeCompletes` (sessions that run end).

What the runs avoid because the program fails there (the drain under pressure,
sessions completed twice, sizes that divide no burst) is in section 5.

## 4. What is proved

`KVCacheProofs`, for every number of chips, shards,
blocks and requests, any block size and any prompt lengths, from
`SizesAssumption` and `KVAssumption` (there is at least one block and one
shard, the shards are among the chips, lengths are natural numbers) and nothing
else:

- `KVCacheInvariant`: `Spec => []IInv`, with `IInv` the conjunction of
  `TypeOK`, `Bookkeeping`, `Isolation` and `LockStep`.  None of the three is
  inductive alone.  `Isolation` needs `Bookkeeping`, since a free block must
  be on nobody's record.  `Bookkeeping` needs `Isolation`, since
  `free_request` gives back what is on record and a block given back twice
  would be free twice.  Both need `LockStep` in `AllocateDecodeRaises`: if the
  chips could differ, the call might raise at a later chip and keep blocks of
  the earlier ones, on no record.
- `KVCacheTypeOK`, `KVCacheBookkeeping`, `KVCacheIsolation`,
  `KVCacheLockStep` follow from it.
- `KVCacheRaisingTakesNothing`: an action property, from the lemmas
  `PrefillRaisesUnchanged` (the rollback undoes what was taken) and
  `DecodeRaisesUnchanged` (in lock step the first shard is the first to fail).
- `KVCacheRefinesPool`: `Spec => Pool!Spec` under the mapping that counts
  the free blocks of shard 0 and the blocks on record there; one lemma for each
  action, cardinalities by `FiniteSetTheorems`.
- `KVCacheLeakOnlyByPrefillAgain`: an action property; each action is shown
  to lose nothing, but a prefill over a non-empty record.

The lemmas are about the operators first (`TakeSound`, `GiveSound`,
`RollbackUndoes`, `NothingEvictable`, `GrabIsTake`), then one per action, so
that the step proof only collects them.

`MoverProofs`, the bridge: for every number of host entries, slots and beats, from
`BridgeAssumption` (an entry has a beat, the 16-bit counters can count a bank)
and `NoJobAssumption`:

- `BridgeTypes` and `BridgeWritesItsJob` need nothing of `WaitsForSwap`.  Their
  invariant `BridgeInv` is `BridgeTypeOK` with four facts: `Handshake` (a request
  that is up carries the FSM's address, and the host is busy exactly in
  `S_XFER`, at the beat `beat_idx` counts), `Counting` (what is left and what is
  done make up the transfer, so that no count wraps), `Pending` (a registered
  write carries a beat of the transfer to that beat's place) and `Landing` (every
  beat received is in HBM or is that write).  The types are not inductive
  alone: `tokens_done` stays in its bank because of `Counting`, which needs
  `Handshake`.
- `BridgeReady` and `BridgeReadsStableBank` assume `WaitsForSwap` and add
  `Offering`: during a transfer `buf_b_ready` is down and the transfer's bank is
  the one not read; when it is up, the transfer is complete and nothing is left
  to write.  Without the assumption they are false, as `kv_refill` shows.

`MoverProofs`, the preloader and the weight writer, from `CacheAssumption` and
`PreloadAssumption` (an entry has at least one beat), and from `WriterAssumption`:

- `PreloaderIsCorrect`.  `PreInv` adds `Reading` to the types: the beats counted
  so far are in the buffer, and the entries handed over are the last ones in
  the ring, but for the first beats of all but one, which the code reads too
  late.  `Written(n)` counts places back from the write pointer, so the proof
  is modular arithmetic (`RingMod`, `RingBehind`): a write leaves the places
  behind it where they were as long as the transfer fits the ring.  With one beat
  an entry is complete again in the cycle after it is handed over, so that of a
  transfer only its first entry is followed.
- `WriterIsCorrect`.  `WriterInv` adds `Underway` (bursts left and answered make up
  the job, and the next address follows from them in each state of the FSM),
  `Packing` (while pairs come in time, the lanes filled are of the word being
  written and a pending word is untouched), `BeatsSent` (the beats the memory took
  and those still to be put out are together a burst, wherever the last one is)
  and `Ordered` (nothing is on the port outside a burst, and at the end of one it is
  the pending word).  Nothing is assumed of when the host writes: what depends on
  it stands under `wtInTime` and `wtSteady` in the property itself.

`MoverProofs`, the descriptor engine, from `EngineAssumption`: `EngineIsCorrect`, for
every width of a beat and both memories.  `EngInv` says at each state of the FSM
how far the descriptor is (`EngProgress`: a whole number of beats is behind, the
rest ahead), what the host owes and what is to be sent of its answer
(`EngHandshake`), which word is registered towards HBM (`EngPending`) and that all
words before it have landed (`EngLanding`).  That the last beat is written whole,
past the descriptor's length, is why `EngineStaysInside` bounds the beats and not
the length; the arithmetic of that bound are `WholeBeats` and `DivGrows`.

`HbmPathProofs`, for any lengths of bursts, any latency and any reads:

- `WritesAreSafe`: no burst mixes the beats of two masters, with any number of
  them writing; a response reaches its writer if only one master writes
  (`oneWriter`), and nothing is said of responses otherwise.  `WriteInv` adds to
  the types that the beats on their way since the grant are those of one burst,
  the granted master's (`OneBurst`), and that with one writer a response in flight
  belongs to its burst (`OneAnswer`).
- `ReadersHavePorts`: every edge of arbiter and memory is, for each master, a step
  of `AxiPorts`.  `ReadInv` has to say which master the memory serves (`OneRead`)
  and that the beats still to come are the rest of the read it asked for
  (`OwnBeats`).
- `ReadersTakeTurns`: `Passing` relates how often a master was passed over to its
  place behind the priority pointer, and to a grant that was made ahead: once
  passed over it is first or second in turn, twice and it is next.

`ComputeProofs`, the token path, for every batch size, timeout and number of layers:
`PathIsCorrect`.  Length and marks of every batch follow from `Progress` (how far
the batch at hand is), the data of those that began at slot 0 from where their
tokens are before they are put out (in the memory, in the slots they were written
to), and the order in the chain from which tokens it can have been offered
(`InChain`).  Of a batch that began elsewhere only length and marks are claimed,
as `stale_batch` shows that no more is true.

`ComputeProofs`, the layer, for every number of experts and picks, every cut of
indices and scores, every length of a row, any scores and any time in the norms and attention, from `FfnAssumption` and
`LayerAssumption`:

- `LayerAlwaysCorrect` also assumes `PipeDrains`: the array drains for at least
  as long as a product needs to its accumulator (`DRAIN_CYCLES` is 16 in
  `rtl/dsp/fp4_linear_engine.sv:121`, for five registers).  With fewer cycles the
  sum would be given before its last products are in it.
- `LayerInv` is built from the inside out.  A linear engine at work on a row is
  in one of five phases (`AtRow`), each of which says what is in the pipeline and
  what in the sum after so many edges (`PipeAt`, `SumAt`): a row's products go in
  one by one and leave in order, and the pipeline is empty before the next row.
  The expert engine is in one of ten (`FfnAtWork`), which say which rows of gate
  and up, of their products and of down are there; that beat 0 is written last,
  as `down_beat` is already back at 0, is in `Loaded`.  The layer is at one of ten
  states, of which `AtExpert` says that the experts before are gathered, in order
  and under their weights (`Gathered`), and that the activations are the
  token's, also those of the write that arrives in the cycle of the start
  (`Written`).  `Ranked` says of the router that the experts picked so far are
  different and none was passed over with a higher score.
- The type invariant alone is not inductive: that the engine is idle when it is
  started, and each of gate, up and down when its turn comes, follows only from
  where the others are.
- `LayerIsABox` needs none of this: the layer implements `LayerBox` step by step,
  whatever its parts compute.  That it always gives a token back is liveness and
  left to `IsALayerBox`.

`ServingProofs`, for every number of requests, sessions, chips and blocks, any
prompts and any setting of the scheduler, from `ServingAssumption` and
`SizesAssumption`, which say that the parameters are natural numbers.  In
particular nothing is assumed of `Capacity`, so batches may fail for lack of
blocks at any time:

- `PoolNeverOverdrawn`, `EveryBusyIsServed` and `PrefillsWithinBudget` follow
  from one invariant, `IInv`.  A handler is a chain of functions on the record
  of the simulation's fields, so the invariant is a property `Good(c, s)` of
  such a record, with `c` what the handler does not change, and each function
  has a lemma saying that it leads from good records to good ones
  (`AdmitWaitingSound`, `ExecuteBatchSound`, `OnDecodeStepSound`, ...).  A step of
  the program is then a chain of lemmas, in the order of the code.
- Why it has to say more than the three properties.  The budget of a batch is a
  sum of prompt lengths, and would change if a queued or batched request could
  be submitted again under a new prompt: so only known requests are queued
  (`QueuesSound`), and requests are numbered in order (`FirstOnes`), which makes
  the next number fresh.  The blocks are right only with the sum of what is
  held, to which each of `TakePrefill`, `TakeDecode` and `Release` adds exactly
  what it takes from the free ones (`SumChange`).  A busy flag is explained by
  a pending completion, so a batch that fails has to clear its flags and one
  that starts has to push its event (`FailedSound`, `StartedSound`), and an
  event popped must free its requests (`PopSound`).

`ServingBatchProofs` and `ServingQueueProofs`: all the other safety properties of
`Serving`, for every number of requests, sessions and chips and any setting of
the scheduler, in both modes of sessions.  They assume `EnoughKV`: some number of
blocks covers the prompt and the output of any one request, and that many for
each of `MaxRequests` requests are there.  It is what `serving` (16 blocks for 3
requests of 5) and `sessions` (18 for 4 of 2, with deltas) satisfy, and what
sizing promises (`Sizing`); with fewer blocks these properties are false, as
`out_of_blocks` shows, and the three of `ServingProofs` still hold.

- `QueuesAlwaysAgree`, `OneBatchAtATime`, `InFlightAlwaysAgrees`,
  `KVAlwaysCovers`, `KVAlwaysAccounted`, `TurnsAlwaysAccounted`, `TypesKept` and
  the action property `AlwaysForward` follow from one invariant, `JInv`: `IInv` and
  `Settled`, which joins six facts.  The queues list the requests of each state
  (`QueuesListed`); what a request's record says fits its state (`RequestsTold`);
  two pending events share a request only if they are of one batch, and each
  names requests in the state its batch is for (`BatchesApart`); each request
  holds the blocks due for what it has generated (`BlocksDue`); a session has one
  open turn or one pending (`TurnsHeld`); the counters count what they are for
  (`TalliesRight`).
- Why jointly.  That a handler finds its requests in the state it expects is
  `BatchesApart`; that nobody else moved them is `QueuesListed` with the busy set;
  that a batch never fails for blocks is `BlocksDue` with `EnoughKV`; and a batch
  that failed would break `QueuesListed` (its decoding requests go to the waiting
  queue as well).  Releasing a turn's blocks exactly once needs `TurnsHeld`.
- Where it is broken on the way.  Inside the handler of a decode batch some
  requests are finished and not yet released, and their sessions' turns not
  closed: `Settled(c, s, P)` has the set `P` of those, which the handler empties
  one by one, so that each function of the code keeps a form of it.  The cut-off
  drops one event: from then on the requests of one batch may stay busy for good
  and one prefill stay counted, which is as much as `TalliesRight` allows.
- `DrainServesAll` also assumes `MIN_DECODE_BATCH = 1`, the code's value
  (`scripts/vllm_serve/config.py:38`): with a floor of two, one request left would
  wait for a second that never comes.  `DrainInv` says that, while
  the drain works off its events and no decode batch is pending, who is in no batch
  has no token yet (`NoneHalfway`), and so it is when a turn has ended.

`FoldTheory`.  The operators of `Serving` are folds over lists of any length,
so those lemmas need induction over data.  The induction theorems of the
library take the predicate as an operator parameter, which no installed
back-end instantiates.  `FoldTheory` instead proves the least number principle
from the library's theorem on well-founded relations, whose parameters are
sets, and from it that a fold has steps (`FoldSteps`, `FoldSetSteps`) and keeps
what each of its steps keeps (`FoldKeeps`, `FoldSetKeeps`).  The step and what it
keeps are constants of the module, and the proofs take an instance for each fold.

Only model-checked.  Of safety: `WeightsPlaced` and `EstimatesHold` of `host`, and
of `compute` `AttentionCorrect`, `ProductsWhole`, `NumbersAgree`, `LookupsAnswered`,
`SchedulersAgree` and `PrefillsWhole`.  Most of these compare tables and sums over
concrete numbers, where TLC's sweep is complete for the values of the code
(`NumbersAgree`) or a proof would need what a RECURSIVE operator, `SelectSeq` or
`SetToSortSeq` computes; attention and the schedulers are within reach and not
done.  Liveness (`Terminates`, `TransferEnds`, `WaitersServed`, the liveness of
`IsALayerBox`, `ReadsCorrect`, `WritesCorrect` and `AttentionCorrect`) and what
depends on `ENABLED` are out of the prover's reach.

## 5. Where the code departs from what it says

The six runs that expect a violation are `findings`.  Modelling showed more; the
modules say in their properties what holds instead, and this section lists it,
so that nobody takes a property's exceptions for slips.  Paths are shortened.

KV cache.  Both divisions of `allocate_prefill` (`kv_cache.py:85-86`) round down and
both `max(1, ..)` round up: a prompt of less than a block takes one on every chip,
and one of 70 tokens the same; the comment at 87 ('Ensure total allocation doesn't
exceed needed blocks') announces a check that is not there.

Serving.  With too few blocks the inner loop of the drain need not end: a
request can be in `active_decode` twice after a failed batch, finish, and be
batched for ever (`Terminates` is violated with 4 or 5 blocks).  Requests that
wait when the last active request finishes are never served.  A rejected turn
strands its session and the session's blocks.

Prefill.  `ConcurrentScheduler` never clears `kv_buffer_ready`.
`vllm_prefill.py`: the wrapper submits waiting groups again at every call;
`stop()` joins for five seconds, so `stop` and `start` may leave two threads, of
which one dies of an empty deque; of a cached prefix only the number of chunks
is reduced; `pending_tokens` leaves out the request in work.  `coordinator.py`
makes one chunk whatever the prompt, and counts the first token's decode twice.

Weights in host memory.  `weight_preloader.c` speaks of 'layers to keep in memory'
(103), to 'Evict oldest layer if over preload limit' (229) and to 'keep 4 layers
pinned' (287).  It evicts only the layer half way round (235), if that is resident,
and no other: of 61 layers loaded in order with `num_preload = 4`, the last 31
stay, and layer 0, which `main` verifies at its end (322), is gone.
`PreloadAccounted` claims nothing of which layers stay; a reload or a second `init` leaks; reads that fail leave junk and
return 0; the bridge's list keeps layers that were evicted, the directory's name
dangles once `init` has returned, and a NULL I/O context is dereferenced when a
layer is one file.  The CPU cache keeps the first weights it was given and
answers 0; the layer it is for is called with NULL weights, so the first token
ends the process.

Second stack.  A prompt longer than a step is never admitted and keeps its place;
`api.requests` is never pruned; `max_tokens = 0` finishes before prefill.
`SuperNodeScheduler`: completing a queued session, or one twice, corrupts the
counts (the model completes only running ones, once); a session whose server is
full moves without its KV.  `vllm_layer/kv_cache.py`: `num_tokens` stays 0, so
swaps move nothing, and their latency divides by a number a billion too small.
`fpga_layer`: expert reads and fetches are counted twice, `misses` never, so
`hit_rate` is 1; a TP group's routing is not given to its pipelines, so their
times do not match its counts; an expert on two cards goes to the last, an
unknown one to card 0; the overlap promised in `pipeline.py`'s header is not there.

Placement.  A chip's block id is the length of a table that shrinks when blocks
are freed, so ids repeat, LRU eviction never evicts, and an allocation that
raises keeps part of what it took.  `replica_plan` may exceed its cap by its
`max(1, ..)`, and replicas that find no card are dropped silently.  With two
replicas on one card local counts and dispatch disagree.  `cluster.py` and
`weight_layout.py` place layers and experts differently.

Times and sizes.  The chunked total is a lower bound, exact only if no later
chunk is longer than the first.  The constructor of `PipelineEngine` patches a K
that all engines share: the last one made decides.  `chip0_admission_rate`
assumes four chunks as short as the first.  `execute_batch` multiplies the
messages of a whole batch by the batch.  `detailed_stage_timing` counts expert
work twice; rates are told per layer, so a chip with two layers gives half.
Experiment 2's effective bandwidth is the sequential one whatever hits.
`analyze_concurrency` promises a rate the fill of the pipeline does not leave;
`analyze_sla` leaves out the fill and the prompt; `size_by_traffic` divides by
zero if a context fits no session; the sheets may ask one server more than it,
and their notes give prices their formulas do not use; what is printed as 20 %
CAPEX is some 90 % of the cost.  The calibration check of `prefill_sram_model`
compares the model with itself.

Reference code.  The golden FP8 encoder never gives 0 for numbers below half the
smallest subnormal, which its own self-test expects (`fp8_e4m3.py`); the C one
gives 0x00 for -0 where `test_fp8.c:75` and, as a product, `:189` want 0x80.
`NumbersAgree` compares the encoders and products outside these two cases
(`Alike`).  The wrappers keep NaN, C and Python differ on NaN.  `fp8_mac.sv` finds
the leading one of its sum in 3 bits of 12, and does not compile.
`gen_tb_vectors` wraps where the RTL saturates, and the golden decoder clips an
exponent that the RTL lets wrap.  `ffn_pipeline.py`: `argpartition` raises when all
experts are asked for; a failed call leaves half a result; a third shared expert is
appended.

RTL, batching.  From the second batch since reset on, what the accumulator puts out
is what its memory holds from slot 0, not what was accumulated (`stale_batch`; its
tests look at `batch_last` only).  A token offered to a busy layer is dropped.

RTL, layer.  `full_transformer_layer.sv:131-132` gives the engine's expert index
`$clog2(FFN_EXPERTS)` bits, and 309 and 349 assign it the router's of
`$clog2(NUM_EXPERTS)`.  In the configuration of `lpu_config.svh:37, 48` (384 experts,
24 of them in a chip) the upper bits are dropped: the FFN used is that of another
expert, two picks may be the same one, there is no mapping of global to local
experts, and `router_ok` (301) tells of the index before the cut.  `LayerCorrect`
says what is computed, with the cut (`EngineOf`).  `router_topk.sv:159` keeps 32 of
64 bits of a picked score, after the choice was made (`ScoreKept`); the index cut at
100 loses nothing, as its width is that of the router's experts.  The softmax table
(137-144, and `mla_attention_v2.sv:167-174`) compares an unsigned argument: the
exponential of 0, the best expert's own, falls into the last bin (48 of 4096, where
`docs/eng/10_phase2a_sliding_window_test_plan.md:208` has 4096 in the first), so that the
best expert weighs least.  `MoeWeights` is as the code has it, and no property says
that it orders the experts.

RTL, movers.  A descriptor's last beat is written whole; a write response goes to
whom the grant points at when it comes.  In the preloader `entry_idx` is a cycle
late, so that beat 0 of an entry is the one of the entry before; with entries of
one beat (the size of its testbench) `entry_ready` stays up, entry 0 is written
twice, the entries after it follow two late, and the last is lost.  The weight
writer lowers `wdata_rdy` only when a beat is taken, so that the first word of a
burst, put on a free port, is loaded twice; `wvalid` stays up between words, so that
a memory that is ready takes the same beat again, while the count goes by words put
on the port; the last beat is dropped if it is not taken in the first cycle of
`S_BRESP`.  A host that does not wait, and no register tells it when (125-149),
overwrites the word on its way out, mixes two, or loses one.

RTL, other.  FP8 exponents of 14 and 15 wrap; a GEMM cell keeps its weight into the
next pass and a row is lost if `result_ready` falls.  `mtp_head.sv:5` promises the
argmax of the logits; the result is copied in the cycle in which the last entry of
the vocabulary is compared, so that this one is never predicted
(`HeadPredictsBest` makes no claim about it).  The bring-up
engines end only with sizes that divide bursts; the production size of 2048 is never
reached by an 11-bit counter; the self-test of `v2_lite_hbm_top.v:155-196` offers one
element and never leaves its wait; the engine multiplies by 1, where the comments at
`v2_lite_ffn_engine.v:169, 219, 240, 269` speak of its weights.  `V2Correct` and
`GemvEnds` are silent on these: the expert FSM of `ffn_routed_expert.sv`, which
never gets past its gate pass, has no liveness property of its own.  The GEMV
array's sums include what is on the inputs a cycle before and after a row, and a
start that is a pulse never sees `done`.  V4-Flash's engine ties `wt_preload_ack` to
0, and both `hbm2_weight_reader`s never reach their end; these are not modelled
beyond that.

Test programs.  The golden check without `--staged-only` does not see staged
files, and the installed hook runs it so; deletions are ignored.
`run_all.py` exits 0 although targets are missed, `run_e2e` although
configurations failed; `run_module_smoke` ignores a returned FAIL;
`run_dsp_regression` the simulator's exit code.  `scp_to_arm.py` does not wait
for its `rm -rf`, which may take what was just sent.

## 6. What is not modelled

- `generate_ppt.py`, `generate_bp_ppt.py` and the other writers of slides and
  charts: wording and layout, no state.
- Request generator (`api_server.py` of the first stack): random draws;
  `Serving` takes any arrival at any moment instead.
- `interfaces.py` and the configuration files: data.  What bounds behaviour is
  a CONSTANT of the module it bounds.
- Pin-level tops, board projects, constraints, Docker and Make files.
- In `Serving`: `decode_batch_wait_us` and the `SESSION_RELEASE` event (off by
  default); `MIXED` batches, which the serving loop never forms
  (`TickScheduler` has them); `access_block` and the session tables of the
  manager, which nothing fills; durations, latencies and metrics.
- In the bridge: reset in the middle of a transfer, transfers of no token,
  address overflow, answers that are not one whole entry.
- In the RTL otherwise: matrix products, rotation, softmax of the attention,
  square root and division of the norm as numbers; loading of weights and tables
  into the layer; `mhc_mixer` and `layer_compute_engine`, which the layer does
  not instantiate; the prefill engine and scaled tiles; V4-Flash's own RTL
  beyond the product of `fp8_mac.sv`.
- In the analytic code: random draws (every draw is a choice), the printed
  tables except where one tells a number that another place tells too.

## 7. What is left

Every component's core is modelled and checked, and the KV cache manager, the
serving loop, the KV path, the weight writer, the arbiter and the token path are
proved.  Worth proving next, in this order:

1. `SuperNode`: `SessionsCounted`, for any number of servers and visits (counters
   equal cardinalities).
2. `PrefillOverlap`: `OverlapKeepsEntries`, sums of two buffers and what is left.
3. `WeightPreloader`: the account of allocations, and `CacheKeepsFirst`.
4. `MlaKvCache` in `MlaAttention`: the ring seen from its pointer, as `MoverProofs`
   does for the preloader (`RingBehind`).
5. `Sizing`: that a fleet sized by traffic carries it for every demand
   (`CeilDiv`).

Worth modelling next: V4-Flash's own RTL beyond its FP8 product, and the tables of
experiments that repeat a formula modelled from another place.

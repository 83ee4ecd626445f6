----------------------------- MODULE PipelineTimes -----------------------------
(***************************************************************************)
(* What the analytic models say of time: fpga_arch/pipeline.py, and the    *)
(* older fpga_4chip_pipeline.py it was taken from, over the placed         *)
(* cluster.  A layer is timed stage by stage on its chip; what is sent     *)
(* shares ring links and one bus.  Prompts are timed whole, in chunks that *)
(* follow each other through the chips, or with attention on the CPU.      *)
(* Work is in units of which one takes one unit of time on the arithmetic  *)
(* of the feed-forward network; halves, requests and sparsity are scaled   *)
(* away (see Attn).                                                        *)
(***************************************************************************)
EXTENDS Placement

CONSTANTS
  SelTopK,                \* experts a token selects
  Work,                   \* record: proj, qk, av, shared, expert, router, norm: of a token
  ExpertLoad,             \* time to stream an expert's weights
  KvLen,                  \* length of the cache of a decoded token
  TokenCounts,            \* tokens of a decode batch or prompt
  ChunkLens,              \* lengths of chunks
  HybridCosts,            \* records: link, fixed, slow: the CPU's way of attention
  HeadExperts,            \* how many experts most tokens select of
  FillK,                  \* K_PIPELINE: tokens' worth of idle pipeline
  TokenTime,              \* of a token of a full pipeline, 1 / PIPELINE_TPS
  Draws,                  \* bound: tokens sampled for an engine's own K
  HotCounts, HotCopies,   \* experts to replicate, and on how many chips each
  FrontTime               \* embedding's time on the first chip

VARIABLES
  timed,                  \* the layer timed in detail, <<>> before
  trace,                  \* the token the older model takes through the layers
  engines                 \* the K of each engine made, and the one they share

timesVars == <<timed, trace, engines>>

ASSUME PipelineAssumption ==
  /\ SelTopK \in Nat \ {0} /\ ExpertLoad \in Nat /\ KvLen \in Nat
  /\ HeadExperts \in SelTopK .. PlExperts - SelTopK
  /\ TokenCounts \subseteq Nat \ {0} /\ ChunkLens \subseteq Nat \ {0}
  /\ FillK \in Nat /\ {TokenTime, Draws} \subseteq Nat \ {0} /\ FrontTime \in Nat
  /\ HotCounts \subseteq 1 .. PlExperts - 1 /\ HotCopies \subseteq 1 .. PlNumChips

-----------------------------------------------------------------------------
(* Sharing of links.  Here the ring is only gone around clockwise.         *)
LinksUsed(src, dst) == {(src + i) % 4 : i \in 0 .. ((dst - src) % 4) - 1}

(* Time to send one payload from a chip to several: the busiest link of    *)
(* the ring, or the bus, on which payloads follow each other.              *)
DispatchTime(src, remotes, bytes) ==
  LET near == {c \in remotes : CardOf(c) = CardOf(src)}
      Links(c) == LinksUsed(src % CardChips, c % CardChips)
      Sent(c) == (bytes + 24 * Max({1, (bytes + 4087) \div 4088})) * 8
                 + 50 * 128 * Cardinality(Links(c))
      OnLink(k) == SumFunction([c \in {d \in near : k \in Links(d)} |-> Sent(c)])
  IN Max({OnLink(k) : k \in 0 .. 3} \union {Cardinality(remotes \ near) * PcieTime(bytes)})

(* The older model: all payloads at once, the shorter way around.          *)
DispatchAtOnce(src, remotes, bytes) ==
  Max({TransferTime(src, c, bytes) : c \in remotes} \union {0})

ForwardTime(src, dst, bytes) ==
  IF CardOf(src) = CardOf(dst) THEN DispatchTime(src, {dst}, bytes) ELSE PcieTime(bytes)

-----------------------------------------------------------------------------
(* compute_prefill and its like: new tokens after others that are cached,  *)
(* of some requests that attend only to their own.  dens of 4 is attention *)
(* to everything.  All work is in sixteenths.                              *)
Attn(new, cached, requests, dens) ==
  dens * ((2 * Work.qk * new * (2 * cached + new)) \div requests + 4 * Work.av * new)

Ffn(new) == 16 * (Work.proj + Work.shared + SelTopK * Work.expert) * new

(* With 8-bit keys attention runs at half the rate.                        *)
PerLayer(new, cached, how) ==
  Attn(new, cached, how.requests, how.dens) * (IF how.fp4 THEN 1 ELSE 2) + Ffn(new)

(* compute_decode: the whole work of a batch, local experts and others.    *)
DecodeWork(batch) ==
  16 * batch * (Work.proj + Work.qk * KvLen + Work.av + Work.shared + SelTopK * Work.expert)

LayersPerChip == Max({1, (2 * PlLayers + PlNumChips) \div (2 * PlNumChips)})

PrefillLatency(tokens, how) == PerLayer(tokens, 0, how) * PlLayers

ChunkStarts(tokens, chunk) == [i \in 1 .. (tokens + chunk - 1) \div chunk |-> (i - 1) * chunk]
ChunkTokens(tokens, chunk) ==
  [i \in DOMAIN ChunkStarts(tokens, chunk) |-> Min({chunk, tokens - (i - 1) * chunk})]

ChunkTimes(tokens, chunk, how) ==
  [i \in DOMAIN ChunkStarts(tokens, chunk) |->
     PerLayer(ChunkTokens(tokens, chunk)[i], (i - 1) * chunk, how)]

(* chunked_prefill_model: the first chunk through all layers, then each of *)
(* the others on one chip.                                                 *)
ChunkedTotal(tokens, chunk, how) ==
  LET t == ChunkTimes(tokens, chunk, how)
  IN t[1] * PlLayers + SumFunctionOnSet(t, 2 .. Len(t)) * LayersPerChip

ChunkedTtft(tokens, chunk, how) == PrefillLatency(Min({chunk, tokens}), how)

(* The time between chunks on the first chip.                              *)
Chip0Bottleneck(chunk, how) == (PrefillLatency(chunk, how) \div PlLayers) * LayersPerChip

(* prefill_tps_model: the time it says a prompt takes of the pipeline.     *)
PrefillInterval(tokens, how) == PerLayer(tokens, 0, how) * LayersPerChip

(* cpu_hybrid_prefill_model: of a layer the first time through, and once   *)
(* the CPU attends while the chips do the rest.                            *)
HybridLayer(new, cached, how, cost) ==
  LET proj == 16 * Work.proj * new
      rest == Ffn(new) - proj
      cpu == cost.fixed + cost.link * new + Attn(new, cached, how.requests, how.dens) * cost.slow
  IN [first |-> proj + cpu + rest, steady |-> Max({proj + rest, cpu})]

HybridTtft(tokens, chunk, how, cost) ==
  LET t == HybridLayer(Min({chunk, tokens}), 0, how, cost)
  IN LayersPerChip * (t.first + t.steady * (PlNumChips - 1))

HybridTotal(tokens, chunk, how, cost) ==
  LET n == ChunkTokens(tokens, chunk)
      Steady(i) == HybridLayer(n[i], (i - 1) * chunk, how, cost).steady
  IN HybridTtft(tokens, chunk, how, cost)
     + LayersPerChip * SumFunction([i \in 2 .. Len(n) |-> Steady(i)])

-----------------------------------------------------------------------------
(* A layer on its chip, stage by stage: detailed_layer_timing.             *)
StageOrder == <<"prefetch", "attention", "attn_norm", "router", "dispatch", "shared",
                "routed", "reduce", "ffn_norm", "forward">>

Payload == 7168

(* The chips that compute what the layer's chip does not.                  *)
Remotes(home, selection) == DOMAIN Dispatched(home, selection) \ {home}

(* Time on the arithmetic, in the memory, and on links, of a stage.  The   *)
(* attention of a decode step is given the work of the whole layer.        *)
StageTiming(stage, home, layer, tokens, how, selection) ==
  LET n == IF how.prefill THEN tokens ELSE how.batch
      local == Cardinality(LocalExperts(home, selection))
      sent == IF Remotes(home, selection) = {} THEN 0
              ELSE DispatchTime(home, Remotes(home, selection), Payload)
      next == ChipForLayer(layer + 1)
      none == [dsp |-> 0, hbm |-> 0, c2c |-> 0]
  IN CASE stage = "attention" ->
            [none EXCEPT !.dsp = IF how.prefill THEN PerLayer(tokens, 0, how)
                                 ELSE DecodeWork(how.batch)]
       [] stage \in {"attn_norm", "ffn_norm"} -> [none EXCEPT !.dsp = 16 * Work.norm * n]
       [] stage = "router" -> [none EXCEPT !.dsp = 16 * Work.router * n]
       [] stage = "shared" -> [none EXCEPT !.dsp = 16 * Work.shared * n]
       [] stage = "routed" -> [none EXCEPT !.dsp = 16 * Work.expert * n * local,
                                           !.hbm = ExpertLoad * local]
       [] stage \in {"dispatch", "reduce"} -> [none EXCEPT !.c2c = sent]
       [] stage = "forward" /\ layer + 1 < PlLayers /\ next # home ->
            [none EXCEPT !.c2c = ForwardTime(home, next, Payload)]
       [] OTHER -> none

(* What is written down for a stage that takes links: whether it leaves    *)
(* the card.                                                               *)
Message(stage, home, layer, selection) ==
  [stage |-> stage,
   cross |-> IF stage = "forward" THEN CardOf(ChipForLayer(layer + 1)) # CardOf(home)
             ELSE \E c \in Remotes(home, selection) : CardOf(c) # CardOf(home)]

LayerRecord(layer, home, selection, stages) ==
  [layer |-> layer, chip |-> home, selection |-> selection, stages |-> stages,
   messages |-> {Message(StageOrder[i], home, layer, selection) :
                   i \in {j \in DOMAIN stages : stages[j].c2c > 0}}]

LayerTiming(layer, tokens, how, selection) ==
  LET home == ChipForLayer(layer)
  IN LayerRecord(layer, home, selection,
       [i \in DOMAIN StageOrder |->
          StageTiming(StageOrder[i], home, layer, tokens, how, selection)])

(* What a layer of the detailed model selects: as many experts of its own  *)
(* chip as the path says, where it has them, and others.                   *)
Selections(home, path) ==
  LET own == HostedBy(fleet.hosts, home)
      Of(S, k) == {T \in SUBSET S : Cardinality(T) = k}
  IN {a \union b : a \in Of(own, Min({path, Cardinality(own)})),
                   b \in Of(PlExpertIds \ own, SelTopK - path)}

NewTrace == [layer |-> 0, at |-> 1, selection |-> {}, stages |-> <<>>, kept |-> {},
             layers |-> <<>>]

(* K in parts of which KParts make one.                                    *)
KParts == Draws * SelTopK * (PlNumChips - 1)

TimesInit ==
  /\ timed = <<>> /\ trace = NewTrace
  /\ engines = [own |-> <<>>, active |-> FillK * KParts]

TimeLayer ==
  /\ fleet.phase = "ready"
  /\ timed = <<>> /\ trace = NewTrace /\ engines.own = <<>>
  /\ \E layer \in 0 .. PlLayers - 1, path \in 0 .. Min({2, SelTopK}) :
       \E selection \in Selections(ChipForLayer(layer), path) :
         timed' = LayerTiming(layer, Max(TokenCounts),
                    [prefill |-> TRUE, batch |-> Min(TokenCounts), fp4 |-> TRUE,
                     dens |-> 4, requests |-> 1], selection)

-----------------------------------------------------------------------------
(* The older model: process_token takes a token through the layers, a      *)
(* layer through the stages.  Experts are where ranges put them.  The      *)
(* times of a stage are on the arithmetic, of the memory and of links.     *)
OlderHost(e) == UniformHosts[e][1]
OlderLocal(home, selection) == {e \in selection : OlderHost(e) = home}

(* What computes: the weights are prefetched before experts are selected,  *)
(* attention has its own work alone, experts stream theirs.                *)
OlderCompute(stage, home, selection) ==
  LET local == Cardinality(OlderLocal(home, selection))
      Takes(work) == [dsp |-> work, hbm |-> 0, c2c |-> 0]
  IN CASE stage = "prefetch" -> Takes(0)
       [] stage = "attention" -> Takes(Work.proj + Work.qk * KvLen + Work.av)
       [] stage \in {"attn_norm", "ffn_norm"} -> Takes(Work.norm)
       [] stage = "router" -> Takes(Work.router)
       [] stage = "shared" -> Takes(Work.shared)
       [] stage = "routed" -> [Takes(Work.expert * local) EXCEPT !.hbm = ExpertLoad * local]

(* One message to each chip that has experts selected and is not this one, *)
(* all sent at once; the same come back.                                   *)
OlderDispatch(home, selection) ==
  {[stage |-> "dispatch", src |-> home, dst |-> c, experts |-> OlderLocal(c, selection)] :
     c \in {OlderHost(e) : e \in selection} \ {home}}

OlderReduce(home, selection) ==
  {[stage |-> "reduce", src |-> c, dst |-> home, experts |-> OlderLocal(c, selection)] :
     c \in {OlderHost(e) : e \in selection} \ {home}}

(* The hidden state goes to the chip of the next layer, if it is another.  *)
(* Nothing keeps this message: process_layer keeps those of the other two. *)
OlderForward(home, layer) ==
  IF layer + 1 < PlLayers /\ ChipForLayer(layer + 1) # home
  THEN {[stage |-> "forward", src |-> home, dst |-> ChipForLayer(layer + 1), experts |-> {}]}
  ELSE {}

OlderSent(stage, home, layer, selection) ==
  CASE stage = "dispatch" -> OlderDispatch(home, selection)
    [] stage = "reduce" -> OlderReduce(home, selection)
    [] stage = "forward" -> OlderForward(home, layer)
    [] OTHER -> {}

OlderTiming(stage, home, layer, selection) ==
  IF stage \in {"dispatch", "reduce", "forward"}
  THEN [dsp |-> 0, hbm |-> 0,
        c2c |-> Max({TransferTime(msg.src, msg.dst, Payload) :
                       msg \in OlderSent(stage, home, layer, selection)} \union {0})]
  ELSE OlderCompute(stage, home, selection)

(* Most tokens select of the experts at the head, others of the rest.      *)
OlderSelections ==
  {T \in SUBSET PlExpertIds :
     Cardinality(T) = SelTopK /\ (T \subseteq 0 .. HeadExperts - 1 \/ T \cap 0 .. HeadExperts - 1 = {})}

(* One stage; the router's choice is what the stages after it work on.  At *)
(* the end of a layer its times and messages join the trace.               *)
OlderStage ==
  /\ fleet.phase = "ready" /\ fleet.plan = <<>> /\ timed = <<>> /\ engines.own = <<>>
  /\ trace.layer < PlLayers
  /\ LET stage == StageOrder[trace.at]
         home == ChipForLayer(trace.layer)
         stages == Append(trace.stages, OlderTiming(stage, home, trace.layer, trace.selection))
         sent == IF stage = "forward" THEN {}
                 ELSE OlderSent(stage, home, trace.layer, trace.selection)
     IN \E chosen \in IF stage = "router" THEN OlderSelections ELSE {trace.selection} :
          IF trace.at < Len(StageOrder)
          THEN trace' = [trace EXCEPT !.at = @ + 1, !.stages = stages,
                                      !.kept = @ \union sent, !.selection = chosen]
          ELSE trace' = [NewTrace EXCEPT
                 !.layer = trace.layer + 1,
                 !.layers = Append(trace.layers,
                   [chip |-> home, selection |-> trace.selection, stages |-> stages,
                    kept |-> trace.kept])]

(* An engine of a cluster without replicas goes by K, one of a cluster with *)
(* replicas scales K by how many experts some sampled tokens selected of    *)
(* other chips than some sampled chip.  The rate is asked of the class, and *)
(* the last engine made has set it for all.                                 *)
LocalCounts ==
  {Cardinality(LocalExperts(c, s)) :
     c \in PlChips, s \in {T \in SUBSET PlExpertIds : Cardinality(T) = SelTopK}}

MakeEngine(k) ==
  /\ Len(engines.own) < 2
  /\ engines' = [own |-> Append(engines.own, k), active |-> k]

MakePlainEngine ==
  /\ fleet.phase = "ready"
  /\ fleet.plan = <<>> \/ engines.own # <<>>
  /\ MakeEngine(FillK * KParts)

MakeHotEngine ==
  /\ fleet.phase = "ready" /\ fleet.plan # <<>>
  /\ \E draws \in [1 .. Draws -> LocalCounts] :
       MakeEngine(FillK * PlNumChips * (SelTopK * Draws - SumFunction(draws)))

TimesNext ==
  \/ TimeLayer /\ UNCHANGED <<trace, engines>>
  \/ OlderStage /\ UNCHANGED <<timed, engines>>
  \/ /\ timed = <<>> /\ trace = NewTrace
     /\ UNCHANGED <<timed, trace>>
     /\ (MakePlainEngine \/ MakeHotEngine)

(* analyze_pipeline: what the layers of a trace took, by the longest of    *)
(* each stage, and how many experts each computed at home, of two at most. *)
LayerTotal(layer) ==
  SumFunction([i \in DOMAIN layer.stages |->
                 Max({layer.stages[i].dsp, layer.stages[i].hbm, layer.stages[i].c2c})])

HitsOf(layer) == Min({2, Cardinality(OlderLocal(layer.chip, layer.selection))})
HitCounts(layers) ==
  [k \in 0 .. 2 |-> Cardinality({i \in DOMAIN layers : HitsOf(layers[i]) = k})]

-----------------------------------------------------------------------------
(* Jobs that follow each other through the chips, each taking a chip for   *)
(* some time: when each leaves each chip.                                  *)
Leaves(jobs, Time(_, _)) ==
  LET at[i \in 0 .. jobs, c \in -1 .. PlNumChips - 1] ==
        IF i = 0 \/ c = -1 THEN 0 ELSE Max({at[i - 1, c], at[i, c - 1]}) + Time(i, c)
  IN at

ChipTime(table, c) == SumFunctionOnSet(table, ClusterLayers(c))

(* simulate_pipeline: the chip that takes longest, by its layers.          *)
BottleneckChip(table) ==
  CHOOSE c \in PlChips :
    /\ \A d \in PlChips : ChipTime(table, c) >= ChipTime(table, d)
    /\ \A d \in 0 .. c - 1 : ChipTime(table, c) > ChipTime(table, d)

(* Per layer, as a fraction; the older model takes the largest such mean.  *)
Mean(table, c) == [num |-> ChipTime(table, c), den |-> Cardinality(ClusterLayers(c))]
NoMore(p, q) == p.num * q.den <= q.num * p.den

LatencyOf(table) == SumFunction([c \in PlChips |-> ChipTime(table, c)])

-----------------------------------------------------------------------------
(* Rates that are asked of an engine.  throughput_model: a token of a      *)
(* batch takes TokenTime * (batch + K) / batch; here that of the batch.    *)
BatchTime(batch, k) == TokenTime * (batch * KParts + k)

(* derive_k_pipeline: from the times of a layer for one token and for a    *)
(* batch that fills the pipeline, as a fraction, at least none.            *)
DerivedK(one, full, batch) == [num |-> Max({0, batch * one - full}), den |-> full]

(* A decode layer of the detailed model, by the longest of each stage.     *)
DecodeLayer(layer, batch, selection) ==
  LayerTotal(LayerTiming(layer, batch,
    [prefill |-> FALSE, batch |-> batch, fp4 |-> TRUE, dens |-> 4, requests |-> 1], selection))

(* chip0_admission_rate: the time of a chunk on the first chip, less what  *)
(* is done elsewhere, and the time between requests, taken to be of four   *)
(* chunks, over as many first chips.                                       *)
AdmitChunk(chunk, how, offload) ==
  IF offload THEN Max({1, Chip0Bottleneck(chunk, how) - FrontTime}) ELSE Chip0Bottleneck(chunk, how)
AdmitRequest(chunk, how, offload, firsts) ==
  [num |-> 4 * AdmitChunk(chunk, how, offload), den |-> Max({1, firsts})]

(* concurrent_pipeline_model: both are slowed alike, by a twentieth or by  *)
(* what the memory is asked for, in twentieths of it, over the 19 usable.  *)
(* A prompt reads the weights once, a decode step those of one expert; the *)
(* step is given the time of one token.  Nothing runs without the other.   *)
Asked(tokens, batch, how, k) ==
  (20 * ExpertLoad) \div PrefillLatency(tokens, how)
  + (20 * ExpertLoad * batch * KParts) \div BatchTime(batch, k)
Slowed(tokens, batch, how, k) ==
  IF tokens = 0 \/ batch = 0 THEN [runs |-> FALSE, num |-> 1, den |-> 1]
  ELSE IF 20 * Asked(tokens, batch, how, k) > 21 * 19
    THEN [runs |-> TRUE, num |-> Asked(tokens, batch, how, k), den |-> 19]
    ELSE [runs |-> TRUE, num |-> 21, den |-> 20]

-----------------------------------------------------------------------------
(* The experiments and what they are checked against.                      *)
PerChip == PlExperts \div PlNumChips

(* Of 100^SelTopK tokens, those that select none, one, and more of the     *)
(* experts of a card with a share of all selections, in percent.           *)
HitShares(share) ==
  LET none == (100 - share) ^ SelTopK
      one == SelTopK * share * (100 - share) ^ (SelTopK - 1)
  IN [k \in 0 .. 2 |-> CASE k = 0 -> none [] k = 1 -> one
                          [] OTHER -> 100 ^ SelTopK - none - one]

Weighted(shares, amount) == SumFunction([k \in DOMAIN shares |-> shares[k] * amount[k]])

(* What is read of the memory for so many experts: with the router's       *)
(* weights, but nothing for none.  A unit is what is read in a unit of     *)
(* time one read after the other, which is 46 % of the peak.               *)
HitRead == [k \in 0 .. 2 |-> IF k = 0 THEN 0 ELSE ExpertLoad * k + 1]

(* run_experiment_2: percent of the peak, and the verdict.                 *)
EffectiveBw(share) ==
  LET read == Weighted(HitShares(share), HitRead) IN (46 * read) \div Max({read, 1})
BwVerdict(bw) == CASE bw >= 60 -> "PASS" [] bw >= 40 -> "WARN" [] OTHER -> "FAIL"

(* run_zipf_alpha_sweep: cards take experts in ranges of their popularity; *)
(* a card whose range is not whole is left out.                            *)
SweepCards(shares, each) ==
  LET whole == {c \in 0 .. PlNumChips - 1 : (c + 1) * each <= PlExperts}
  IN [c \in whole |-> SumFunctionOnSet(shares, c * each + 1 .. (c + 1) * each)]

(* run_experiment_3: attention and the shared expert over the cards that   *)
(* share them, with routed experts whole; the longer of that and reading.  *)
HitDsp == [k \in 0 .. 2 |->
  2 * (Work.proj + Work.qk + Work.av + Work.shared) + 16 * Work.expert * k]
HitLatency == [k \in 0 .. 2 |-> Max({HitDsp[k], HitRead[k]})]
ExperimentLayer(share) ==
  LET of == HitShares(share)
      busy == Weighted(of, HitDsp)
      read == Weighted(of, HitRead)
  IN [latency |-> Weighted(of, HitLatency), busy |-> busy, read |-> read,
      bound |-> IF busy >= read THEN "DSP" ELSE "HBM"]

(* cross_validate_stacks: a layer of one token by arithmetic alone, in     *)
(* parts of which PlNumChips are one; of the detailed model, with one expert *)
(* of the first chip; and the verdict on two stacks.                       *)
AnalyticalLayer ==
  [dsp |-> PlNumChips * (8 * (Work.proj + Work.qk * KvLen + Work.av) + 16 * Work.shared)
           + 16 * Work.expert * SelTopK * PerChip,
   hbm |-> (ExpertLoad * SelTopK + PlNumChips) * PerChip]
StackTotals(t) ==
  [dsp |-> SumFunction([i \in DOMAIN t.stages |-> t.stages[i].dsp]),
   hbm |-> SumFunction([i \in DOMAIN t.stages |-> t.stages[i].hbm]),
   total |-> LayerTotal(t)]
MainStack(selection) ==
  StackTotals(LayerTiming(0, 1, [prefill |-> FALSE, batch |-> 1, fp4 |-> TRUE, dens |-> 4,
                                 requests |-> 1], selection))
Converge(legacy, main, analytical) ==
  \A t \in {legacy, main} : 5 * (IF t < analytical THEN analytical - t ELSE t - analytical)
                              < analytical

(* phase2b p_local_experts: the chance that a pick is not local, when some *)
(* hot experts are on so many chips, as a fraction.  Eight hot ones have   *)
(* 55 % of the picks, more in proportion.                                  *)
HotMass(hot) == Min({160, 11 * hot})
PickMisses(hot, copies) ==
  LET cold == PlExperts - hot
      all == 160 * PlNumChips * cold
  IN [num |-> all - HotMass(hot) * copies * cold - (160 - HotMass(hot)) * PerChip * PlNumChips,
      den |-> all]
AllMissUnder5(p) == 20 * p.num ^ SelTopK < p.den ^ SelTopK
ExtraCopies(hot, copies) == hot * (copies - 1)
CopiesFit(hot, copies) == ExtraCopies(hot, copies) * ExpertMb < HbmMb - ReserveMb

(* The choice: of those that fit and miss seldom one of fewest copies,     *)
(* else of those that fit one that misses least.                           *)
ReplicationChoices ==
  LET fit == {o \in HotCounts \X HotCopies : CopiesFit(o[1], o[2])}
      good == {o \in fit : AllMissUnder5(PickMisses(o[1], o[2]))}
      Miss(o) == PickMisses(o[1], o[2])
  IN IF good # {}
     THEN {o \in good : \A q \in good : ExtraCopies(o[1], o[2]) <= ExtraCopies(q[1], q[2])}
     ELSE {o \in fit : \A q \in fit : NoMore(Miss(o), Miss(q))}

-----------------------------------------------------------------------------
Hows == [fp4 : BOOLEAN, dens : {1, 4}, requests : {1, 2}]

(* The shared links take no less time than all payloads at once do in the  *)
(* older model, and as much for a single payload that goes clockwise or    *)
(* leaves the card.  The estimate for a whole cache takes no less than its *)
(* bytes do on the bus.                                                    *)
SharingCosts ==
  /\ \A tokens \in TokenCounts :
       128 * KVTransferTime(tokens, 1152) >= 17 * PcieTime(tokens * 1152)
  /\ \A src \in PlChips : \A remotes \in SUBSET (PlChips \ {src}) :
       /\ DispatchTime(src, remotes, Payload) >= DispatchAtOnce(src, remotes, Payload)
       /\ \A c \in remotes :
            (c - src) % 4 <= 2 \/ CardOf(c) # CardOf(src) =>
              DispatchTime(src, {c}, Payload) = DispatchAtOnce(src, {c}, Payload)

(* Chunks do the work of the whole prompt.  The first comes out when the   *)
(* time to first token says; the last no earlier than the total says, and  *)
(* then only if no later chunk takes longer than the first; the total is   *)
(* never more than that of the prompt in one piece.  Nor does a prompt     *)
(* take less of the first chip than its first chunk, by the throughput.    *)
ChunksAddUp ==
  \A tokens \in TokenCounts, chunk \in ChunkLens, how \in Hows :
    LET t == ChunkTimes(tokens, chunk, how)
        n == Len(t)
        leaves == Leaves(n, LAMBDA i, c : t[i] * Cardinality(ClusterLayers(c)))
        total == ChunkedTotal(tokens, chunk, how)
    IN /\ SumFunction(t) = PerLayer(tokens, 0, how)
       /\ leaves[1, PlNumChips - 1] = ChunkedTtft(tokens, chunk, how)
       /\ chunk <= tokens => leaves[1, 0] = Chip0Bottleneck(chunk, how)
       /\ PrefillInterval(tokens, how) >= leaves[1, 0]
       /\ total <= leaves[n, PlNumChips - 1]
       /\ total = leaves[n, PlNumChips - 1] <=> \A i \in 2 .. n : t[i] <= t[1]
       /\ total <= PrefillLatency(tokens, how)

(* With attention on the CPU a prompt in one chunk takes its time to first *)
(* token, in more no less; never less than the chips take for it.          *)
HybridAddsUp ==
  \A tokens \in TokenCounts, chunk \in ChunkLens, how \in Hows, cost \in HybridCosts :
    LET n == ChunkTokens(tokens, chunk)
        leaves == Leaves(Len(n), LAMBDA i, c :
                    HybridLayer(n[i], 0, how, cost).steady * Cardinality(ClusterLayers(c)))
    IN /\ HybridTotal(tokens, chunk, how, cost) >= HybridTtft(tokens, chunk, how, cost)
       /\ tokens <= chunk =>
            HybridTotal(tokens, chunk, how, cost) = HybridTtft(tokens, tokens, how, cost)
       /\ HybridTtft(tokens, chunk, how, cost) >= leaves[1, PlNumChips - 1]

(* Tokens come out one by one as far apart as the longest chip takes.  The *)
(* models tell the time per layer of it, so as many times the rate as the  *)
(* chip has layers; the older model never tells a higher rate.             *)
RatesPerLayer ==
  \A table \in [0 .. PlLayers - 1 -> {1, 3}] :
    LET leaves == Leaves(3, LAMBDA i, c : ChipTime(table, c))
        slowest == BottleneckChip(table)
        apart == leaves[3, PlNumChips - 1] - leaves[2, PlNumChips - 1]
    IN /\ leaves[1, PlNumChips - 1] = LatencyOf(table)
       /\ apart * Mean(table, slowest).den
            = Mean(table, slowest).num * Cardinality(ClusterLayers(slowest))
       /\ \E c \in PlChips :
            /\ \A d \in PlChips : NoMore(Mean(table, d), Mean(table, c))
            /\ NoMore(Mean(table, slowest), Mean(table, c))

(* Of a layer that was timed: it sends and receives back if some expert is *)
(* computed elsewhere, out of the card only if the card has it not; it     *)
(* hands on if the next layer is on another chip.  Only the experts of the *)
(* chip are computed and read there.                                       *)
MessagesFollow ==
  timed # <<>> =>
    LET Says(stage) == {m \in timed.messages : m.stage = stage}
        away == {e \in timed.selection : ClosestReplica(timed.chip, e) # timed.chip}
        far == {e \in away : \A i \in DOMAIN fleet.hosts[e] :
                               CardOf(fleet.hosts[e][i]) # CardOf(timed.chip)}
        last == timed.layer = Max(ClusterLayers(timed.chip))
    IN /\ \A stage \in {"dispatch", "reduce"} :
            Says(stage) = IF away = {} THEN {} ELSE {[stage |-> stage, cross |-> far # {}]}
       /\ Says("forward") =
            IF last /\ timed.layer + 1 < PlLayers
            THEN {[stage |-> "forward", cross |-> (timed.chip + 1) % CardChips = 0]} ELSE {}
       /\ timed.stages[7].hbm > 0 <=> LocalExperts(timed.chip, timed.selection) # {}

(* A layer of the older model sends each expert it selected to one chip or *)
(* computes it, gets back what it sent, and takes for it no longer than    *)
(* the detailed model, which shares the links.  A whole token has taken    *)
(* the layers of each chip, and crossed cards once for each after the      *)
(* first, though no message says so.                                       *)
OlderLayersWhole ==
  \A i \in DOMAIN trace.layers :
    LET layer == trace.layers[i]
        Kept(stage) == {msg \in layer.kept : msg.stage = stage}
        away == {msg.dst : msg \in Kept("dispatch")}
        own == OlderLocal(layer.chip, layer.selection)
    IN /\ layer.chip = ChipForLayer(i - 1)
       /\ UNION {msg.experts : msg \in Kept("dispatch")} = layer.selection \ own
       /\ \A m1, m2 \in Kept("dispatch") : m1 # m2 => m1.experts \cap m2.experts = {}
       /\ {[m EXCEPT !.stage = "dispatch", !.src = m.dst, !.dst = m.src] : m \in Kept("reduce")}
            = Kept("dispatch")
       /\ layer.kept = Kept("dispatch") \union Kept("reduce")
       /\ away # {} => layer.stages[5].c2c <= DispatchTime(layer.chip, away, Payload)
       /\ layer.stages[7].hbm = ExpertLoad * Cardinality(own)
       /\ LayerTotal(layer) >= 2 * layer.stages[5].c2c + layer.stages[2].dsp

OlderTokenWhole ==
  trace.layer = PlLayers =>
    /\ SumFunction(HitCounts(trace.layers)) = PlLayers
    /\ \A c \in PlChips :
         {i \in DOMAIN trace.layers : trace.layers[i].chip = c} = {l + 1 : l \in ClusterLayers(c)}
    /\ Cardinality({i \in 1 .. PlLayers - 1 :
          trace.layers[i].stages[10].c2c >= PcieTime(Payload)}) = Cards - 1

(* Of engines: all tell the rate of the one made last, so of two of one    *)
(* cluster without replicas each tells its own; K never falls below none.  *)
(* A larger batch takes longer, and each token of it less.                 *)
EnginesShare ==
  engines.own # <<>> =>
    LET last == engines.own[Len(engines.own)]
    IN /\ engines.active = last /\ last >= 0
       /\ \A b, c \in TokenCounts : b < c =>
            /\ BatchTime(b, engines.active) < BatchTime(c, engines.active)
            /\ BatchTime(c, engines.active) * b <= BatchTime(b, engines.active) * c
       /\ fleet.plan = <<>> => last = FillK * KParts

(* The K taken from the layer times of one token and of a full batch tells *)
(* the rate of one token as it is, and for a batch up to the full one no   *)
(* higher rate than the detailed model's.                                  *)
TellsNoMore(k, full, time) ==
  \A b \in TokenCounts :
    /\ full * time[b] <= b * k.den + k.num
    /\ b = 1 => full * time[b] = b * k.den + k.num

DerivedKSafe ==
  fleet.phase = "ready" /\ fleet.plan = <<>> /\ timed = <<>> /\ trace = NewTrace =>
    LET full == Max(TokenCounts)
        Safe(time) == TellsNoMore(DerivedK(time[1], time[full], full), full, time)
    IN \A selection \in Selections(0, 1) :
         Safe([b \in TokenCounts \union {1} |-> DecodeLayer(0, b, selection)])

(* What is admitted is no fewer than the first chip takes of requests of   *)
(* four chunks, later chunks being longer; two at once ask no more of the  *)
(* memory than it has once both are slowed, and neither gains.             *)
AdmissionBounds ==
  \A how \in Hows, chunk \in ChunkLens, offload \in BOOLEAN :
    /\ AdmitRequest(chunk, how, offload, 0) = AdmitRequest(chunk, how, offload, 1)
    /\ AdmitRequest(chunk, how, offload, 1).num
         <= SumFunction(ChunkTimes(4 * chunk, chunk, how)) * LayersPerChip
    /\ \A batch \in TokenCounts \union {0} :
         LET s == Slowed(chunk, batch, how, FillK * KParts)
         IN s.runs => /\ s.num > s.den
                      /\ Asked(chunk, batch, how, FillK * KParts) * s.den <= 19 * s.num

(* The bandwidth found is that of one read after the other whatever cards  *)
(* hit, so every card of a sweep is found alike and no verdict but one is  *)
(* ever given; unless nothing is read.                                     *)
BandwidthAlike ==
  \A shares \in ShareTables, each \in 1 .. 2 :
    LET cards == SweepCards(shares, each)
    IN /\ \A c \in DOMAIN cards : BwVerdict(EffectiveBw(cards[c])) = "WARN"
       /\ \A c, d \in DOMAIN cards : EffectiveBw(cards[c]) = EffectiveBw(cards[d])
       /\ BwVerdict(EffectiveBw(0)) = "FAIL"

(* The layer's time lies between the longer of its two parts and their     *)
(* sum, by which the analytical model takes it; so that is at most twice.  *)
LayerTimesMeet ==
  \A shares \in ShareTables : \A i \in DOMAIN shares :
    LET l == ExperimentLayer(shares[i])
    IN /\ Max({l.busy, l.read}) <= l.latency
       /\ l.latency <= l.busy + l.read
       /\ l.bound = "DSP" => l.latency <= 2 * l.busy
       /\ SumFunction(HitShares(shares[i])) = 100 ^ SelTopK

(* The detailed model counts more arithmetic for a token than the          *)
(* arithmetic alone does, by at least the experts it counts twice; so when *)
(* its time is found to converge, it is not for the arithmetic.            *)
CountsMore(main) ==
  LET whole == AnalyticalLayer.dsp + AnalyticalLayer.hbm
  IN /\ PlNumChips * (main.dsp - 16 * Work.expert * SelTopK) >= AnalyticalLayer.dsp
     /\ main.total <= main.dsp + main.hbm + 2 * DispatchTime(0, PlChips \ {0}, Payload)
                      + ForwardTime(0, 1, Payload)
     /\ Converge(PlNumChips * main.total, PlNumChips * main.total, whole) =>
          5 * PlNumChips * main.dsp < 6 * whole

MainCountsMore ==
  fleet.phase = "ready" /\ fleet.plan = <<>> /\ timed = <<>> /\ trace = NewTrace =>
    \A selection \in Selections(0, 1) : CountsMore(MainStack(selection))

(* More copies never raise the chance to miss; and as cold experts are     *)
(* given the picks of a smaller number, one copy of each already seems to  *)
(* miss less than the even spread it is.  What is chosen fits a chip.      *)
CopiesHelp ==
  /\ \A hot \in HotCounts, few, many \in HotCopies :
       few <= many => NoMore(PickMisses(hot, many), PickMisses(hot, few))
  /\ \A hot \in HotCounts :
       /\ NoMore(PickMisses(hot, 1), [num |-> PlNumChips - 1, den |-> PlNumChips])
       /\ PickMisses(hot, PlNumChips).num >= 0
  /\ \A o \in ReplicationChoices :
       /\ ExtraCopies(o[1], o[2]) * ExpertMb < HbmMb - ReserveMb
       /\ \A q \in HotCounts \X HotCopies :
            AllMissUnder5(PickMisses(q[1], q[2])) /\ CopiesFit(q[1], q[2]) =>
              AllMissUnder5(PickMisses(o[1], o[2]))

(* What the models say of time is true of what they model.                 *)
TimesHold ==
  SharingCosts /\ ChunksAddUp /\ HybridAddsUp /\ RatesPerLayer /\ MessagesFollow
  /\ OlderLayersWhole /\ OlderTokenWhole /\ EnginesShare /\ DerivedKSafe
  /\ AdmissionBounds /\ BandwidthAlike /\ LayerTimesMeet /\ MainCountsMore /\ CopiesHelp

=============================================================================

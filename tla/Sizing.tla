--------------------------------- MODULE Sizing ---------------------------------
(***************************************************************************)
(* How many servers, and what they are said to give: the serving estimates *)
(* (simulation/fpga_cloud_serving.py), the larger clusters                 *)
(* (fpga_cluster_architecture.py), the prefill model                       *)
(* (fpga_arch/prefill_sram_model.py) and the window model                  *)
(* (phase2a_sliding_window_model.py); and the sizes told again by the      *)
(* spreadsheet (gen_sizing_excel.py) and by printed tables.  Each answers  *)
(* a question; question is the one that was asked.  A rate is a fraction   *)
(* [num, den]; times are in units of which one token takes 88 at the full  *)
(* rate of a server; money is in thousands of RMB.                         *)
(***************************************************************************)
EXTENDS Integers, FiniteSets, FiniteSetsExt, Functions, SequencesExt

CONSTANTS
  ServerTps,              \* PIPELINE_TPS
  FillDepth,                   \* K: PIPELINE_TPS / BATCH1_TPS - 1
  KvRoom,                 \* tokens of one layer that fit in a chip's memory
  SzContexts, SzTargets,  \* context lengths, tokens a second of a session
  Demands, Bursts,        \* concurrent sessions, tenths of the burst multiplier
  Fleets,                 \* numbers of servers
  SzPrompts,              \* lengths of prompts
  FillTime, SlaPrefill,   \* to fill the pipeline; what the SLA takes a prefill for
  LayerTime, ForwardMin,  \* of a layer, of a hop between servers at least
  ModelLayers, ModelExperts,
  FillWork,               \* record: density, qk, av, ffn, cpu (slower by), pcie, stream
  Rivals,                 \* records: sessions, tps, price, network: of a server of others
  Platforms,              \* records: prefill, decode rates; power; cost of a year (PlatformTco)
  WindowTokens            \* SLIDING_WINDOW + global_tokens

VARIABLE question

ASSUME SizingAssumption ==
  /\ {ServerTps, KvRoom, LayerTime, ModelLayers, ModelExperts, WindowTokens} \subseteq Nat \ {0}
  /\ {FillDepth, FillTime, SlaPrefill, ForwardMin} \subseteq Nat
  /\ SzContexts \cup SzTargets \cup Demands \cup Fleets \cup SzPrompts \subseteq Nat \ {0}
  /\ \A b \in Bursts : b >= 10

FloorDiv(a, b) == a \div b
CeilDiv(a, b) == (a + b - 1) \div b
AtLeast(p, q) == p.num * q.den >= q.num * p.den

Questions ==
  [kind : {"traffic"}, context : SzContexts, target : SzTargets, demand : Demands, burst : Bursts]
  \union [kind : {"sla"}, context : SzContexts, target : SzTargets, servers : Fleets]
  \union [kind : {"fleet"}, servers : Fleets]
  \union [kind : {"prompt"}, prompt : SzPrompts]
  \union [kind : {"platform"}, platform : Platforms]

SizeInit == question = [kind |-> "none"]
Ask == question.kind = "none" /\ question' \in Questions
SizeNext == Ask

-----------------------------------------------------------------------------
(* Sessions of a server: a chip of two layers keeps both for each, and     *)
(* each is promised its rate.                                              *)
SessionsMemory(context) == KvRoom \div (2 * context)
SessionsCompute(target) == ServerTps \div target

Concurrency(context, target) ==
  LET memory == SessionsMemory(context)
      compute == SessionsCompute(target)
  IN IF memory <= compute
     THEN [sessions |-> memory, bound |-> "memory", tps |-> ServerTps]
     ELSE [sessions |-> compute, bound |-> "compute", tps |-> compute * target]

(* A batch of b fills b of b + K places of the pipeline.                   *)
BatchTps(b) == [num |-> ServerTps * b, den |-> b + FillDepth]

(* Between two tokens of one of b requests; and from a prompt to its first *)
(* token: prefill runs at 88 % of the rate.                                *)
Tpot(b) == 88 * (b + FillDepth)
PrefillTime(prompt) == 100 * prompt + FillTime
Ttft(prompt, b) == PrefillTime(prompt) + Tpot(b)

(* The SLA analysis shares the full rate among the sessions.               *)
SlaTpot(context, target) == 88 * Concurrency(context, target).sessions
SlaTtft(context, target) == SlaPrefill + SlaTpot(context, target)

SlaSessions(context, target, servers, tier) ==
  Min({(ServerTps * servers) \div tier, Concurrency(context, target).sessions * servers})

(* Servers for some clients at a tier, 999 where one can hold no session.  *)
SlaServers(context, target, clients, tier) ==
  LET each == Min({ServerTps \div tier, Concurrency(context, target).sessions})
  IN IF each > 0 THEN CeilDiv(clients, each) ELSE 999

TierMet(context, target, tier) ==
  Concurrency(context, target).sessions > 0 /\
  AtLeast([num |-> ServerTps, den |-> Concurrency(context, target).sessions],
          [num |-> tier, den |-> 1])

(* size_by_traffic, of a server that holds some session: it divides by     *)
(* their number.                                                           *)
SizeByTraffic(q) ==
  LET each == Min({SessionsMemory(q.context), SessionsCompute(q.target)})
      required == q.demand * q.target
      bySessions == CeilDiv(q.demand, each)
      byThroughput == CeilDiv(required, ServerTps)
      byBurst == CeilDiv((q.demand * q.burst) \div 10, each)
      servers == Max({bySessions, byThroughput, byBurst})
  IN [each |-> each, servers |-> servers, bySessions |-> bySessions,
      byThroughput |-> byThroughput, byBurst |-> byBurst,
      headroom |-> servers * each - q.demand,
      perSession |-> [num |-> servers * ServerTps, den |-> q.demand],
      headroomTps |-> servers * ServerTps - required]

(* Nine servers of four units a rack, and two units of switch.             *)
Racks(servers) == [r \in 0 .. CeilDiv(servers, 9) - 1 |-> Min({9, servers - 9 * r})]
UsedUnits(inRack) == inRack * 4 + 2
SwitchesOf(racks) == racks + (IF racks = 1 THEN 0 ELSE IF racks <= 4 THEN 1 ELSE 2)

(* In thousands of RMB, power in tenths of a kW: what the fleet costs to   *)
(* buy, and one year of it but for maintenance and power's price.          *)
FleetCapex(servers) ==
  LET racks == Cardinality(DOMAIN Racks(servers))
  IN 1000 * servers + 80 * SwitchesOf(racks) + 65 * racks
FleetPower(servers) == 53 * servers + 5 * Cardinality(DOMAIN Racks(servers))
FleetOpex(servers) ==
  4 * FleetPower(servers) + 60 * Cardinality(DOMAIN Racks(servers))
  + 300 * (1 + servers \div 100)

-----------------------------------------------------------------------------
(* Larger clusters.  In hundredths, what a balancer leaves of the rate.    *)
Balanced(servers) == IF servers <= 4 THEN 100 ELSE IF servers <= 8 THEN 98 ELSE 95
DataParallelTps(servers) == servers * ServerTps * Balanced(servers)

ExpertsPerServer(servers) == ModelExperts \div servers

(* Of six selected, six over n are local; the time of a layer, times n:    *)
(* what is always local and the sum at the end, the experts here, and each *)
(* of the others with two hops.                                            *)
ExpertParallelTime(servers, hop) ==
  servers * 11 + 6 * 37 + 6 * (servers - 1) * (2 * hop + 37 + 6)
ExpertParallelTps(servers, hop) ==
  [num |-> servers * servers, den |-> ExpertParallelTime(servers, hop)]

LayersPerServer(servers) == CeilDiv(ModelLayers, servers)
ForwardTime2(hop) == Max({hop, ForwardMin})
PipelineParallelLatency(servers, hop) ==
  ModelLayers * LayerTime + (servers - 1) * ForwardTime2(hop)
PipelineParallelTps(servers, hop) ==
  [num |-> LayersPerServer(servers),
   den |-> LayersPerServer(servers) * LayerTime + ForwardTime2(hop)]

(* Racks of a hybrid: whole ones.                                          *)
HybridRacks(servers) ==
  LET inRack == Min({servers, 9}) IN [inRack |-> inRack, racks |-> servers \div inRack]

(* design_rack and cluster_cost_model.                                     *)
RackServers(servers) == Min({servers, (42 - 4) \div 4, 9})
RackUnits(servers, switched) == 4 * RackServers(servers) + (IF switched THEN 2 ELSE 0) + 1
CostRacks(servers) == CeilDiv(servers, 9)
CostSwitches(servers) == CeilDiv(servers, 32)

(* Hours a year all stand in for one: two for each failure of each, of     *)
(* 1562 hours between two of a server; in units of 1 / 1562.               *)
DowntimeShare(servers) == 2 * servers
Degraded(servers, strategy) == IF strategy = "data" THEN servers - 1 ELSE 0

-----------------------------------------------------------------------------
(* Prefill of a prompt on the chips, in units of a frequency of 1; the     *)
(* array takes 128 by 32 by 32 at a time, and five cycles after each.      *)
CyclesMatmul(rows, depth, tokens) ==
  Max({1, CeilDiv(rows, 32)}) * Max({1, CeilDiv(tokens, 32)}) * (Max({1, CeilDiv(depth, 128)}) + 5)

QkvCycles2(tokens) == CyclesMatmul(96, 448, tokens) + 2 * CyclesMatmul(32, 448, tokens)
OCycles(tokens) == CyclesMatmul(64, 448, tokens) + CyclesMatmul(448, 64, tokens)

AttnWork(tokens) ==
  (FillWork.qk * tokens * tokens * FillWork.density) \div 2 + FillWork.av * tokens * FillWork.density

(* The feed-forward part waits for weights that do not come faster at a    *)
(* higher frequency.  All times are multiplied by the frequency.           *)
FfnTime(tokens, freq) == Max({FillWork.ffn * tokens, FillWork.stream * freq})
ChipsOnly(tokens, freq) ==
  QkvCycles2(tokens) + OCycles(tokens) + AttnWork(tokens) + FfnTime(tokens, freq)
CpuAttention(tokens, freq) == (FillWork.cpu * AttnWork(tokens) + FillWork.pcie * tokens) * freq
WithCpu(tokens, freq) ==
  QkvCycles2(tokens) + Max({CpuAttention(tokens, freq), FfnTime(tokens, freq)}) + OCycles(tokens)

(* build_platforms tells a higher frequency to be as much faster.          *)
ScaledTime(tokens, freq) == [num |-> ChipsOnly(tokens, 1), den |-> freq]

(* A blend of prefill and decode at the weights of an agent and a chat.    *)
Blended(prefillTps, decodeTps, prefillPart) ==
  [num |-> 100 * prefillTps * decodeTps,
   den |-> prefillPart * decodeTps + (100 - prefillPart) * prefillTps]

-----------------------------------------------------------------------------
(* A decode step that attends to a window and some global tokens: its work *)
(* on the arithmetic, and the bytes of keys and values it reads.           *)
WindowOf(context, windowed) == IF windowed THEN Min({context, WindowTokens}) ELSE context
StepCompute(context, windowed) == 50 + 2 * WindowOf(context, windowed) + 20
StepRead(context, windowed) == 3 * WindowOf(context, windowed) + 30
StepTime(context, windowed) == Max({StepCompute(context, windowed), StepRead(context, windowed)})
(* Which of them is called the bottleneck, and which part of it.           *)
Bottleneck(context, windowed) ==
  LET attend == 50 + 2 * WindowOf(context, windowed)
      compute == StepCompute(context, windowed)
      kv == 3 * WindowOf(context, windowed)
  IN CASE 100 * compute >= 95 * StepRead(context, windowed) ->
            IF attend >= 2 * 20 THEN "DSP(fp8)" ELSE IF 20 >= 2 * attend THEN "DSP(fp4)" ELSE "DSP"
       [] 100 * compute < 95 * StepRead(context, windowed) ->
            IF 10 * kv >= 8 * compute THEN "HBM(KV)"
            ELSE IF 10 * 30 >= 8 * compute THEN "HBM(WT)" ELSE "HBM"

-----------------------------------------------------------------------------
(* The same sizes told again.  Each sheet of the spreadsheet has formulas  *)
(* of its own; the burst is not cut to whole sessions there.               *)
SheetSessions(context, target) ==
  LET memory == KvRoom \div (2 * context)
      compute == ServerTps \div target
  IN [sessions |-> Min({memory, compute}),
      bound |-> IF memory <= compute THEN "memory" ELSE "compute"]

Calculator(q) ==
  LET each == Min({KvRoom \div (2 * q.context), ServerTps \div q.target})
      servers == Max({CeilDiv(q.demand, each), CeilDiv(q.demand * q.target, ServerTps),
                      CeilDiv(q.demand * q.burst, 10 * each)})
  IN [servers |-> servers, racks |-> CeilDiv(servers, 9), spare |-> servers * each - q.demand,
      tco |-> 1200 * servers + 5 * (48 * servers + 60 * servers)]

(* The scenarios cost a server, its power and nothing for maintenance.     *)
Scenario(q) ==
  LET each == SheetSessions(q.context, q.target).sessions
      servers == Max({CeilDiv(q.demand, each), CeilDiv(q.demand * q.target, ServerTps),
                      CeilDiv(q.demand * q.burst, 10 * each)})
  IN [servers |-> servers, racks |-> CeilDiv(servers, 9), tco |-> 1000 * servers + 5 * 21 * servers]

(* A batch gives each of its requests a rate; the sheet asks if it is met. *)
MeetsRate(b, target) == AtLeast([num |-> ServerTps, den |-> b + FillDepth], [num |-> target, den |-> 1])

(* What a server is said to be built of: chips, boards, links, power,      *)
(* cooling, platform, case.  The comparison of prefill (section 5 of       *)
(* prefill_sram_model.py) adds the chips to the whole.                     *)
ServerParts == <<576, 120, 40, 24, 16, 150, 50>>
ReportedHardware == ServerParts[1] + 1000

(* The nomogram takes the smaller of two quotients, then its whole part.   *)
NomogramSessions(context, target) ==
  IF KvRoom * target <= ServerTps * 2 * context
  THEN KvRoom \div (2 * context) ELSE ServerTps \div target

(* print_traffic_sizing: racks, five years, and what it shows as CAPEX.    *)
TrafficTco(servers) == 1000 * servers + 5 * 21 * servers
PrintedTraffic(servers) ==
  [racks |-> IF servers <= 9 THEN 1 ELSE CeilDiv(servers, 9),
   capex |-> TrafficTco(servers) \div 5]

(* The comparison of systems: ours with a switch a rack, theirs with a     *)
(* network for each server.                                                *)
Ours(q) ==
  LET each == Min({SessionsMemory(q.context), SessionsCompute(q.target)})
      servers == Max({CeilDiv(q.demand, each), CeilDiv(q.demand * q.target, ServerTps)})
  IN [servers |-> servers, cost |-> 1000 * servers + 80 * CeilDiv(servers, 9)]

Theirs(q, rival) ==
  LET servers == Max({CeilDiv(q.demand, rival.sessions), CeilDiv(q.demand * q.target, rival.tps)})
  IN [servers |-> servers, cost |-> servers * (rival.price + rival.network)]

-----------------------------------------------------------------------------
(* Section 6 of prefill_sram_model.py: platforms by what a token costs,    *)
(* and by tokens per RMB and kWh.  A year costs a third of the price and a *)
(* tenth of that, and the energy; both in units of a kilowatt's.           *)
PlatformTco(p) == p.cost + p.power
BlendOf(p, part) == Blended(p.prefill, p.decode, part)
CostPerToken(p, part) ==
  [num |-> PlatformTco(p) * BlendOf(p, part).den, den |-> BlendOf(p, part).num]
EnergyPerToken(p, part) == [num |-> p.power * BlendOf(p, part).den, den |-> BlendOf(p, part).num]
EfficiencyIndex(p, part) ==
  [num |-> BlendOf(p, part).num, den |-> BlendOf(p, part).den * PlatformTco(p) * p.power]

(* The chips at a higher clock prefill as much faster, and take 1.4 times  *)
(* the power; decode stays as fast.                                        *)
FasterClock(p) == [p EXCEPT !.prefill = 2 * @, !.power = (7 * @) \div 5]

RanksNoLower(a, b, part) == AtLeast(EfficiencyIndex(a, part), EfficiencyIndex(b, part))

(* Section 3: on-chip memory in tenths of MB, the cycles the memory makes  *)
(* the array wait, and the verdict on a frequency in MHz.                  *)
SramUsed == 210 + 60
StallCycles(freq, ns) == (freq * ns) \div 1000
Verdict(freq) == IF freq <= 600 THEN "YES" ELSE IF freq <= 800 THEN "MARGINAL" ELSE "NO-SRAM"

(* Section 4 calls the CPU faster if attention there, but for the link,    *)
(* takes less than the feed-forward part here.                             *)
CpuFaster(tokens, freq) == FillWork.cpu * AttnWork(tokens) * freq < FfnTime(tokens, freq)

(* A card of four chips (fpga_layer/card_top.py), which keep every expert  *)
(* each (alone), or share them; sizes in MB, of an expert one layer's.     *)
CardExperts(alone) == IF alone THEN ModelExperts ELSE ModelExperts \div 4
CardCoverage(alone) == IF alone THEN CardExperts(alone) ELSE 4 * CardExperts(alone)

(* Four tenths of the memory that is left are for keys and values, of 576  *)
(* bytes a token; on-chip memory in tenths of MB.                          *)
CapacityCheck(alone) ==
  LET used == 33 * CardExperts(alone)
      free == 32 * 1024 - used
  IN [sramOk |-> 396 <= 430, used |-> used, hbmOk |-> used <= 32 * 1024,
      tokens |-> (4 * free * 12500) \div 72]

(* Reads of an expert for a token: all six, over the batch; or those of    *)
(* the six that fall on a quarter of the experts, more than two taken for  *)
(* two.                                                                    *)
HitReads(alone, batch) ==
  LET one == 6 * 3^5
      more == 4^6 - 3^6 - one
  IN IF alone THEN [num |-> 6, den |-> batch] ELSE [num |-> one + 2 * more, den |-> 4^6]

-----------------------------------------------------------------------------
(* Servers sized by traffic hold every session, also at the peak, give     *)
(* each its rate, and one less would not; it is the sessions that count,   *)
(* the throughput never asks for more.  The room is what analyze_          *)
(* concurrency tells.                                                      *)
TrafficCarried ==
  question.kind = "traffic" /\ Min({SessionsMemory(question.context),
                                    SessionsCompute(question.target)}) > 0 =>
    LET q == question
        size == SizeByTraffic(q)
        fewer == size.servers - 1
        peak == Max({q.demand, (q.demand * q.burst) \div 10})
    IN /\ size.each = Concurrency(q.context, q.target).sessions
       /\ size.servers * size.each >= peak /\ fewer * size.each < peak
       /\ size.headroom >= 0 /\ size.headroomTps >= 0
       /\ AtLeast(size.perSession, [num |-> q.target, den |-> 1])
       /\ size.byThroughput <= size.bySessions

(* A tier that the full fleet meets loses it no session; at any tier the   *)
(* sessions share a rate that meets it, and the servers for some clients   *)
(* hold them.  The SLA tells shorter waits than the timing of prefill and  *)
(* decode does: by the fill of the pipeline, and the length of the prompt. *)
SlaKept ==
  question.kind = "sla" =>
    LET q == question
        limit == Concurrency(q.context, q.target).sessions
    IN \A tier \in SzTargets :
         LET sessions == SlaSessions(q.context, q.target, q.servers, tier)
             servers == SlaServers(q.context, q.target, 100, tier)
         IN /\ TierMet(q.context, q.target, tier) => sessions = limit * q.servers
            /\ sessions * tier <= ServerTps * q.servers
            /\ servers # 999 => servers * limit >= 100 /\ servers * ServerTps >= 100 * tier
            /\ SlaTpot(q.context, q.target) + 88 * FillDepth = Tpot(limit)
            /\ \A prompt \in SzPrompts : SlaTtft(q.context, q.target) < Ttft(prompt, limit)

(* Racks hold every server once, none more units than it has, as many as   *)
(* the cost model counts; a larger fleet never costs less.  Experts and    *)
(* servers that do not divide are left out: no more than one fewer than    *)
(* there are servers, than there are in a rack.                            *)
FleetsHeld ==
  question.kind = "fleet" =>
    LET n == question.servers
        racks == Racks(n)
        hybrid == HybridRacks(n)
    IN /\ SumFunction(racks) = n /\ Cardinality(DOMAIN racks) = CostRacks(n)
       /\ \A r \in DOMAIN racks : racks[r] > 0 /\ UsedUnits(racks[r]) <= 42
       /\ RackUnits(n, TRUE) <= 42
       /\ \A m \in Fleets : n < m => FleetCapex(n) < FleetCapex(m) /\ FleetOpex(n) < FleetOpex(m)
       /\ \A m \in Fleets : n < m => DataParallelTps(n) < DataParallelTps(m)
       /\ ModelExperts - ExpertsPerServer(n) * n \in 0 .. n - 1
       /\ n - hybrid.inRack * hybrid.racks \in 0 .. 8
       /\ LayersPerServer(n) * n >= ModelLayers
       /\ CostSwitches(n) <= CostRacks(n)

(* One server is as fast in parts as whole; more give a token no earlier,  *)
(* and the pipeline no more than one layer at a time.  Experts apart slow  *)
(* each layer, and a longer hop more.                                      *)
PartsNotFaster ==
  question.kind = "fleet" =>
    LET n == question.servers
    IN \A hop \in {1, 4} :
         /\ PipelineParallelLatency(n, hop) >= PipelineParallelLatency(1, hop)
         /\ AtLeast([num |-> 1, den |-> LayerTime], PipelineParallelTps(n, hop))
         /\ ExpertParallelTime(n, hop) >= n * ExpertParallelTime(1, hop)
         /\ AtLeast([num |-> n, den |-> ExpertParallelTime(1, hop)], ExpertParallelTps(n, hop))
         /\ \A m \in Fleets : m < n =>
              ExpertParallelTime(m, hop) * n <= ExpertParallelTime(n, hop) * m
         /\ ExpertParallelTime(n, 1) <= ExpertParallelTime(n, 4)
         /\ Degraded(n, "data") < n /\ DowntimeShare(n) < 1562

(* Attention on the CPU pays exactly when it takes less than attention and *)
(* the rest on the chips; at a higher frequency prefill is no faster than  *)
(* in proportion, and just that if the weights still come in time.  A      *)
(* blend lies between the rates; the window never makes a step slower, nor *)
(* does it matter before the context outgrows it; it is a step that waits  *)
(* for memory that is called bound by it.                                  *)
PrefillScales ==
  question.kind = "prompt" =>
    LET p == question.prompt
    IN /\ \A freq \in 1 .. 2 :
            WithCpu(p, freq) <= ChipsOnly(p, freq)
              <=> Max({CpuAttention(p, freq), FfnTime(p, freq)})
                    <= AttnWork(p) + FfnTime(p, freq)
       /\ \A freq \in 1 .. 2 :
            CpuFaster(p, freq) /\ CpuAttention(p, freq) <= FfnTime(p, freq) =>
              WithCpu(p, freq) = ChipsOnly(p, freq) - AttnWork(p)
       /\ AtLeast([num |-> ChipsOnly(p, 2), den |-> 2], ScaledTime(p, 2))
       /\ FfnTime(p, 2) = FillWork.ffn * p <=> ChipsOnly(p, 2) = ScaledTime(p, 2).num
       /\ \A rate \in {3, 7}, part \in {15, 30} :
            LET blend == Blended(p, rate, part)
            IN /\ AtLeast(blend, [num |-> Min({p, rate}), den |-> 1])
               /\ AtLeast([num |-> Max({p, rate}), den |-> 1], blend)
       /\ StepTime(p, TRUE) <= StepTime(p, FALSE)
       /\ StepTime(p, TRUE) = StepTime(p, FALSE) <=> p <= WindowTokens
       /\ \A windowed \in BOOLEAN :
            Bottleneck(p, windowed) \in {"HBM(KV)", "HBM(WT)", "HBM"} =>
              StepTime(p, windowed) = StepRead(p, windowed)
       /\ p >= WindowTokens => Bottleneck(p, TRUE) = Bottleneck(WindowTokens, FALSE)
       /\ \A m \in SzPrompts : p < m => CyclesMatmul(32, 64, p) <= CyclesMatmul(32, 64, m)

(* Four places tell the sessions of a server, and the same; three its      *)
(* servers, of which the sheets may ask one more, where a burst is no      *)
(* whole number of sessions.  The comparison asks no more, and tells a     *)
(* lower price than the cost model; a rival that holds and gives less      *)
(* needs as many.  The scenarios are cheaper than the calculator, and what *)
(* is shown as CAPEX is less than a quarter of it.  A batch at the rate    *)
(* asked is no larger than the sessions that are promised it, which get    *)
(* less: the pipeline has to fill.  A larger batch gives no fewer tokens,  *)
(* and each of its requests waits longer for the next.                     *)
SheetsAgree ==
  question.kind = "traffic" /\ Min({SessionsMemory(question.context),
                                    SessionsCompute(question.target)}) > 0 =>
    LET q == question
        size == SizeByTraffic(q)
        told == Concurrency(q.context, q.target)
    IN /\ SheetSessions(q.context, q.target) = [sessions |-> told.sessions, bound |-> told.bound]
       /\ NomogramSessions(q.context, q.target) = told.sessions
       /\ Calculator(q).servers = Scenario(q).servers
       /\ Calculator(q).servers \in size.servers .. size.servers + 1
       /\ (q.demand * q.burst) % 10 = 0 => Calculator(q).servers = size.servers
       /\ Calculator(q).spare >= size.headroom
       /\ Ours(q).servers <= size.servers /\ Ours(q).cost <= FleetCapex(size.servers)
       /\ \A rival \in Rivals :
            rival.sessions <= size.each /\ rival.tps <= ServerTps =>
              Theirs(q, rival).servers >= Ours(q).servers
       /\ Scenario(q).tco < Calculator(q).tco
       /\ PrintedTraffic(size.servers).racks = CostRacks(size.servers)
       /\ 4 * PrintedTraffic(size.servers).capex < 1000 * size.servers
       /\ SumFunction(ServerParts) <= 1000
       /\ ReportedHardware - SumFunction(ServerParts) >= ServerParts[1]
       /\ \A b \in Demands : MeetsRate(b, q.target) => b <= SessionsCompute(q.target)
       /\ \A b \in Demands :
            /\ MeetsRate(b, q.target) <=> AtLeast(BatchTps(b), [num |-> b * q.target, den |-> 1])
            /\ \A c \in Demands : b < c => AtLeast(BatchTps(c), BatchTps(b)) /\ Tpot(b) < Tpot(c)
       /\ FillDepth > 0 => ~MeetsRate(SessionsCompute(q.target), q.target)

(* Two of a platform give tokens at the same cost and energy as one, and   *)
(* half the index: it falls with size.  One that gives no more tokens, and *)
(* those at no more cost or energy, ranks no lower.  A faster clock gives  *)
(* no fewer tokens.  The verdicts on frequencies are those of the waits.   *)
PlatformsRanked ==
  question.kind = "platform" =>
    LET p == question.platform
        Twice(v) == 2 * v
        two == [f \in DOMAIN p |-> Twice(p[f])]
        Same(a, b) == AtLeast(a, b) /\ AtLeast(b, a)
    IN \A part \in {15, 30} :
         /\ Same(CostPerToken(two, part), CostPerToken(p, part))
         /\ Same(EnergyPerToken(two, part), EnergyPerToken(p, part))
         /\ Same([num |-> 2 * EfficiencyIndex(two, part).num, den |-> EfficiencyIndex(two, part).den],
                 EfficiencyIndex(p, part))
         /\ \A o \in Platforms :
              AtLeast(BlendOf(o, part), BlendOf(p, part))
                /\ AtLeast(CostPerToken(o, part), CostPerToken(p, part))
                /\ AtLeast(EnergyPerToken(o, part), EnergyPerToken(p, part))
              => RanksNoLower(p, o, part)
         /\ AtLeast(BlendOf(FasterClock(p), part), BlendOf(p, part))
         /\ SramUsed <= 325
         /\ \A freq \in {450, 600, 800, 1000} :
              Verdict(freq) = CASE StallCycles(freq, 100) <= 60 -> "YES"
                                [] StallCycles(freq, 100) \in 61 .. 80 -> "MARGINAL"
                                [] OTHER -> "NO-SRAM"

(* Either card keeps every expert, but for the few that do not divide, and *)
(* what it says fits does: one layer of them, not every layer, though a    *)
(* chip that keeps them all is said to serve the model alone.  A chip that *)
(* shares them has more room for tokens; its reads are told no higher than *)
(* they are, six of four chips; the batch alone has to be five for reads   *)
(* no more often.                                                          *)
CardsTold ==
  question.kind = "fleet" =>
    LET batch == question.servers
        own == CapacityCheck(TRUE)
        shared == CapacityCheck(FALSE)
    IN /\ \A alone \in BOOLEAN : ModelExperts - CardCoverage(alone) \in 0 .. 3
       /\ own.sramOk /\ own.hbmOk /\ shared.hbmOk /\ own.used * ModelLayers > 32 * 1024
       /\ shared.used * 4 <= own.used /\ shared.tokens > own.tokens
       /\ AtLeast([num |-> 6, den |-> 4], HitReads(FALSE, batch))
       /\ AtLeast(HitReads(FALSE, batch), HitReads(TRUE, batch)) <=> batch >= 5

(* What is sized carries what it was sized for.                            *)
SizesHold ==
  /\ TrafficCarried /\ SlaKept /\ FleetsHeld /\ PartsNotFaster /\ PrefillScales
  /\ SheetsAgree /\ PlatformsRanked /\ CardsTold

=============================================================================

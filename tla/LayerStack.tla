------------------------------- MODULE LayerStack -------------------------------
(***************************************************************************)
(* The second serving stack below its scheduler (scripts/architecture):    *)
(* the nine stages a layer goes through on a card (fpga_layer/pipeline.py, *)
(* stages/, phys/), a group of cards that share a layer (tp_group.py), the *)
(* runner that has a card execute every layer (model_runner.py,            *)
(* runtime.py), and the manager of KV blocks (vllm_layer/kv_cache.py).     *)
(* Times are in a unit of their own, the links' rates one byte per unit.   *)
(***************************************************************************)
EXTENDS Integers, Sequences, SequencesExt, FiniteSets, FiniteSetsExt, Functions

CONSTANTS
  StExperts,      (* the experts of a layer                                  *)
  StTopK,         (* MODEL_TOP_K                                             *)
  StTables,       (* for each group, the experts each card has loaded        *)
  StBatches,      (* batch_size of a layer                                   *)
  StContexts,     (* seq_len of a layer                                      *)
  StLayers,       (* bound: layers executed                                  *)
  StCost,         (* the times of the stages, for one of a batch             *)
  StBlock,        (* SW_BLOCK_SIZE                                           *)
  StBlocks        (* bound: KV blocks allocated                              *)

ASSUME LayerStackAssumption ==
  /\ {StTopK, StLayers, StBlock, StBlocks} \subseteq Nat \ {0}
  /\ StTopK <= Cardinality(StExperts) /\ StBatches \subseteq Nat \ {0} /\ StContexts \subseteq Nat

VARIABLES
  tpg,            (* a TPGroup: its cards' counters, its last execution      *)
  kvm             (* a KVManager, and the table of one sequence              *)

stackVars == <<tpg, kvm>>

-----------------------------------------------------------------------------
NewCard == [reads |-> 0, hbmHits |-> 0, hbmMisses |-> 0, p2p |-> 0, dma |-> 0,
            layers |-> 0, allHit |-> 0]

NoRecord == [batch |-> 0, ids |-> <<>>, cards |-> <<>>]

StackInit ==
  /\ \E table \in StTables :
       tpg = [table |-> table, cards |-> [c \in DOMAIN table |-> NewCard], last |-> NoRecord,
             ether |-> [allreduce |-> 0, p2p |-> 0], layers |-> 0,
             drawn |-> [c \in DOMAIN table |-> [hits |-> 0, misses |-> 0]]]
  /\ kvm = [blocks |-> <<>>, table |-> <<>>, ins |-> 0, outs |-> 0]

(* PCIeDMA.latency, EthernetMAC._transfer.                                 *)
Dma(bytes) == IF bytes = 0 THEN 0 ELSE StCost.start + bytes
Transfer(bytes, hops) == hops * StCost.hop + bytes
Activation(batch) == batch * StCost.hidden

(* The stages.  Only the scores grow with the square of the context; a     *)
(* stage that is quicker than the clock's tick takes the tick.             *)
PcieRxTime(batch) == Dma(Activation(batch))
MlaQkTime(batch) == batch * StCost.qk
MlaAttentionTime(batch, context) == batch * (StCost.up + context * context * StCost.score)
SharedExpertTime(batch) == batch * StCost.shared
RouterTime(batch) == Max({batch * StCost.router, StCost.least})
RoutedExpertTime(batch, hits) == hits * batch * StCost.expert
AggregateTime(batch, chosen) == Max({(chosen + 2) * batch, StCost.least})
PcieTxTime(batch) == Dma(Activation(batch))

(* HBMController.read, EthernetMAC.p2p_fetch: experts of the card one      *)
(* after another, the results of others' too.                              *)
ReadTime(hits) == hits * StCost.read
ResultsTime(batch, misses) == misses * Transfer(Activation(batch), 2)

(* Both at once.                                                           *)
ExpertFetchTime(batch, hits, misses) == Max({ReadTime(hits), ResultsTime(batch, misses)})

StageTimes(batch, context, hits, misses) ==
  [pcie_rx |-> PcieRxTime(batch),
   mla_qk |-> MlaQkTime(batch),
   mla_attention |-> MlaAttentionTime(batch, context),
   shared_expert |-> SharedExpertTime(batch),
   router |-> RouterTime(batch),
   expert_fetch |-> ExpertFetchTime(batch, hits, misses),
   routed_expert |-> RoutedExpertTime(batch, hits),
   aggregate |-> AggregateTime(batch, hits + misses),
   pcie_tx |-> PcieTxTime(batch)]

DspStages ==
  {"mla_qk", "mla_attention", "shared_expert", "router", "routed_expert", "aggregate"}

(* Pipeline.execute_layer, for every draw.                                 *)
LayerRecords == [batch \in StBatches, context \in StContexts, hits \in 0 .. StTopK |->
  LET misses == StTopK - hits
      beats == StageTimes(batch, context, hits, misses)
  IN [beats |-> beats, hits |-> hits, misses |-> misses,
      dsp |-> FoldFunctionOnSet(+, 0, beats, DspStages),
      hbm |-> ReadTime(hits), eth |-> ResultsTime(batch, misses),
      pcie |-> beats["pcie_rx"] + beats["pcie_tx"],
      total |-> FoldFunction(+, 0, beats)]]

(* ModelRunner.execute_layer: a layer that reads nothing is one that hit.  *)
HbmHit(rec) == rec.hbm < StCost.short

(* The counters of a card: what is fetched is counted when its time is     *)
(* asked for and again when it is done, a miss by the memory never.        *)
Counted(card, rec) ==
  [card EXCEPT !.reads = @ + 2 * rec.hits, !.hbmHits = @ + rec.hits,
               !.p2p = @ + 2 * rec.misses, !.dma = @ + 2, !.layers = @ + 1,
               !.allHit = @ + IF HbmHit(rec) THEN 1 ELSE 0]

(* RouterStage: a card with experts draws one after another, perhaps the   *)
(* same again; one without any draws different ones.  Of the draw only the *)
(* hits matter.                                                            *)
DrawsOf(loaded) ==
  IF loaded = {} THEN {0}
  ELSE {Cardinality({i \in 1 .. StTopK : q[i] \in loaded}) : q \in [1 .. StTopK -> StExperts]}

(* TPGroup.__init__, execute_layer: the card that an expert of the routing *)
(* is for; the last that has it, the first when none has.                  *)
RoutedTo(table, e) == Max({c \in DOMAIN table : e \in table[c]} \union {1})

Held(table) == UNION Range(table)

AllReduce(bytes, size) ==
  IF size <= 1 THEN 0 ELSE 2 * (size - 1) * Transfer(0, 1) + 2 * bytes

(* Each card draws for itself; the hits and misses in its record are then  *)
(* replaced by those of the routing it was given.                          *)
GroupRecord(batch, context, ids, draws) ==
  LET table == tpg.table
      drawn == [c \in DOMAIN table |-> LayerRecords[batch, context, draws[c]]]
      mine == [c \in DOMAIN table |-> SelectSeq(ids, LAMBDA e : RoutedTo(table, e) = c)]
      away == Len(SelectSeq(ids, LAMBDA e : e \notin Held(table)))
      slowest == Max({drawn[c].total : c \in DOMAIN table})
      reduce == AllReduce(Activation(batch), Len(table))
      cross == IF away = 0 THEN 0 ELSE Transfer(away * Activation(batch), 2)
      hitsOf(c) == Len(SelectSeq(mine[c], LAMBDA e : e \in table[c]))
  IN [batch |-> batch, ids |-> ids, drawn |-> drawn,
      cards |-> [c \in DOMAIN table |-> [drawn[c] EXCEPT !.hits = hitsOf(c),
                                                       !.misses = Len(mine[c]) - hitsOf(c)]],
      beats |-> drawn[SelectInSeq(drawn, LAMBDA r : r.total = slowest)].beats,
      reduce |-> reduce, cross |-> cross, total |-> slowest + reduce + cross]

(* The routing of a layer, or none beyond those that were given.           *)
RoutingsOf == {<<>>} \union {q \in [1 .. StTopK -> StExperts] : IsInjective(q)}

ExecuteLayer == \E batch \in StBatches, context \in StContexts, ids \in RoutingsOf :
  \E draws \in {d \in [DOMAIN tpg.table -> 0 .. StTopK] :
                  \A c \in DOMAIN d : d[c] \in DrawsOf(tpg.table[c])} :
    LET rec == GroupRecord(batch, context, ids, draws)
    IN /\ tpg.layers < StLayers
       /\ tpg' = [tpg EXCEPT
            !.last = rec, !.layers = @ + 1,
            !.cards = [c \in DOMAIN @ |-> Counted(@[c], rec.drawn[c])],
            !.drawn = [c \in DOMAIN @ |-> [hits |-> @[c].hits + draws[c],
                                           misses |-> @[c].misses + StTopK - draws[c]]],
            !.ether = [allreduce |-> @.allreduce + IF Len(tpg.table) > 1 THEN 1 ELSE 0,
                       p2p |-> @.p2p + IF rec.cross > 0 THEN 1 ELSE 0]]
       /\ UNCHANGED kvm

(* Pipeline.reset, TPGroup.reset: everything but what is loaded.           *)
ResetGroup ==
  /\ tpg.layers > 0 /\ UNCHANGED kvm
  /\ tpg' = [tpg EXCEPT !.cards = [c \in DOMAIN @ |-> NewCard], !.layers = 0, !.last = NoRecord,
                       !.ether = [allreduce |-> 0, p2p |-> 0],
                       !.drawn = [c \in DOMAIN @ |-> [hits |-> 0, misses |-> 0]]]

-----------------------------------------------------------------------------
(* KVManager.  Nothing in it fills a block: its owner may.                 *)
AllocateBlock ==
  /\ Len(kvm.blocks) < StBlocks /\ UNCHANGED tpg
  /\ kvm' = [kvm EXCEPT !.blocks = Append(@, [tokens |-> 0, at |-> "fpga_hbm"]),
                        !.table = Append(@, Len(kvm.blocks))]

FillBlock == \E b \in DOMAIN kvm.blocks :
  /\ kvm.blocks[b].tokens < StBlock /\ UNCHANGED tpg
  /\ kvm' = [kvm EXCEPT !.blocks[b].tokens = @ + 1]

(* Of a list of blocks: nothing, when those at from hold nothing, or all   *)
(* of them wherever they are.                                              *)
Swapped(list, from, to) ==
  IF \A b \in list : kvm.blocks[b].at = from => kvm.blocks[b].tokens = 0 THEN kvm.blocks
  ELSE [b \in DOMAIN kvm.blocks |->
          IF b \in list THEN [kvm.blocks[b] EXCEPT !.at = to] ELSE kvm.blocks[b]]

SwapIn == \E list \in SUBSET DOMAIN kvm.blocks :
  LET moved == Swapped(list, "cpu_ram", "fpga_hbm")
  IN /\ UNCHANGED tpg /\ moved # kvm.blocks
     /\ kvm' = [kvm EXCEPT !.blocks = moved, !.ins = Min({@ + 1, 1})]

SwapOut == \E list \in SUBSET DOMAIN kvm.blocks :
  LET moved == Swapped(list, "fpga_hbm", "cpu_ram")
  IN /\ UNCHANGED tpg /\ moved # kvm.blocks
     /\ kvm' = [kvm EXCEPT !.blocks = moved, !.outs = Min({@ + 1, 1})]

SlidingWindowBlocks(window) ==
  LET n == (window + StBlock - 1) \div StBlock
      ids == kvm.table
  IN IF Len(ids) > n THEN SubSeq(ids, Len(ids) - n + 1, Len(ids)) ELSE ids

GroupNext == ExecuteLayer \/ ResetGroup

KvmNext == AllocateBlock \/ FillBlock \/ SwapIn \/ SwapOut

StackSpec == StackInit /\ [][GroupNext \/ KvmNext]_stackVars

-----------------------------------------------------------------------------
(* A routing is for cards of the group: every expert that one of them has  *)
(* is a hit of exactly one, also one that two have; the others are misses  *)
(* of the first, and only they are fetched from other groups.              *)
RoutingDispatched == tpg.last # NoRecord =>
  LET rec == tpg.last
      held == {i \in DOMAIN rec.ids : rec.ids[i] \in Held(tpg.table)}
  IN /\ FoldLeft(LAMBDA n, r : n + r.hits, 0, rec.cards) = Cardinality(held)
     /\ FoldLeft(LAMBDA n, r : n + r.misses, 0, rec.cards) = Len(rec.ids) - Cardinality(held)
     /\ \A c \in DOMAIN rec.cards : rec.cards[c].misses > 0 => c = 1
     /\ rec.cross > 0 <=> rec.cards[1].misses > 0

(* A card's time is that of its computing, its link to the host and the    *)
(* longer of its two fetches, and no other; a layer takes as long as its   *)
(* slowest card, and that card's stages are the ones reported.             *)
LayerTimesAdd == tpg.last # NoRecord =>
  LET rec == tpg.last
  IN /\ \A c \in DOMAIN rec.drawn :
          LET r == rec.drawn[c]
          IN /\ r.total = r.dsp + r.pcie + Max({r.hbm, r.eth})
             /\ r.total <= rec.total /\ r.hits + r.misses = StTopK
     /\ FoldFunction(+, 0, rec.beats) + rec.reduce + rec.cross = rec.total

(* The totals of a card: each expert read, and each result fetched, twice; *)
(* never a miss of the memory, so that its hit rate is 1 whatever was      *)
(* drawn; a transfer in and one out for a layer.  The layers the runner    *)
(* reports as hits are those in which the card had none of the experts, so *)
(* that with those it had at least one expert for they are all of them.    *)
CountersTell == \A c \in DOMAIN tpg.cards :
  LET card == tpg.cards[c]
      drawn == tpg.drawn[c]
  IN /\ card.reads = 2 * drawn.hits /\ card.hbmHits = drawn.hits /\ card.hbmMisses = 0
     /\ card.p2p = 2 * drawn.misses /\ card.dma = 2 * card.layers
     /\ drawn.hits + drawn.misses = StTopK * tpg.layers
     /\ card.layers - card.allHit <= drawn.hits
     /\ StTopK * (card.layers - card.allHit) >= drawn.hits

(* Blocks are where the swaps left them: without tokens none has ever      *)
(* moved.  The window's blocks are the last of the sequence's; they hold   *)
(* its last tokens when all its blocks are full, and may be short of them  *)
(* by a block at most when the last is not.                                *)
BlocksStay ==
  /\ (\A b \in DOMAIN kvm.blocks : kvm.blocks[b].tokens = 0) =>
       kvm.ins = 0 /\ kvm.outs = 0 /\ \A b \in DOMAIN kvm.blocks : kvm.blocks[b].at = "fpga_hbm"
  /\ kvm.outs = 0 => kvm.ins = 0
  /\ \A window \in 1 .. StBlock * StBlocks :
       LET ids == SlidingWindowBlocks(window)
           held == FoldLeft(LAMBDA n, id : n + kvm.blocks[id + 1].tokens, 0, ids)
           all == FoldLeft(LAMBDA n, b : n + b.tokens, 0, kvm.blocks)
           inOrder == \A b \in DOMAIN kvm.blocks :
                        b < Len(kvm.blocks) => kvm.blocks[b].tokens = StBlock
       IN inOrder => /\ held >= Min({window, all}) - StBlock
                     /\ all = StBlock * Len(kvm.blocks) => held >= Min({window, all})

StackRight == RoutingDispatched /\ LayerTimesAdd /\ CountersTell /\ BlocksStay

=============================================================================

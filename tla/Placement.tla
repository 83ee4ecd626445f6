------------------------------- MODULE Placement -------------------------------
(***************************************************************************)
(* Which chip holds what.  The cluster (fpga_arch/cluster.py) puts layers  *)
(* on its chips, then each expert on as many chips as its popularity asks  *)
(* for (expert_popularity.py), over shuffled cards; dispatch sends what a  *)
(* token selects to the closest replica (interconnect.py).  The layout     *)
(* compiler (vllm_serve/weight_layout.py) cuts the chips into pipelines of *)
(* which each holds everything.  A chip hands out KV blocks (chip.py).     *)
(* Shares of popularity are percents, sizes megabytes.                     *)
(***************************************************************************)
EXTENDS Integers, Sequences, FiniteSets, SequencesExt, FiniteSetsExt, Functions

CONSTANTS
  Cards, CardChips,       \* NUM_CARDS, CHIPS_PER_CARD
  PlLayers, PlExperts,    \* NUM_LAYERS, NUM_EXPERTS
  ShortChips,             \* chips with one layer
  ShareTables,            \* popularity, most popular first, of every expert
  HotReplicas,            \* replicas of a hot expert
  ChipBudget,             \* experts that fit in the budget of a chip
  Clones,                 \* numbers of pipelines a layout is made with
  LayerMb, ExpertMb, ReserveMb, HbmMb, \* sizes of regions, and of the memory
  BlockCap,               \* KV blocks that fit in a chip's memory
  MaxAllocs               \* bound: blocks asked for over a behaviour

VARIABLES fleet, layout, blocks

ASSUME PlacementAssumption ==
  /\ {Cards, CardChips, PlLayers, PlExperts, HotReplicas} \subseteq Nat \ {0}
  /\ {ChipBudget, LayerMb, ExpertMb, ReserveMb, HbmMb, BlockCap, MaxAllocs} \subseteq Nat
  /\ Clones \subseteq Nat \ {0}
  /\ PlLayers = 2 * Cards * CardChips - Cardinality(ShortChips)
  /\ \A shares \in ShareTables : Len(shares) = PlExperts

PlNumChips == Cards * CardChips
PlChips == 0 .. PlNumChips - 1
PlExpertIds == 0 .. PlExperts - 1
CardOf(home) == home \div CardChips
ChipsOf(card) == {c \in PlChips : CardOf(c) = card}

-----------------------------------------------------------------------------
(* The ring of four: the next hop and the number of hops, the shorter way, *)
(* clockwise when both are as long.                                        *)
RingRoute(src, dst) ==
  LET clockwise == (dst - src) % 4
      counter == (src - dst) % 4
  IN IF clockwise <= counter THEN [next |-> (src + 1) % 4, hops |-> clockwise]
     ELSE [next |-> (src - 1) % 4, hops |-> counter]

(* Times in 1/128 ns: a transfer on the ring is cut into frames of at most *)
(* 4088 bytes with 24 more each, at 128 Gb/s, and 50 ns for each hop; one  *)
(* between cards takes the 64 Gb/s of the bus, and 400 ns at least.        *)
RingTime(src, dst, bytes) ==
  LET frames == Max({1, (bytes + 4087) \div 4088})
  IN (bytes + 24 * frames) * 8 + 50 * 128 * RingRoute(src, dst).hops

PcieTime(bytes) == Max({bytes * 8 * 2, 400 * 128})

TransferTime(src, dst, bytes) ==
  IF src = dst THEN 0
  ELSE IF CardOf(src) = CardOf(dst)
    THEN RingTime(src % CardChips, dst % CardChips, bytes)
    ELSE PcieTime(bytes)

(* 17 times the nanoseconds the keys and values of some tokens take from a *)
(* prefill chip to a decode chip: twice over a ring at 108.8, once over a  *)
(* bus at 54.4.                                                            *)
KVTransferTime(tokens, bytesPerToken) ==
  17 * (2 * 50 + 400) + tokens * bytesPerToken * 5

-----------------------------------------------------------------------------
(* The plan of replicas.  ranking orders the experts, most popular first;  *)
(* the hot tier ends where the shares reach 35 %, the warm one at 65 %.    *)
TierEnd(shares, mass) ==
  Min({i \in 1 .. PlExperts : SumFunctionOnSet(shares, 1 .. i) >= mass})

ReplicaPlan(ranking, shares, chips) ==
  LET hot == TierEnd(shares, 35)
      warm == TierEnd(shares, 65)
      raw == [e \in PlExpertIds |->
                LET rank == CHOOSE i \in 1 .. PlExperts : ranking[i] = e
                IN IF rank <= hot THEN Min({HotReplicas, chips})
                   ELSE IF rank <= warm THEN 2 ELSE 1]
      total == SumFunction(raw)
  IN IF total <= ChipBudget * chips THEN raw
     ELSE [e \in PlExpertIds |-> Max({1, (raw[e] * ChipBudget * chips) \div total})]

Rankings == {q \in [1 .. PlExperts -> PlExpertIds] : IsInjective(q)}
Plans(chips) == {ReplicaPlan(q, s, chips) : q \in Rankings, s \in ShareTables}

-----------------------------------------------------------------------------
(* The cluster: two layers a chip, one on a few at the ends of cards.      *)
ClusterLayers(home) ==
  LET Count == [c \in PlChips |-> IF c \in ShortChips THEN 1 ELSE 2]
      first == SumFunctionOnSet(Count, 0 .. home - 1)
  IN first .. first + Count[home] - 1

ChipForLayer(l) == CHOOSE c \in PlChips : l \in ClusterLayers(c)

(* Without replication experts are laid out in ranges.                     *)
UniformHosts == [e \in PlExpertIds |-> <<e \div (PlExperts \div PlNumChips)>>]

HostedBy(hosts, home) == {e \in PlExpertIds : \E i \in DOMAIN hosts[e] : hosts[e][i] = home}
LoadOf(hosts, home) == Cardinality(HostedBy(hosts, home))

(* A stable sort of chips by load.                                         *)
ByLoad(chips, hosts) ==
  LET places == SetToSortSeq(DOMAIN chips,
                  LAMBDA i, j : \/ LoadOf(hosts, chips[i]) < LoadOf(hosts, chips[j])
                                \/ LoadOf(hosts, chips[i]) = LoadOf(hosts, chips[j]) /\ i < j)
  IN [i \in DOMAIN chips |-> chips[places[i]]]

FleetInit ==
  fleet = [phase |-> "new", plan |-> <<>>, next |-> 0, hosts |-> UniformHosts,
           order |-> [k \in 0 .. Cards - 1 |-> SetToSortSeq(ChipsOf(k), <)]]

(* expert_replication = 'none': the ranges stay.                           *)
AssignExpertsUniform ==
  /\ fleet.phase = "new"
  /\ fleet' = [fleet EXCEPT !.phase = "ready"]

PlanReplicas ==
  /\ fleet.phase = "new"
  /\ \E plan \in Plans(PlNumChips) :
       fleet' = [fleet EXCEPT !.phase = "placing", !.plan = plan,
                              !.hosts = [e \in PlExpertIds |-> <<>>]]

(* One expert goes to the least loaded chip of each card drawn.  The sort  *)
(* is in place: the order it leaves decides the next tie.                  *)
OnCards(f, cards) ==
  FoldLeft(LAMBDA g, card :
             LET sorted == ByLoad(g.order[card], g.hosts)
             IN [g EXCEPT !.order[card] = sorted, !.hosts[f.next] = Append(@, sorted[1])],
           f, cards)

(* Replicas beyond one a card go to the least loaded chips, and are lost   *)
(* where the expert already is.                                            *)
ExtraReplicas(f, n) ==
  FoldLeft(LAMBDA g, i :
             LET least == ByLoad(SetToSortSeq(PlChips, <), g.hosts)[1]
             IN IF Contains(g.hosts[f.next], least) THEN g
                ELSE [g EXCEPT !.hosts[f.next] = Append(@, least)],
           f, [i \in 1 .. n |-> i])

PlaceExpert ==
  /\ fleet.phase = "placing"
  /\ LET n == fleet.plan[fleet.next]
         drawn == {q \in [1 .. Min({n, Cards}) -> 0 .. Cards - 1] : IsInjective(q)}
     IN \E cards \in drawn :
          LET placed == ExtraReplicas(OnCards(fleet, cards), Max({0, n - Cards}))
          IN fleet' = [placed EXCEPT
                         !.next = @ + 1,
                         !.phase = IF fleet.next + 1 = PlExperts THEN "ready" ELSE @]

(* The replica a chip sends to: its only one, the first on its card, or    *)
(* the first of those whose card number is nearest.                        *)
ClosestReplica(src, e) ==
  LET replicas == fleet.hosts[e]
      near == SelectSeq(replicas, LAMBDA c : CardOf(c) = CardOf(src))
      Gap(i) == IF CardOf(replicas[i]) > CardOf(src) THEN CardOf(replicas[i]) - CardOf(src)
                ELSE CardOf(src) - CardOf(replicas[i])
      nearest == {i \in DOMAIN replicas : \A j \in DOMAIN replicas : Gap(i) <= Gap(j)}
  IN IF Len(replicas) = 1 THEN replicas[1]
     ELSE IF near # <<>> THEN near[1] ELSE replicas[Min(nearest)]

(* dispatch_experts: the selection, by the chip that computes it.          *)
Dispatched(src, selection) ==
  [c \in {ClosestReplica(src, e) : e \in selection} |->
     {e \in selection : ClosestReplica(src, e) = c}]

LocalExperts(src, selection) == selection \intersect HostedBy(fleet.hosts, src)

-----------------------------------------------------------------------------
(* The layout compiler.                                                    *)
PipelineChips(p, clones) ==
  LET size == PlNumChips \div clones IN p * size .. (p + 1) * size - 1

LayoutLayers(home, clones) ==
  LET size == PlNumChips \div clones
      base == PlLayers \div size
      extra == PlLayers % size
      local == home % size
      first == local * base + Min({local, extra})
  IN first .. first + base - 1 + (IF local < extra THEN 1 ELSE 0)

LayoutInit ==
  layout = [phase |-> "new", clones |-> 1, plan |-> <<>>, next |-> 0, pipe |-> 0,
            hosts |-> [e \in PlExpertIds |-> <<>>]]

(* compile() with a number of clones, with or without replication.         *)
StartLayout ==
  /\ layout.phase = "new"
  /\ \E clones \in Clones :
       \E plan \in Plans(PlNumChips \div clones) \union {<<>>} :
         layout' = [layout EXCEPT !.phase = "placing", !.clones = clones, !.plan = plan]

(* An expert of a pipeline: on its chip by number, or on the least loaded  *)
(* chips of the pipeline.  Pipelines follow each other.                    *)
LayoutExpert ==
  /\ layout.phase = "placing"
  /\ LET e == layout.next
         chips == SetToSortSeq(PipelineChips(layout.pipe, layout.clones), <)
         chosen == IF layout.plan = <<>> THEN <<chips[(e % Len(chips)) + 1]>>
                   ELSE SubSeq(ByLoad(chips, layout.hosts), 1,
                               Min({layout.plan[e], Len(chips)}))
         last == e + 1 = PlExperts
     IN layout' = [layout EXCEPT
                     !.hosts[e] = @ \o chosen,
                     !.next = IF last THEN 0 ELSE e + 1,
                     !.pipe = IF last THEN @ + 1 ELSE @,
                     !.phase = IF last /\ layout.pipe + 1 = layout.clones
                               THEN "placed" ELSE @]

(* The regions of a chip follow each other: its layers', its experts', and *)
(* the room kept for the running of it.                                    *)
Regions(home) ==
  LET layers == LayoutLayers(home, layout.clones)
      experts == SetToSortSeq(HostedBy(layout.hosts, home), <)
      sized == [i \in 1 .. Cardinality(layers) |-> LayerMb]
               \o [i \in DOMAIN experts |-> ExpertMb] \o <<ReserveMb>>
  IN [i \in DOMAIN sized |->
        [start |-> SumFunctionOnSet(sized, 1 .. i - 1), size |-> sized[i]]]

UsedMb(home) ==
  LET r == Regions(home) IN SumFunction([i \in DOMAIN r |-> r[i].size])

(* A layout in which a chip overflows is refused.                          *)
ValidateLayout ==
  /\ layout.phase = "placed"
  /\ layout' = [layout EXCEPT
       !.phase = IF \E c \in PlChips : UsedMb(c) > HbmMb THEN "refused" ELSE "ready"]

-----------------------------------------------------------------------------
(* The KV blocks of a chip: the table, the order of use, the memory they   *)
(* are said to take, and what callers hold.  A block's number is the size  *)
(* of the table.  No block is ever unused, so eviction finds none and an   *)
(* allocation that does not fit raises, keeping what it took.              *)
BlocksInit ==
  blocks = [table |-> {}, lru |-> <<>>, used |-> 0, held |-> <<>>, asked |-> 0]

Drop(q, b) == LET i == Min({j \in DOMAIN q : q[j] = b}) IN RemoveAt(q, i)

AllocateKvBlocks ==
  \E n \in 1 .. 2 :
    /\ blocks.asked + n <= MaxAllocs
    /\ LET got == Min({n, BlockCap - blocks.used})
           taken == FoldLeft(
             LAMBDA b, i :
               LET id == Cardinality(b.table)
               IN [b EXCEPT !.table = @ \union {id}, !.lru = Append(@, id),
                            !.used = @ + 1, !.held = Append(@, id)],
             blocks, [i \in 1 .. got |-> i])
       IN blocks' = [taken EXCEPT !.asked = @ + n,
                                  !.held = IF got < n THEN blocks.held ELSE @]

(* A caller gives back a block: what is not in the table is passed over.   *)
(* With an empty table the call fails before it looks.                     *)
FreeKvBlock ==
  /\ blocks.table # {}
  /\ \E i \in DOMAIN blocks.held :
       LET id == blocks.held[i]
           returned == [blocks EXCEPT !.held = RemoveAt(@, i)]
       IN blocks' = IF id \in blocks.table
                    THEN [returned EXCEPT !.table = @ \ {id}, !.lru = Drop(@, id),
                                          !.used = Max({0, @ - 1})]
                    ELSE returned

AccessKvBlock ==
  \E i \in DOMAIN blocks.held :
    /\ Contains(blocks.lru, blocks.held[i])
    /\ blocks' = [blocks EXCEPT !.lru = Append(Drop(@, blocks.held[i]), blocks.held[i])]

-----------------------------------------------------------------------------
PlaceInit == FleetInit /\ LayoutInit /\ BlocksInit

FleetNext == AssignExpertsUniform \/ PlanReplicas \/ PlaceExpert
LayoutNext == StartLayout \/ LayoutExpert \/ ValidateLayout
BlocksNext == AllocateKvBlocks \/ FreeKvBlock \/ AccessKvBlock

-----------------------------------------------------------------------------
(* From each chip of a ring the next hops lead to each other in the number *)
(* of hops the route tells, at most two.                                   *)
RoutesLead ==
  \A src, dst \in 0 .. 3 :
    src # dst =>
      LET one == RingRoute(src, dst)
      IN one.hops \in 1 .. 2
         /\ IF one.hops = 1 THEN one.next = dst
            ELSE one.next # dst /\ RingRoute(one.next, dst).hops = 1

(* A plan keeps to the budget of the chips but for experts of one replica. *)
PlanInBudget ==
  fleet.plan # <<>> =>
    SumFunction(fleet.plan) <= ChipBudget * PlNumChips
                               + Cardinality({e \in PlExpertIds : fleet.plan[e] = 1})

(* In a cluster that is ready layers follow the chips, each expert is on   *)
(* distinct chips, as many as planned and one a card while cards last; no  *)
(* chip of a card has two experts more than another.                       *)
FleetPlaced ==
  fleet.phase = "ready" =>
    /\ \A l \in 0 .. PlLayers - 1 :
         /\ Cardinality({c \in PlChips : l \in ClusterLayers(c)}) = 1
         /\ l > 0 => ChipForLayer(l) - ChipForLayer(l - 1) \in {0, 1}
    /\ \A e \in PlExpertIds : Len(fleet.hosts[e]) > 0 /\ IsInjective(fleet.hosts[e])
    /\ fleet.plan # <<>> =>
         /\ \A e \in PlExpertIds :
              /\ Len(fleet.hosts[e]) \in Min({fleet.plan[e], Cards}) .. fleet.plan[e]
              /\ \A i, j \in 1 .. Min({fleet.plan[e], Cards}) :
                   CardOf(fleet.hosts[e][i]) = CardOf(fleet.hosts[e][j]) => i = j
         /\ \A c, d \in PlChips :
              CardOf(c) = CardOf(d) => LoadOf(fleet.hosts, c) <= LoadOf(fleet.hosts, d) + 1

(* What a token selects leaves its card only for experts the card has not; *)
(* an expert the chip has is computed there, and no replica is quicker to  *)
(* reach than the one chosen: unless an expert has two replicas on a card. *)
DispatchNear ==
  fleet.phase = "ready" =>
    \A src \in PlChips, e \in PlExpertIds :
      LET host == ClosestReplica(src, e)
          hosts == {c \in PlChips : e \in HostedBy(fleet.hosts, c)}
      IN /\ host \in hosts
         /\ CardOf(host) = CardOf(src) <=> \E c \in hosts : CardOf(c) = CardOf(src)
         /\ (\A c, d \in hosts : CardOf(c) = CardOf(d) => c = d) =>
              /\ e \in LocalExperts(src, {e}) <=> Dispatched(src, {e}) = (src :> {e})
              /\ \A bytes \in {1, 4088, 4089, 7168}, c \in hosts :
                   TransferTime(src, host, bytes) <= TransferTime(src, c, bytes)

(* A layout that was accepted holds every layer and every expert in each   *)
(* pipeline, layers in order, experts on distinct chips as many as planned *)
(* and evenly; the regions of a chip end within its memory.                *)
LayoutPlaced ==
  layout.phase = "ready" =>
    \A p \in 0 .. layout.clones - 1 :
      LET chips == PipelineChips(p, layout.clones)
      IN /\ \A l \in 0 .. PlLayers - 1 :
              Cardinality({c \in chips : l \in LayoutLayers(c, layout.clones)}) = 1
         /\ \A c, d \in chips : c < d =>
              \A k \in LayoutLayers(c, layout.clones), l \in LayoutLayers(d, layout.clones) : k < l
         /\ \A e \in PlExpertIds :
              Cardinality({c \in chips : e \in HostedBy(layout.hosts, c)})
                = IF layout.plan = <<>> THEN 1 ELSE Min({layout.plan[e], Cardinality(chips)})
         /\ \A c, d \in chips : LoadOf(layout.hosts, c) <= LoadOf(layout.hosts, d) + 1
         /\ \A c \in chips : \A r \in Range(Regions(c)) : r.start + r.size <= HbmMb

(* The blocks of the table fit in the memory they are said to take, and it *)
(* in the chip's.                                                          *)
BlocksFit ==
  /\ Cardinality(blocks.table) <= blocks.used /\ blocks.used <= BlockCap
  /\ blocks.table \subseteq Range(blocks.lru)

(* The chips are given what they must hold, within what they can.          *)
PlacementWhole ==
  RoutesLead /\ PlanInBudget /\ FleetPlaced /\ DispatchNear /\ LayoutPlaced /\ BlocksFit

=============================================================================

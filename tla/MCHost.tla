-------------------------------- MODULE MCHost --------------------------------
(***************************************************************************)
(* What the host keeps, places and tells beside the serving loop, for TLC: *)
(* the KV cache manager, weights in memory and on chips, the models of     *)
(* time, size and cost, and the programs that test and ship.  They share   *)
(* no state; unit says which one a behaviour is of; the others stay as     *)
(* they begin.                                                             *)
(***************************************************************************)
EXTENDS KVCache, WeightPreloader, PipelineTimes, Sizing, LayerStack, Harness, TLC

VARIABLE unit

Symmetry == Permutations(Blocks)

(* One layer is in a file of its own, one in none.                         *)
MCFileOf == [l \in 0 .. 4 |-> CASE l = 2 -> "whole" [] l = 3 -> "none" [] OTHER -> "tensors"]

(* Popularity that falls, that one expert has most of, and that is even.   *)
MCShareTables == {<<40, 30, 20, 10>>, <<70, 10, 10, 10>>, <<25, 25, 25, 25>>}

MCWork == [proj |-> 2, qk |-> 1, av |-> 1, shared |-> 1, expert |-> 1, router |-> 1, norm |-> 1]

(* A CPU that is quicker than the chips, and one that is slower.           *)
MCHybridCosts == {[link |-> 1, fixed |-> 5, slow |-> 1], [link |-> 9, fixed |-> 5, slow |-> 8]}

(* Of a prompt: the weights stream as long as three tokens compute.        *)
MCFillWork ==
  [density |-> 1, qk |-> 1, av |-> 2, ffn |-> 3, cpu |-> 1, pcie |-> 2, stream |-> 9]

(* One that holds and gives less than a server of chips, one that gives    *)
(* more; a platform that prefills faster, one that decodes faster, and one *)
(* that is better at neither.                                              *)
MCRivals ==
  {[sessions |-> 1, tps |-> 20, price |-> 3000, network |-> 300],
   [sessions |-> 2, tps |-> 90, price |-> 1300, network |-> 200]}
MCPlatforms ==
  {[prefill |-> 1, decode |-> 3, power |-> 5, cost |-> 16],
   [prefill |-> 3, decode |-> 1, power |-> 10, cost |-> 20],
   [prefill |-> 1, decode |-> 1, power |-> 10, cost |-> 20]}

(* Times of the stages of a card's layer.                                  *)
MCStCost ==
  [start |-> 2, hidden |-> 3, qk |-> 1, up |-> 2, score |-> 1, shared |-> 2, router |-> 1,
   least |-> 2, read |-> 40, hop |-> 2, expert |-> 3, short |-> 10]

(* Two cards with an expert each, with one in common, one of them empty;   *)
(* a card alone.                                                           *)
MCStTables == {<<{1}, {2}>>, <<{1, 2}, {2, 3}>>, <<{}, {1}>>, <<{1}>>}

HostVars ==
  <<unit, vars, preVars, fleet, timesVars, layout, blocks, question, stackVars, harnessVars>>

(* What tells states apart: the variables of the unit, as the others stay. *)
HostView ==
  <<unit,
    CASE unit = "kv" -> vars
      [] unit \in {"preload", "cpucache"} -> preVars
      [] unit = "fleet" -> <<fleet, timesVars>>
      [] unit = "layout" -> layout [] unit = "blocks" -> blocks
      [] unit = "sizing" -> question
      [] unit \in {"group", "kvblocks"} -> stackVars
      [] unit \in {"desk", "suites", "ship"} -> harnessVars>>

(* Worlds and tables vary only in the unit that reads them.                *)
HostInit ==
  /\ unit \in {"kv", "preload", "cpucache", "fleet", "layout", "blocks", "sizing",
               "group", "kvblocks", "desk", "suites", "ship"}
  /\ HarnessInit
  /\ unit # "suites" => suites.world = GoodWorld
  /\ unit # "ship" => ship.remote = Absent
  /\ PreInit
  /\ unit # "preload" => loader.by = "user"
  /\ StackInit
  /\ unit # "group" => Len(tpg.table) = 1
  /\ Init /\ PlaceInit /\ TimesInit /\ SizeInit

(* A step is one of the unit's.                                            *)
HostNext ==
  /\ UNCHANGED unit
  /\ IF unit = "kv" THEN Next ELSE UNCHANGED vars
  /\ CASE unit = "preload" -> LoaderNext
       [] unit = "cpucache" -> CacheNext
       [] OTHER -> UNCHANGED preVars
  /\ IF unit = "fleet"
     THEN (FleetNext /\ UNCHANGED timesVars) \/ (TimesNext /\ UNCHANGED fleet)
     ELSE UNCHANGED <<fleet, timesVars>>
  /\ IF unit = "layout" THEN LayoutNext ELSE UNCHANGED layout
  /\ IF unit = "blocks" THEN BlocksNext ELSE UNCHANGED blocks
  /\ IF unit = "sizing" THEN SizeNext ELSE UNCHANGED question
  /\ CASE unit = "group" -> GroupNext
       [] unit = "kvblocks" -> KvmNext
       [] OTHER -> UNCHANGED stackVars
  /\ CASE unit = "desk" -> DeskNext
       [] unit = "suites" -> SuitesNext
       [] unit = "ship" -> ShipNext
       [] OTHER -> UNCHANGED harnessVars

(* What is asked for and what is placed runs out.                          *)
Ended ==
  /\ unit \in {"preload", "cpucache", "fleet", "layout", "blocks", "sizing", "group",
               "kvblocks", "suites", "ship"}
  /\ UNCHANGED HostVars

HostSpec == HostInit /\ [][HostNext \/ Ended]_HostVars

-----------------------------------------------------------------------------
(* Weights are where they are looked for: the layers a process keeps, and  *)
(* the layers, experts and blocks placed on chips.  Nothing is placed once *)
(* times are asked for.                                                    *)
WeightsPlaced ==
  /\ unit \in {"preload", "cpucache"} => PreloadAccounted /\ CacheKeepsFirst
  /\ unit \in {"fleet", "layout", "blocks"} =>
       (timed = <<>> /\ trace = NewTrace /\ engines.own = <<>> => PlacementWhole)

(* What is estimated, what is bought for it, and what a card's layer is    *)
(* said to take, carries what it is for; and what is told of packages      *)
(* compared, suites run and files sent is so.                              *)
EstimatesHold ==
  /\ unit = "fleet" => TimesHold
  /\ unit = "sizing" => SizesHold
  /\ unit \in {"group", "kvblocks"} => StackRight
  /\ unit \in {"desk", "suites", "ship"} => PackagesTold /\ SuitesAgree /\ ShippedWhole

=============================================================================

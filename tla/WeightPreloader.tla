---------------------------- MODULE WeightPreloader ----------------------------
(***************************************************************************)
(* Weights in host memory: the preloader library (c_ref/prefill/           *)
(* weight_preloader.c) with its own main, the bridge to it from Python     *)
(* (scripts/prefill/weight_preloader_bridge.py) and who calls that, the    *)
(* layout compiler and integrate_with_weight_layout; and the weight cache  *)
(* of the CPU prefill library behind its bridge (cpu_prefill_bridge.py).   *)
(*                                                                         *)
(* Memory is counted in layers, all of one size, and a layer's memory      *)
(* holds its weights or what was there before: reads that fail do not stop *)
(* a load.  The library keeps the pointer to the directory's name, which   *)
(* for the bridge is freed when init returns: from then on the name may be *)
(* anything, and what it names is not found.  A monolithic file is read    *)
(* through an I/O context, for which the bridge passes NULL.               *)
(***************************************************************************)
EXTENDS Naturals, FiniteSets, FiniteSetsExt, TLC

CONSTANTS
  NumLayers,      (* num_layers                                              *)
  NumPreload,     (* num_preload                                             *)
  FileOf,         (* how each layer is stored: in a "whole" file, in one for *)
                  (* each of its "tensors", or in "none" that can be read    *)
  MaxLoads        (* bound: calls of load_layer                              *)

(* 61 layers and 4 to preload in the code.                                 *)
ASSUME PreloadAssumption ==
  /\ NumLayers \in Nat \ {0, 1} /\ NumPreload \in Nat \ {0} /\ MaxLoads \in Nat
  /\ FileOf \in [0 .. NumLayers - 1 -> {"whole", "tensors", "none"}]

VARIABLES
  loader,         (* who loads, data of each layer, total_memory, whether    *)
                  (* weight_dir can still be read; of the bridge,            *)
                  (* _initialized and _loaded_layers; the layers a caller    *)
                  (* has still to load; whether the process lives            *)
  loads,          (* history: allocations made, freed and out of reach,      *)
                  (* those a reload put there since init, and the layer      *)
                  (* loaded last                                             *)
  cpuCache        (* weight_cache of the CPU library, _initialized of its    *)
                  (* engine, whether the process lives; history: what was    *)
                  (* handed over for each layer since it was last unloaded   *)

preVars == <<loader, loads, cpuCache>>

LayerIds == 0 .. NumLayers - 1
NoneLoaded == [l \in LayerIds |-> "none"]
Resident(data) == {l \in LayerIds : data[l] # "none"}

PreInit ==
  /\ \E by \in {"main", "compiler", "attached", "user"} :
       loader = [by |-> by, initialized |-> FALSE, data |-> NoneLoaded, total |-> 0,
                 named |-> TRUE, listed |-> {}, plan |-> {}, alive |-> TRUE]
  /\ loads = [made |-> 0, freed |-> 0, lost |-> 0, again |-> 0, last |-> NumLayers]
  /\ cpuCache = [ready |-> FALSE, cached |-> [l \in LayerIds |-> 0],
                 given |-> [l \in LayerIds |-> {}], first |-> [l \in LayerIds |-> 0],
                 alive |-> TRUE]

-----------------------------------------------------------------------------
(* weight_preloader_init: whatever was in memory is out of reach.          *)
Initialized(l, fresh) ==
  [l EXCEPT !.initialized = TRUE, !.data = NoneLoaded, !.total = 0, !.named = TRUE,
            !.listed = IF fresh THEN {} ELSE @]
InitLoads ==
  [loads EXCEPT !.lost = @ + Cardinality(Resident(loader.data)),
                !.again = 0, !.last = NumLayers]

(* init of the bridge, as often as one likes; it keeps its list of layers. *)
InitBridge ==
  /\ loader.by = "user"
  /\ loader' = Initialized(loader, FALSE) /\ loads' = InitLoads

(* preload_weights of the layout compiler, with a bridge of its own for    *)
(* each call; of integrate_with_weight_layout, with one bridge that is     *)
(* initialized once; and main, once: each wants all layers, in order.      *)
PreloadWeights ==
  /\ loader.by \in {"compiler", "attached"} /\ loader.plan = {}
  /\ IF loader.by = "attached" /\ loader.initialized
     THEN loader' = [loader EXCEPT !.plan = LayerIds] /\ UNCHANGED loads
     ELSE loader' = [Initialized(loader, TRUE) EXCEPT !.plan = LayerIds] /\ loads' = InitLoads

Main ==
  /\ loader.by = "main" /\ ~loader.initialized
  /\ loader' = [Initialized(loader, TRUE) EXCEPT !.plan = LayerIds] /\ loads' = InitLoads

-----------------------------------------------------------------------------
(* Mutant: without the half round, the layer that is just being loaded.    *)
VictimNear(l) == l % NumLayers

(* The layer to evict: the one furthest away, and no other.                *)
Victim(l) == (l + NumLayers \div 2) % NumLayers

(* load_layer: new memory whether or not the layer has some, what can be   *)
(* read of the file into it, and the victim freed if there are too many.   *)
LoadInto(l, named) ==
  LET data == [loader.data EXCEPT ![l] = IF named /\ FileOf[l] # "none" THEN "weights" ELSE "junk"]
      evicts == Cardinality(Resident(data)) > NumPreload /\ data[Victim(l)] # "none"
      again == loader.data[l] # "none"
  IN /\ loader' = [loader EXCEPT
          !.data = IF evicts THEN [data EXCEPT ![Victim(l)] = "none"] ELSE data,
          !.total = IF evicts THEN @ ELSE @ + 1,
          !.listed = @ \cup {l}, !.plan = @ \ {l}, !.named = named]
     /\ loads' = [loads EXCEPT
          !.made = @ + 1, !.freed = IF evicts THEN @ + 1 ELSE @,
          !.again = IF again THEN @ + 1 ELSE @, !.lost = IF again THEN @ + 1 ELSE @,
          !.last = l]

LoadLayer(l) ==
  /\ loader.initialized /\ loads.made < MaxLoads
  /\ loader.by # "user" => loader.plan # {} /\ l = Min(loader.plan)
  /\ \E named \in BOOLEAN :
       /\ named => loader.named
       /\ ~named => loader.by # "main"
       /\ IF named /\ FileOf[l] = "whole" /\ loader.by # "main"
          THEN loader' = [loader EXCEPT !.alive = FALSE] /\ UNCHANGED loads
          ELSE LoadInto(l, named)

(* get_tensor: an error for a layer the bridge has not loaded; for one     *)
(* that it has, a copy of what is there, None if that was evicted; and the *)
(* same in rows and columns, get_tensor_reshaped.                          *)
GetTensor(l) == IF l \notin loader.listed THEN "error" ELSE loader.data[l]

(* close, and the end of main.                                             *)
ClosePreloader ==
  /\ loader.initialized /\ loader.plan = {}
  /\ loader.by \in {"user", "attached"}
  /\ loader' = [Initialized(loader, TRUE) EXCEPT !.initialized = FALSE]
  /\ loads' = [loads EXCEPT !.freed = @ + Cardinality(Resident(loader.data)),
                            !.again = 0, !.last = NumLayers]

LoaderNext ==
  /\ loader.alive
  /\ InitBridge \/ PreloadWeights \/ Main \/ ClosePreloader \/ \E l \in LayerIds : LoadLayer(l)
  /\ UNCHANGED cpuCache

-----------------------------------------------------------------------------
Versions == {1, 2}       \* of a layer's weights

(* cpu_weight_cache_load: what is there stays, and the answer is the same. *)
CacheLoad(l, v) ==
  cpuCache' = [cpuCache EXCEPT
    !.cached[l] = IF @ = 0 THEN v ELSE @, !.given[l] = @ \cup {v},
    !.first[l] = IF cpuCache.given[l] = {} THEN v ELSE @]

CacheUnload(layers) ==
  cpuCache' = [cpuCache EXCEPT
    !.cached = [l \in LayerIds |-> IF l \in layers THEN 0 ELSE @[l]],
    !.given = [l \in LayerIds |-> IF l \in layers THEN {} ELSE @[l]],
    !.first = [l \in LayerIds |-> IF l \in layers THEN 0 ELSE @[l]]]

EngineInit == cpuCache' = [cpuCache EXCEPT !.ready = TRUE]

(* prefill_layer and prefill_chunk: refused before init; the library's     *)
(* layer takes NULL for its weights, never the cache, and the first token  *)
(* ends the process.                                                       *)
EnginePrefill(tokens) ==
  /\ cpuCache.ready
  /\ cpuCache' = [cpuCache EXCEPT !.alive = tokens = 0]

CacheNext ==
  /\ cpuCache.alive
  /\ \/ \E l \in {0, 1}, v \in Versions : CacheLoad(l, v)
     \/ \E l \in {0, 1} : CacheUnload({l})
     \/ CacheUnload(LayerIds) \/ EngineInit \/ \E n \in {0, 1} : EnginePrefill(n)
  /\ UNCHANGED <<loader, loads>>

PreNext == LoaderNext \/ CacheNext

PreSpec == PreInit /\ [][PreNext]_preVars

-----------------------------------------------------------------------------
(* Every allocation is resident, freed, or out of reach, where a reload or *)
(* another init put it; total_memory counts those of reloads with the      *)
(* resident.  A load never evicts the layer it is for, so the layer loaded *)
(* last can be had, and the bridge has listed all that are resident; but   *)
(* what it finds there are weights only while the directory's name lasts   *)
(* and the layer is stored as files of its tensors.                        *)
PreloadAccounted ==
  /\ loads.made = loads.freed + loads.lost + Cardinality(Resident(loader.data))
  /\ loader.total = Cardinality(Resident(loader.data)) + loads.again
  /\ Resident(loader.data) \subseteq loader.listed
  /\ loads.last \in LayerIds =>
       /\ GetTensor(loads.last) \in {"weights", "junk"}
       /\ GetTensor(loads.last) = "weights" =>
            FileOf[loads.last] = "tensors" \/ (FileOf[loads.last] = "whole" /\ loader.by = "main")
       /\ loader.by = "main" /\ GetTensor(loads.last) = "junk" => FileOf[loads.last] = "none"

(* The cache holds the first weights it was given since the layer was      *)
(* unloaded, and those only; whoever loads newer ones is told all is well. *)
CacheKeepsFirst ==
  \A l \in LayerIds :
    /\ cpuCache.cached[l] = cpuCache.first[l]
    /\ cpuCache.cached[l] = 0 <=> cpuCache.given[l] = {}

=============================================================================

------------------------------- MODULE KVCache -------------------------------
(***************************************************************************)
(* KVCacheManager (scripts/vllm_serve/kv_cache.py): paged KV blocks spread *)
(* over the chips of the cluster.                                          *)
(*                                                                         *)
(* A block id is a pair of a chip and a slot of that chip, so each chip is *)
(* a record over the same set Blocks:                                      *)
(*   free[b]  copies of b in _free_blocks[chip], a list: 2 would be a      *)
(*            block freed twice                                            *)
(*   used     _chip_blocks[chip]                                           *)
(*   ref[b]   _blocks[b].ref_count                                         *)
(*   lru      the members of _lru[chip]                                    *)
(* The order of the two lists is abstracted: which free block is popped,   *)
(* and which of several evictable blocks goes first, is left open.         *)
(*                                                                         *)
(* The callers (model_runner.py:111,151,182,209) always pass the first     *)
(* NumShards chips, in order, for any request at any time: also for a      *)
(* request that already holds blocks, because a failed batch is run again. *)
(***************************************************************************)
EXTENDS KVSizes, FiniteSets

CONSTANTS
  Requests,       (* request ids                                             *)
  Blocks,         (* the block slots of one chip                             *)
  NumChips,       (* chips of the cluster (32)                               *)
  PromptLens      (* prompt lengths of the requests, in tokens               *)

ASSUME KVAssumption ==
  /\ IsFiniteSet(Blocks) /\ Blocks # {}
  /\ NumChips \in Nat /\ NumShards \in 1 .. NumChips
  /\ PromptLens \subseteq Nat

VARIABLES
  chip,           (* the state of each chip's blocks                         *)
  seqBlocks,      (* _seq_blocks: the blocks on record of each request, per
                     chip; no entry and an empty entry are the same          *)
  raised          (* how the last call ended: "no", or the call that raised
                     RuntimeError                                            *)

vars == <<chip, seqBlocks, raised>>

Chips   == 0 .. NumChips - 1
ChipIds == 0 .. NumShards - 1

ChipType == [free : [Blocks -> Nat], used : SUBSET Blocks,
             ref : [Blocks -> Nat], lru : SUBSET Blocks]

Avail(ch) == {b \in Blocks : ch.free[b] > 0}

(* _allocate_block, once for each block of T.                              *)
Take(ch, T) ==
  [free |-> [b \in Blocks |-> IF b \in T THEN ch.free[b] - 1 ELSE ch.free[b]],
   used |-> ch.used \cup T,
   ref  |-> [b \in Blocks |-> IF b \in T THEN ch.ref[b] + 1 ELSE ch.ref[b]],
   lru  |-> ch.lru \cup T]

(* Variant: a block given back stays in the LRU list.                      *)
GiveKeepsLru(ch, R) ==
  LET F == R \cap ch.used IN
  [free |-> [b \in Blocks |-> IF b \in F THEN ch.free[b] + 1 ELSE ch.free[b]],
   used |-> ch.used \ F,
   ref  |-> [b \in Blocks |-> IF b \in F THEN 0 ELSE ch.ref[b]],
   lru  |-> ch.lru]

(* _free_blocks_chip: only blocks the chip has allocated are given back.   *)
Give(ch, R) ==
  LET F == R \cap ch.used IN
  [free |-> [b \in Blocks |-> IF b \in F THEN ch.free[b] + 1 ELSE ch.free[b]],
   used |-> ch.used \ F,
   ref  |-> [b \in Blocks |->
               IF b \in F /\ ch.ref[b] > 0 THEN ch.ref[b] - 1 ELSE ch.ref[b]],
   lru  |-> ch.lru \ F]

(* _evict_lru: a block nobody references goes back to the free list.       *)
Evictable(ch) == {b \in ch.lru : ch.ref[b] = 0}

-----------------------------------------------------------------------------
Init ==
  /\ chip = [c \in Chips |->
               [free |-> [b \in Blocks |-> 1], used |-> {},
                ref |-> [b \in Blocks |-> 0], lru |-> {}]]
  /\ seqBlocks = [r \in Requests |-> [c \in ChipIds |-> {}]]
  /\ raised = "no"

(* Variant: the blocks the division drops go to the first chip.            *)
AllocatePrefillUneven(r) ==
  \E len \in PromptLens, T \in [ChipIds -> SUBSET Blocks] :
    /\ \A c \in ChipIds :
         /\ T[c] \subseteq Avail(chip[c])
         /\ Cardinality(T[c]) = BlocksPerChip(len) +
              (IF c = 0 THEN BlocksNeeded(len) % NumShards ELSE 0)
    /\ chip' = [c \in Chips |-> IF c \in ChipIds THEN Take(chip[c], T[c]) ELSE chip[c]]
    /\ seqBlocks' = [seqBlocks EXCEPT ![r] = T]
    /\ raised' = "no"

(* allocate_prefill when every chip has room: the record is replaced.      *)
AllocatePrefill(r) ==
  \E len \in PromptLens, T \in [ChipIds -> SUBSET Blocks] :
    /\ \A c \in ChipIds : /\ T[c] \subseteq Avail(chip[c])
                          /\ Cardinality(T[c]) = BlocksPerChip(len)
    /\ chip' = [c \in Chips |-> IF c \in ChipIds THEN Take(chip[c], T[c]) ELSE chip[c]]
    /\ seqBlocks' = [seqBlocks EXCEPT ![r] = T]
    /\ raised' = "no"

(* Variant: the chip that fails is not rolled back.                        *)
AllocatePrefillKeeps(r) ==
  \E len \in PromptLens, k \in ChipIds, T \in [ChipIds -> SUBSET Blocks] :
    /\ Cardinality(Avail(chip[k])) < BlocksPerChip(len)
    /\ T[k] = Avail(chip[k])
    /\ \A c \in 0 .. k - 1 : /\ T[c] \subseteq Avail(chip[c])
                             /\ Cardinality(T[c]) = BlocksPerChip(len)
    /\ \A c \in ChipIds : c > k => T[c] = {}
    /\ chip' = [chip EXCEPT ![k] = Take(@, T[k])]
    /\ raised' = "prefill"
    /\ UNCHANGED seqBlocks

(* allocate_prefill when chip k is the first without room: it and the      *)
(* chips before it have taken blocks, and all of them are rolled back.     *)
AllocatePrefillRaises(r) ==
  \E len \in PromptLens, k \in ChipIds, T \in [ChipIds -> SUBSET Blocks] :
    /\ Cardinality(Avail(chip[k])) < BlocksPerChip(len)
    /\ T[k] = Avail(chip[k])
    /\ \A c \in 0 .. k - 1 : /\ T[c] \subseteq Avail(chip[c])
                             /\ Cardinality(T[c]) = BlocksPerChip(len)
    /\ \A c \in ChipIds : c > k => T[c] = {}
    /\ chip' = [c \in Chips |-> IF c \in 0 .. k
                                THEN Give(Take(chip[c], T[c]), T[c]) ELSE chip[c]]
    /\ raised' = "prefill"
    /\ UNCHANGED seqBlocks

-----------------------------------------------------------------------------
(* The blocks a decode step may get from a chip: a free one or, when there *)
(* is none, one that an eviction has just put on the free list.            *)
Grabbable(ch) == IF Avail(ch) # {} THEN Avail(ch) ELSE Evictable(ch)

Grab(ch, b) ==
  IF Avail(ch) # {} THEN Take(ch, {b}) ELSE Take(Give(ch, {b}), {b})

(* Variant: only a request that has an entry gets the block on record.     *)
AllocateDecodeNoEntry(r) ==
  \E g \in [ChipIds -> Blocks] :
    /\ \A c \in ChipIds : g[c] \in Grabbable(chip[c])
    /\ chip' = [c \in Chips |-> IF c \in ChipIds THEN Grab(chip[c], g[c]) ELSE chip[c]]
    /\ seqBlocks' = [seqBlocks EXCEPT ![r] =
                       [c \in ChipIds |-> IF @[c] = {} THEN {} ELSE @[c] \cup {g[c]}]]
    /\ raised' = "no"

(* allocate_decode on a block boundary; other steps return at once.        *)
AllocateDecode(r) ==
  \E g \in [ChipIds -> Blocks] :
    /\ \A c \in ChipIds : g[c] \in Grabbable(chip[c])
    /\ chip' = [c \in Chips |-> IF c \in ChipIds THEN Grab(chip[c], g[c]) ELSE chip[c]]
    /\ seqBlocks' = [seqBlocks EXCEPT ![r] = [c \in ChipIds |-> @[c] \cup {g[c]}]]
    /\ raised' = "no"

(* allocate_decode when chip k is the first with nothing to give: chips    *)
(* before k keep the block they have taken, which is on no record.         *)
AllocateDecodeRaises(r) ==
  \E k \in ChipIds : \E g \in [0 .. k - 1 -> Blocks] :
    /\ Grabbable(chip[k]) = {}
    /\ \A c \in 0 .. k - 1 : g[c] \in Grabbable(chip[c])
    /\ chip' = [c \in Chips |-> IF c \in 0 .. k - 1 THEN Grab(chip[c], g[c]) ELSE chip[c]]
    /\ raised' = "decode"
    /\ UNCHANGED seqBlocks

(* Variant: the record survives the call.                                  *)
FreeRequestKeepsRecord(r) ==
  /\ chip' = [c \in Chips |->
                IF c \in ChipIds THEN Give(chip[c], seqBlocks[r][c]) ELSE chip[c]]
  /\ raised' = "no"
  /\ UNCHANGED seqBlocks

(* Variant: the last chip is forgotten.                                    *)
FreeRequestSkipsLast(r) ==
  /\ chip' = [c \in Chips |->
                IF c \in ChipIds \ {NumShards - 1}
                THEN Give(chip[c], seqBlocks[r][c]) ELSE chip[c]]
  /\ seqBlocks' = [seqBlocks EXCEPT ![r] = [c \in ChipIds |-> {}]]
  /\ raised' = "no"

(* free_request: everything on record goes back, then the record goes.     *)
FreeRequest(r) ==
  /\ chip' = [c \in Chips |->
                IF c \in ChipIds THEN Give(chip[c], seqBlocks[r][c]) ELSE chip[c]]
  /\ seqBlocks' = [seqBlocks EXCEPT ![r] = [c \in ChipIds |-> {}]]
  /\ raised' = "no"

Next ==
  \E r \in Requests :
    \/ AllocatePrefill(r)
    \/ AllocatePrefillRaises(r)
    \/ AllocateDecode(r)
    \/ AllocateDecodeRaises(r)
    \/ FreeRequest(r)

Spec == Init /\ [][Next]_vars

-----------------------------------------------------------------------------
(* Every variable has the shape the code gives it.                         *)
TypeOK ==
  /\ chip \in [Chips -> ChipType]
  /\ seqBlocks \in [Requests -> [ChipIds -> SUBSET Blocks]]
  /\ raised \in {"no", "prefill", "decode"}

(* The four structures that _allocate_block and _free_blocks_chip update   *)
(* one after the other always tell the same story about a block: it is     *)
(* once on the free list and unreferenced, or it is allocated, referenced  *)
(* once and in the LRU list.  No block is lost or on the free list twice.  *)
Bookkeeping ==
  \A c \in Chips, b \in Blocks :
    IF b \in chip[c].used
    THEN chip[c].free[b] = 0 /\ chip[c].ref[b] = 1 /\ b \in chip[c].lru
    ELSE chip[c].free[b] = 1 /\ chip[c].ref[b] = 0 /\ b \notin chip[c].lru

(* Isolation: the blocks on record of a request are allocated, and no      *)
(* block is on the record of two requests.  free_request relies on it: its *)
(* only guard is that the block is allocated, whoever owns it by then.     *)
Isolation ==
  \A r \in Requests, c \in ChipIds :
    /\ seqBlocks[r][c] \subseteq chip[c].used
    /\ \A q \in Requests \ {r} : seqBlocks[q][c] \cap seqBlocks[r][c] = {}

(* The chips that share a cache run in lock step: the same number of       *)
(* blocks in use on each, and of each request on each.                     *)
LockStep ==
  \A c, d \in ChipIds :
    /\ Cardinality(chip[c].used) = Cardinality(chip[d].used)
    /\ \A r \in Requests :
         Cardinality(seqBlocks[r][c]) = Cardinality(seqBlocks[r][d])

(* allocate_decode has no rollback, and yet a call that raises takes no    *)
(* block: thanks to LockStep the first chip is the first to be full.  The  *)
(* same of allocate_prefill, which has one (kv_cache.py:96-98).            *)
RaisingTakesNothing == [][raised' # "no" => chip' = chip]_vars

(* Blocks that are allocated and on no record can never be freed.          *)
Leaked(c) ==
  chip[c].used \ UNION {seqBlocks[r][c] : r \in Requests}

(* Such a block appears in one way only: a second prefill of a request     *)
(* that still held blocks (kv_cache.py:107 replaces the record).           *)
LeakOnlyByPrefillAgain ==
  [][\A c \in ChipIds : \A b \in Leaked(c)' \ Leaked(c) :
       \E r \in Requests : b \in seqBlocks[r][c] /\ seqBlocks'[r][c] # {}]_vars

(* The manager as its callers see it: one pool, counted in blocks.         *)
Pool == INSTANCE KVPool WITH
  Capacity <- Cardinality(Blocks),
  Demands  <- {BlocksPerChip(len) : len \in PromptLens},
  pool     <- [free |-> Cardinality(Avail(chip[0])),
               held |-> [r \in Requests |-> Cardinality(seqBlocks[r][0])]]

(* Every call of the manager is one step of that pool, or changes nothing. *)
RefinesPool == Pool!Spec

(* kv_cache.py:34 says "LRU eviction when HBM is full": a decode step      *)
(* fails only when some chip has nothing left in its LRU list.             *)
EvictsBeforeRaising ==
  raised = "decode" => \E c \in ChipIds : chip[c].lru = {}

=============================================================================

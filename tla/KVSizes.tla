------------------------------- MODULE KVSizes -------------------------------
(***************************************************************************)
(* The arithmetic of KV blocks (scripts/vllm_serve/kv_cache.py), shared by *)
(* the manager and the serving loop.                                       *)
(***************************************************************************)
EXTENDS Naturals

CONSTANTS
  NumShards,      (* chips that hold KV: chips[:8] of the model runner       *)
  KvBlockTokens   (* KV_BLOCK_TOKENS: tokens of one block (16)               *)

ASSUME SizesAssumption ==
  /\ NumShards \in Nat \ {0}
  /\ KvBlockTokens \in Nat \ {0}

AtLeastOne(n) == IF n = 0 THEN 1 ELSE n

(* The blocks a prompt needs, and what it is given on each chip.  Both     *)
(* divisions drop the remainder.                                           *)
BlocksNeeded(len) == AtLeastOne(len \div KvBlockTokens)

BlocksPerChip(len) == AtLeastOne(BlocksNeeded(len) \div NumShards)

(* A decode step allocates only when it starts a new block; step counts    *)
(* the tokens generated before it.                                         *)
StartsBlock(step) == step % KvBlockTokens = 0

=============================================================================

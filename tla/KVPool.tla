-------------------------------- MODULE KVPool --------------------------------
(***************************************************************************)
(* What the KV cache manager promises its callers, counted in blocks.      *)
(*                                                                         *)
(* Every caller of KVCacheManager (model_runner.py, run_serving.py) passes *)
(* the same list of chips, and the manager gives each of those chips the   *)
(* same number of blocks.  Seen from the scheduler the cache is therefore  *)
(* one pool: a number of free blocks and, per request, a number of blocks  *)
(* it holds, both "per chip".  Module KVCache is the manager with its      *)
(* blocks and lists, and refines this module.                              *)
(*                                                                         *)
(* The operators below are functions on a pool record, so that the serving *)
(* model can chain them over the requests of a batch.                      *)
(***************************************************************************)
EXTENDS Naturals

CONSTANTS
  Requests,       (* the identifiers of requests                             *)
  Capacity,       (* KV blocks on one chip (max_blocks_per_chip), at least 1 *)
  Demands         (* the numbers of blocks per chip a prefill may ask for,
                     all of them at least 1                                  *)

VARIABLE pool     (* [free, held]: see PoolType                              *)

PoolType == [free : 0 .. Capacity, held : [Requests -> 0 .. Capacity]]

FullPool == [free |-> Capacity, held |-> [r \in Requests |-> 0]]

(***************************************************************************)
(* A prefill records exactly the blocks it has just taken: blocks that the *)
(* request already held are no longer recorded anywhere (kv_cache.py:107). *)
(***************************************************************************)
PrefillFits(p, n) == n <= p.free

TakePrefill(p, r, n) ==
  [free |-> p.free - n, held |-> [p.held EXCEPT ![r] = n]]

(* A decode step that crosses a block boundary adds one block.             *)
DecodeFits(p) == p.free > 0

TakeDecode(p, r) ==
  [free |-> p.free - 1, held |-> [p.held EXCEPT ![r] = @ + 1]]

(* free_request gives back what the request has on record.                 *)
Release(p, r) ==
  [free |-> p.free + p.held[r], held |-> [p.held EXCEPT ![r] = 0]]

-----------------------------------------------------------------------------
Init == pool = FullPool

Prefill(r) ==
  \E n \in Demands : PrefillFits(pool, n) /\ pool' = TakePrefill(pool, r, n)

Decode(r) == DecodeFits(pool) /\ pool' = TakeDecode(pool, r)

FreeRequest(r) == pool' = Release(pool, r)

Next == \E r \in Requests : Prefill(r) \/ Decode(r) \/ FreeRequest(r)

Spec == Init /\ [][Next]_pool

=============================================================================

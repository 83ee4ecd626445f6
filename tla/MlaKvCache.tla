------------------------------ MODULE MlaKvCache ------------------------------
(***************************************************************************)
(* mla_kv_cache (rtl/attention/mla_kv_cache.sv): a ring of KV entries in   *)
(* block RAM, written by the decode path or by the preload port, both      *)
(* through one write pointer.  An entry is whatever the writer hands over; *)
(* the FP8 packing and the conversion to Q12 are left out.                 *)
(*                                                                         *)
(* CacheEdge is one clock edge.  The read port is combinational and is     *)
(* registered once (rd_K_flat): CacheRead is the registered value after    *)
(* the edge.                                                               *)
(***************************************************************************)
EXTENDS Naturals

CONSTANTS
  NumSlots,       (* NUM_SLOTS                                               *)
  NoEntry         (* a slot never written (its valid bit is 0)               *)

ASSUME CacheAssumption == NumSlots \in Nat \ {0}

VARIABLES
  ring,           (* the RAMs u_K, u_V and u_valid                           *)
  ringPtr,        (* wr_ptr                                                  *)
  ringFill        (* entry_count                                             *)

cacheVars == <<ring, ringPtr, ringFill>>

RingSlots == 0 .. NumSlots - 1

CacheInit ==
  /\ ring = [s \in RingSlots |-> NoEntry]
  /\ ringPtr = 0 /\ ringFill = 0

NextSlot(s) == IF s = NumSlots - 1 THEN 0 ELSE s + 1

(* One write enters the ring.                                              *)
CacheWrite(entry) ==
  /\ ring' = [ring EXCEPT ![ringPtr] = entry]
  /\ ringPtr' = NextSlot(ringPtr)
  /\ ringFill' = IF ringFill < NumSlots THEN ringFill + 1 ELSE ringFill

(* Both ports in one cycle are one write, and the preload data wins.       *)
CacheEdge(wrEn, entry, preloadEn, preloadEntry) ==
  IF wrEn \/ preloadEn
  THEN CacheWrite(IF preloadEn THEN preloadEntry ELSE entry)
  ELSE UNCHANGED cacheVars

CacheRead(addr) == IF addr < NumSlots THEN ring[addr] ELSE NoEntry

CacheEmpty == ringFill = 0

=============================================================================

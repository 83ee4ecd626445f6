-------------------------------- MODULE Engram --------------------------------
(***************************************************************************)
(* The engram lookup (rtl/engram/lookup_engine.sv, hash_unit.sv,           *)
(* sram_cache.sv): an n-gram of tokens is hashed, its embedding looked up  *)
(* in a direct-mapped cache, fetched from LPDDR when it is not there, and  *)
(* entered in the cache.                                                   *)
(*                                                                         *)
(* A step is a clock edge.  An n-gram is the hash it has, <<tag, index>>;  *)
(* the embedding of a hash is named by the hash.  LPDDR answers a request  *)
(* once, no sooner than a register can, as in rtl/sim/tb_lookup_engine.sv. *)
(***************************************************************************)
EXTENDS Naturals

CONSTANTS
  Tags, Indices,  (* of a hash; an index is a line of the cache              *)
  NoHash          (* registers and memories after reset                      *)

VARIABLES
  lookup,         (* the registers of lookup_engine                          *)
  hash,           (* those of hash_unit                                      *)
  line,           (* the lines of sram_cache: the hash each holds            *)
  cacheOut,       (* lookup_hit and lookup_data                              *)
  lpddr,          (* the memory: requests in progress, its answer            *)
  gramAsked       (* history: the n-gram in progress                         *)

engramVars == <<lookup, hash, line, cacheOut, lpddr, gramAsked>>

Hashes == Tags \X Indices

EngramInit ==
  /\ lookup = [state |-> "IDLE", lookupValid |-> FALSE, missHash |-> NoHash, req |-> FALSE,
               outValid |-> FALSE, embedding |-> NoHash]
  /\ hash = [state |-> "IDLE", h |-> NoHash, valid |-> FALSE, out |-> NoHash]
  /\ line = [i \in Indices |-> NoHash]
  /\ cacheOut = [hit |-> FALSE, data |-> NoHash]
  /\ lpddr = [pending |-> {}, valid |-> FALSE, data |-> NoHash]
  /\ gramAsked = NoHash

-----------------------------------------------------------------------------
(* hash_unit: three mixing steps and a final one.                          *)
HashUnit(grams) ==
  hash' = CASE hash.state = "IDLE" ->
                 IF lookup.state = "IDLE" /\ grams # {}
                 THEN [hash EXCEPT !.h = CHOOSE g \in grams : TRUE, !.state = "MIX1",
                                   !.valid = FALSE]
                 ELSE [hash EXCEPT !.valid = FALSE]
            [] hash.state = "MIX1" -> [hash EXCEPT !.state = "MIX2", !.valid = FALSE]
            [] hash.state = "MIX2" -> [hash EXCEPT !.state = "FINAL", !.valid = FALSE]
            [] hash.state = "FINAL" -> [hash EXCEPT !.out = hash.h, !.valid = TRUE,
                                                    !.state = "IDLE"]

(* Mutant: a line hits on its index alone.                                 *)
CacheOutTagless ==
  cacheOut' = IF lookup.lookupValid
              THEN [hit |-> line[lookup.missHash[2]] # NoHash,
                    data |-> line[lookup.missHash[2]]]
              ELSE [cacheOut EXCEPT !.hit = FALSE]

(* The read side of sram_cache; a line is valid once it has been filled.   *)
CacheOut ==
  cacheOut' = IF lookup.lookupValid
              THEN [hit |-> line[lookup.missHash[2]] = lookup.missHash,
                    data |-> line[lookup.missHash[2]]]
              ELSE [cacheOut EXCEPT !.hit = FALSE]

(* The fill side: whatever LPDDR gives, under the hash looked up last.     *)
CacheFill ==
  line' = IF lpddr.valid THEN [line EXCEPT ![lookup.missHash[2]] = lookup.missHash] ELSE line

(* A register that is not a pulse keeps its value; the two pulses fall,    *)
(* out_valid when its word is taken.                                       *)
Settled(ready) ==
  [lookup EXCEPT !.lookupValid = FALSE, !.req = FALSE, !.outValid = @ /\ ~ready]

LookupIdle(grams) ==
  /\ lookup.state = "IDLE"
  /\ lookup' = IF grams = {} THEN Settled(FALSE) ELSE [Settled(FALSE) EXCEPT !.state = "HASHING"]
  /\ gramAsked' = IF grams = {} THEN gramAsked ELSE CHOOSE g \in grams : TRUE

LookupHashing ==
  /\ lookup.state = "HASHING"
  /\ lookup' = IF hash.valid THEN [Settled(FALSE) EXCEPT !.lookupValid = TRUE,
                                     !.missHash = hash.out, !.state = "CACHE_LOOKUP"]
                             ELSE Settled(FALSE)
  /\ UNCHANGED gramAsked

LookupResolve ==
  /\ \/ lookup.state = "CACHE_LOOKUP" /\ lookup' = [Settled(FALSE) EXCEPT !.state = "RESOLVE"]
     \/ /\ lookup.state = "RESOLVE"
        /\ lookup' = IF cacheOut.hit
                     THEN [Settled(FALSE) EXCEPT !.outValid = TRUE,
                             !.embedding = cacheOut.data, !.state = "OUTPUT"]
                     ELSE [Settled(FALSE) EXCEPT !.req = TRUE, !.state = "MISS_REQ"]
  /\ UNCHANGED gramAsked

LookupMiss ==
  /\ \/ lookup.state = "MISS_REQ" /\ lookup' = [Settled(FALSE) EXCEPT !.state = "MISS_WAIT"]
     \/ /\ lookup.state = "MISS_WAIT"
        /\ lookup' = IF lpddr.valid
                     THEN [Settled(FALSE) EXCEPT !.outValid = TRUE,
                             !.embedding = lpddr.data, !.state = "OUTPUT"]
                     ELSE Settled(FALSE)
  /\ UNCHANGED gramAsked

LookupOutput(ready) ==
  /\ lookup.state = "OUTPUT"
  /\ lookup' = IF ready THEN [Settled(ready) EXCEPT !.state = "IDLE"] ELSE Settled(ready)
  /\ UNCHANGED gramAsked

(* LPDDR sees a request for a cycle and answers it when it likes.          *)
Lpddr(answers) ==
  /\ answers \subseteq lpddr.pending
  /\ lpddr' = [pending |-> (lpddr.pending \ answers) \cup
                           (IF lookup.req THEN {lookup.missHash} ELSE {}),
               valid |-> answers # {},
               data |-> IF answers = {} THEN lpddr.data ELSE CHOOSE a \in answers : TRUE]

EngramEdge(grams, ready, answers) ==
  /\ HashUnit(grams) /\ CacheOut /\ CacheFill /\ Lpddr(answers)
  /\ LookupIdle(grams) \/ LookupHashing \/ LookupResolve \/ LookupMiss \/ LookupOutput(ready)

EngramNext ==
  \E grams \in {{}} \cup {{g} : g \in Hashes}, ready \in BOOLEAN :
    \E answers \in SUBSET lpddr.pending : EngramEdge(grams, ready, answers)

(* The clock runs, LPDDR answers and the reader takes what it is offered.  *)
EngramReadily == EngramEdge({}, TRUE, lpddr.pending)

EngramSpec == EngramInit /\ [][EngramNext]_engramVars /\ WF_engramVars(EngramReadily)

-----------------------------------------------------------------------------
(* The registers stay in their ranges.                                     *)
EngramTypeOK ==
  /\ lookup.state \in {"IDLE", "HASHING", "CACHE_LOOKUP", "RESOLVE", "MISS_REQ", "MISS_WAIT",
                       "OUTPUT"}
  /\ lookup.missHash \in Hashes \cup {NoHash} /\ line \in [Indices -> Hashes \cup {NoHash}]
  /\ lpddr.pending \subseteq Hashes

(* Every n-gram that is taken is given its own embedding, from the cache   *)
(* or from LPDDR, whatever the lines were filled with before.              *)
LookupsAnswered ==
  /\ [](EngramTypeOK /\ (lookup.outValid => lookup.embedding = gramAsked))
  /\ (lookup.state # "IDLE") ~> (lookup.state = "IDLE")

=============================================================================
